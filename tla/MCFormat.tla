------------------------------- MODULE MCFormat -------------------------------
(* Sources for Format: every expression in every place an expression may stand,  *)
(* every block in each of the three ways to write one, declarations, lists at    *)
(* the edge of the line, and programs with one atom left out.                     *)
EXTENDS Format

In(level) == [i \in 1 .. 2 * level |-> " "]
Lines(texts, level) == FlattenSeq([i \in DOMAIN texts |-> In(level) \o Append(texts[i], "\n")])
Main(texts) == Lines(<< <<"main", "(", ")", ":">> >>, 0) \o Lines(texts, 1)
Par(text) == Between("(", text, ")")
Infix(left, op, right) == left \o <<" ">> \o op \o <<" ">> \o right

(* ---- expressions ---------------------------------------------------------------- *)
A == <<"a">>
B == <<"b">>
One == <<"1">>
CallOf(args) == <<"f">> \o Par(Join(args, Comma))
Closed == <<"|", "x", "|", " ">>
Point(text) == <<"P", " ", "{", " ", "x", ":", " ">> \o text \o <<" ", "}">>
Spread(text) == <<"P", " ", "{", " ", "x", ":", " ", "a", ",", " ", ".", ".", ".">> \o text \o <<" ", "}">>
Operators == {<<"*">>, <<"+">>, <<"<">>, <<"=", "=">>, <<"&", "&">>, <<"?", "?">>, <<".", ".">>}

Simple ==
  {A, One, <<"-", "b">>, <<"!", "a">>, <<"await", " ", "a">>, <<"a", "?">>, <<"a", ".", "b">>, CallOf(<<>>),
   <<"f", "(", "k", ":", " ", "a", ",", " ", "1", ")">>, <<"a", "[", "1", "]">>, Closed \o <<"x">>,
   <<"[", "a", ",", "b", "]">>, Point(A), Spread(B), <<"\"", "s", "{", "a", "}", "\"">>, <<"1", ".", "2">>,
   <<"m", ":", ":", "g">>, <<"out", ":", " ", "a">>}
  \cup {Infix(A, op, B) : op \in Operators}
Fillers == Simple \cup {Par(e) : e \in Simple}

Places(h) ==
  {h, <<"-">> \o h, <<"!">> \o h, <<"await", " ">> \o h, h \o <<".", "b">>, h \o Par(A), h \o <<"[", "1", "]">>,
   Append(h, "?"), CallOf(<<h>>), <<"a", "[">> \o h \o <<"]">>, <<"[", "a", ",">> \o h \o <<"]">>, Point(h), Spread(h),
   <<"\"", "s", "{">> \o h \o <<"}", "t", "\"">>, Closed \o h}
  \cup {Infix(A, op, h) : op \in Operators} \cup {Infix(h, op, A) : op \in Operators}

Expressions == {Main(<< <<"y", " ", "=", " ">> \o e >>) : e \in UNION {Places(h) : h \in Fillers}}

(* ---- statements and blocks ---------------------------------------------------------- *)
Leaves ==
  {<<"let", " ", "x", " ", "=", " ", "a">>, <<"var", " ", "x", ":", " ", "T", " ", "=", " ", "a">>, <<"state", " ", "s", "=", "a">>,
   <<"a", " ", "+", "=", " ", "1">>, <<"f", "(", "a", ")">>, <<"return", " ", "a">>, <<"break">>, <<"continue">>,
   <<"k", ":", " ", "a">>, <<"k", ":", "Int">>, <<"f", "(", "k", ":", "[", "a", "]", ")">>}
Heads ==
  {<<"if", " ", "a">>, <<"while", " ", "a", "<", "b">>, <<"loop">>, <<"for", " ", "x", " ", "in", " ", "a", ".", "b">>,
   <<"fn", " ", "g", "(", "p", ":", "T", ")">>, <<"g", "(", "p", ":", "T", ")">>, <<"task", " ", "t">>, <<"f", "(", "a", ")">>, <<"g">>}

(* A block over a sequence of flat statements: on lines of their own, on the line of the   *)
(* head, or in braces.                                                                     *)
Styles == {"lines", "inline", "braces"}
Flat(stmts) == Join(stmts, <<";", " ">>)
Block(head, stmts, style, level) ==
  CASE style = "lines" -> In(level) \o head \o <<":", "\n">> \o Lines(stmts, level + 1)
    [] style = "inline" -> In(level) \o head \o <<":", " ">> \o Flat(stmts) \o <<"\n">>
    [] style = "braces" -> In(level) \o head \o <<":", "{", " ">> \o Flat(stmts) \o <<" ", "}", "\n">>

Nested(outer, inner, stmts, style) == In(1) \o outer \o <<":", "\n">> \o Block(inner, stmts, style, 2)
IfElse(stmt, style) ==
  Block(<<"if", " ", "a">>, <<stmt>>, style, 1) \o Block(<<"else", " ", "if", " ", "b">>, <<stmt, B>>, style, 1)
  \o Block(<<"else">>, <<stmt>>, style, 1)

Blocks ==
  {Main(<<>>) \o Block(head, <<stmt, B>>, style, 1) : head \in Heads, stmt \in Leaves, style \in Styles}
  \cup {Main(<<>>) \o Block(head, <<stmt>>, style, 1) \o In(1) \o <<"b", "\n">> : head \in Heads, stmt \in Leaves, style \in Styles}
  \cup {Main(<<>>) \o Nested(outer, inner, <<A, B>>, style) \o Lines(<<A>>, 1) : outer, inner \in Heads, style \in Styles}
  \cup {Main(<<>>) \o IfElse(stmt, style) : stmt \in Leaves, style \in Styles}

(* ---- lists at the edge of the line ----------------------------------------------------- *)
(* The name in front of an argument list may be what is too long, also for an empty one.    *)
Chain(n) == A \o FlattenSeq([i \in 1 .. n |-> <<".", "b">>])
LongCalls(n) ==
  {Chain(n) \o Par(args) : args \in {<<>>, A, <<"[", "]">>, CallOf(<<>>)}} \cup {Chain(n) \o <<"(", ")", ".", "b", "(", ")">>}

Lists ==
  LET elems(n) == [i \in 1 .. n |-> IF i = 2 THEN Infix(A, <<"+">>, B) ELSE A]
      texts(n) == {CallOf(elems(n)), Between("[", Join(elems(n), Comma), "]"), CallOf(<<CallOf(elems(n)), B>>),
                   Point(Between("[", Join(elems(n), Comma), "]")), Append(CallOf(elems(n)), "?")}
  IN {Main(<<e, B>>) : e \in UNION {texts(n) : n \in 4 .. 9}}
     \cup {Main(<<>>) \o Block(<<"if", " ", "a">>, <<e, B>>, "lines", 1) : e \in UNION {texts(n) : n \in 4 .. 9}}
     \cup {Main(<<>>) \o Block(CallOf(elems(n)), <<A, B>>, "lines", 1) : n \in 4 .. 9}
     \cup {Main([i \in 1 .. n |-> elems(n)[i]]) : n \in 4 .. 9}
     \cup {Main(<<e, B>>) : e \in UNION {LongCalls(n) : n \in {5, 12, 20}}}
     \cup {Main(<<>>) \o Block(Chain(n) \o Par(<<>>), <<A, B>>, "lines", 1) : n \in {5, 12, 20}}

(* ---- programs ------------------------------------------------------------------------------ *)
Programs ==
  [imports |->
     <<"import", " ", "a", ":", ":", "b", " ", "as", " ", "c", "\n", "export", " ", "import", " ", "d", "\n",
       "export", " ", "*", "\n", "export", " ", "*", " ", "except", " ", "x", ",", " ", "y", "\n", "export", " ", "a",
       "(", "p", ":", " ", "T", ")", ":", " ", "f", "(", ")", "\n">>,
   task |->
     <<"task", " ", "t", "(", "p", ":", " ", "T", ")", ":", " ", "{", " ", "f", "(", "p", ")", ";", " ", "a", " ",
       "}", "\n", "derive", " ", "A", " ", "for", " ", "B", ":", "\n", "const", " ", "c", ":", " ", "T", " ", "=",
       " ", "|", "x", "|", " ", "x", " ", "+", " ", "1", "\n">>,
   fn |->
     <<"fn", " ", "f", "<", "T", ":", " ", "A", " ", "+", " ", "B", ",", " ", "U", ">", "(", "p", ":", " ", "T", " ",
       "=", " ", "a", " ", "+", " ", "1", ",", " ", "q", ":", " ", "[", "U", "]", ")", " ", "-", ">", " ", "(", "A",
       ",", " ", "B", ")", ":", " ", "p", "\n", "fn", " ", "g", ":", "\n", " ", " ", "return", "\n">>,
   bare |->
     <<"f", ":", " ", "a", "\n", "f", "(", "p", ":", " ", "T", ")", ":", " ", "{", " ", "a", ";", " ", "b", " ", "}",
       "\n", "f", "(", ")", " ", "-", ">", " ", "T", ":", "\n", " ", " ", "a", "\n">>,
   struct |->
     <<"struct", " ", "S", "<", "T", ",", " ", "U", ">", ":", "\n", " ", " ", "x", ":", " ", "(", "A", ")", " ", "-",
       ">", " ", "B", ";", " ", "y", ":", " ", "P", ":", ":", "Q", "<", "T", ",", " ", "[", "A", "]", ">", "\n",
       "struct", " ", "R", ":", " ", "{", " ", "z", ":", " ", "A", " ", "}", "\n", "struct", " ", "O", ":", "\n">>,
   enum |->
     <<"enum", " ", "E", "<", "T", ",", " ", "U", ">", ":", "\n", " ", " ", "A", "\n", " ", " ", "B", "(", "T", ",",
       " ", "Int", ")", "\n", "enum", " ", "F", ":", " ", "{", " ", "A", ";", " ", "B", "(", "x", ")", " ", "}", "\n">>,
   trait |->
     <<"trait", " ", "A", "<", "T", ",", " ", "U", ">", ":", "\n", " ", " ", "fn", " ", "f", "(", "p", ":", " ", "T",
       ")", " ", "-", ">", " ", "U", "\n", " ", " ", "g", "(", "q", ":", " ", "T", ")", "\n", "const", " ", "c", ":",
       " ", "T", " ", "=", " ", "1", "\n">>,
   impl |->
     <<"impl", " ", "A", " ", "for", " ", "B", "<", "T", ",", " ", "U", ">", ":", "\n", " ", " ", "fn", " ", "f", "(",
       "p", ":", " ", "T", ")", ":", " ", "p", " ", "+", " ", "1", "\n", " ", " ", "fn", " ", "g", ":", "\n", " ",
       " ", " ", " ", "f", "(", "a", ")", "\n", "impl", " ", "C", ":", "\n", " ", " ", "fn", " ", "h", "(", "q", ":",
       " ", "T", ")", ":", " ", "{", " ", "return", " ", "a", ";", " ", "b", " ", "}", "\n">>,
   match |->
     <<"main", "(", ")", ":", "\n", " ", " ", "match", " ", "f", "(", "a", ")", ":", "\n", " ", " ", " ", " ", "A",
       "(", "x", ",", " ", "1", ")", ":", " ", "x", "\n", " ", " ", " ", " ", "_", " ", "if", " ", "x", " ", ">", " ",
       "1", ":", "\n", " ", " ", " ", " ", " ", " ", "b", ";", " ", "c", "\n", " ", " ", " ", " ", "\"", "s", "\"",
       ":", " ", "f", "(", "a", ")", "\n", " ", " ", " ", " ", "B", "(", "C", "(", ")", ",", " ", "true", ")", ":",
       " ", "y", "\n">>,
   lit |->
     <<"main", "(", ")", ":", "\n", " ", " ", "x", " ", "=", " ", "\"", "a", "\\", "n", "{", "b", " ", "+", " ", "1",
       "}", "c", "\\", "\"", "{", "d", "}", "\"", ";", " ", "y", " ", "=", " ", "'", "\\", "n", "'", ";", " ", "z",
       " ", "=", " ", "1", ".", "2", ";", " ", "w", " ", "=", " ", "true", "\n">>,
   comment |->
     <<"/", "/", " ", "a", "\n", "main", "(", ")", ":", " ", "/", "/", " ", "b", "\n", "\n", "\n", " ", " ", " ", " ",
       "x", " ", "/", "/", " ", "c", "\n", " ", " ", "/", "/", " ", "d", "\n", " ", " ", " ", " ", "y", "\n">>,
   many |->
     <<"main", "(", ")", ":", "\n", " ", " ", " ", " ", "a", ";", " ", "b", ";", " ", "let", " ", "x", " ", "=", " ",
       "1", ";", " ", "var", " ", "y", ":", " ", "T", " ", "=", " ", "2", ";", " ", "k", ":", " ", "a", ";", " ", "f",
       "(", "a", ")", ";", " ", "state", " ", "s", " ", "=", " ", "1", ";", " ", "return", " ", "a", "\n">>,
   cont |->
     <<"main", "(", ")", ":", "\n", " ", " ", "x", " ", "=", " ", "f", "(", "a", ",", "\n", " ", "b", ",", "\n", " ",
       " ", " ", " ", " ", "c", ")", "\n", " ", " ", "y", " ", "=", " ", "[", "a", ",", "\n", "b", "]", "\n">>,
   bits |->
     <<"main", "(", ")", ":", "\n", " ", " ", "let", " ", "x", " ", "=", " ", "(", "1", " ", "<", " ", "a", ")", " ",
       "=", "=", " ", "!", "b", ";", " ", "var", " ", "y", ":", " ", "[", "T", "]", " ", "=", " ", "[", "|", "z", "|",
       " ", "z", ",", " ", "await", " ", "f", "(", "a", ")", "?", "]", "\n">>,
   deep |->
     <<"main", "(", ")", ":", "\n", " ", " ", "while", " ", "a", " ", "<", " ", "1", ":", "\n", " ", " ", " ", " ",
       "for", " ", "x", " ", "in", " ", "0", ".", ".", "=", "3", ":", "\n", " ", " ", " ", " ", " ", " ", "if", " ",
       "x", " ", "=", "=", " ", "a", ":", " ", "break", "\n", " ", " ", " ", " ", " ", " ", "else", " ", "if", " ",
       "!", "b", ":", " ", "{", " ", "continue", ";", " ", "f", "(", "x", ")", " ", "}", "\n", " ", " ", " ", " ",
       " ", " ", "else", ":", "\n", " ", " ", " ", " ", " ", " ", " ", " ", "return", " ", "g", "(", "x", ")", "\n">>,
   local |->
     <<"main", "(", ")", ":", "\n", " ", " ", "g", "(", "p", ":", " ", "T", ")", " ", "-", ">", " ", "U", ":", "\n",
       " ", " ", " ", " ", "h", "(", "k", ":", " ", "p", ")", "\n", " ", " ", "fn", " ", "i", ":", " ", "a", "\n",
       " ", " ", "struct", " ", "R", ":", " ", "{", " ", "z", ":", " ", "A", " ", "}", "\n", " ", " ", "task", " ",
       "u", ":", " ", "f", "(", "a", ")", "\n">>]

Without(text, i) == SubSeq(text, 1, i - 1) \o SubSeq(text, i + 1, Len(text))
Edited == {"fn", "struct", "enum", "trait", "match", "lit", "bits", "deep", "local", "many", "impl"}
Edits == UNION {{Without(Programs[n], i) : i \in DOMAIN Programs[n]} : n \in Edited}

(* ---- the exceptions ---------------------------------------------------------------------- *)
(* Trees the printer writes as something else, or as nothing.                                   *)
MCAwkward == {
   \* a call with a block is the value of a function
   <<"fn", " ", "f", "(", ")", ":", " ", "g", "(", "1", ")", ":", " ", "h", "(", ")", "\n">>,
   \* the two marks read as one operator
   <<"main", "(", ")", ":", "\n", " ", " ", "y", " ", "=", " ", "(", "a", "?", ")", "?", "\n">>,
   \* a brace in a string without expressions is printed without its backslash
   <<"main", "(", ")", ":", "\n", " ", " ", "y", " ", "=", " ", "\"", "\\", "{", "a", "\"", "\n">>,
   \* the type parameters of a member are left out
   <<"trait", " ", "A", ":", "\n", " ", " ", "fn", " ", "f", "<", "T", ">", "(", "p", ":", " ", "T", ")", "\n">>,
   \* those of a structure in a block too
   <<"main", "(", ")", ":", "\n", " ", " ", "struct", " ", "R", "<", "T", ">", ":", " ", "{", " ", "z", ":", " ",
     "T", " ", "}", "\n">>,
   \* without parentheses the arrow does not follow a name
   <<"main", "(", ")", ":", "\n", " ", " ", "fn", " ", "g", "(", ")", " ", "-", ">", " ", "T", ":", " ", "{", " ",
     "a", " ", "}", "\n">>,
   \* a name and type parameters read as a comparison
   <<"main", "(", ")", ":", "\n", " ", " ", "fn", " ", "g", "<", "T", ">", "(", "p", ":", " ", "T", ")", ":", " ",
     "{", " ", "a", " ", "}", "\n">>,
   \* two bars read as one operator
   <<"main", "(", ")", ":", "\n", " ", " ", "y", " ", "=", " ", "|", " ", "|", " ", "a", "\n">>,
   \* a call with an empty block shares its line with the next statement
   <<"main", "(", ")", ":", "\n", " ", " ", "f", "(", "a", ")", ":", "\n", " ", " ", "b", "\n">>,
   \* a labelled argument reads as a parameter
   <<"main", "(", ")", ":", "\n", " ", " ", "(", "f", "(", "k", ":", " ", "a", ")", ")", ":", " ", "b", "\n">>,
   \* reads as a declaration of state
   <<"main", "(", ")", ":", "\n", " ", " ", "(", "state", ")", " ", "=", " ", "3", "\n">>}

(* Words the parser reads and keeps nowhere: the second element of a tuple, the pattern of     *)
(* an `if let`, the type of a state, the name of a field of a variant, two prefixes.            *)
MCLossy == {
   <<"main", "(", ")", ":", "\n", " ", " ", "y", " ", "=", " ", "(", "a", ",", " ", "b", ")", "\n">>,
   <<"main", "(", ")", ":", "\n", " ", " ", "if", " ", "let", " ", "A", "(", "x", ")", " ", "=", " ", "a", ":", " ",
     "{", " ", "b", " ", "}", "\n">>,
   <<"main", "(", ")", ":", "\n", " ", " ", "state", " ", "s", ":", " ", "T", " ", "=", " ", "1", "\n">>,
   <<"enum", " ", "E", ":", "\n", " ", " ", "A", "(", "x", ":", " ", "T", ")", "\n">>,
   <<"async", " ", "fn", " ", "f", "(", ")", ":", " ", "a", "\n">>,
   <<"managed", " ", "struct", " ", "S", ":", " ", "{", " ", "x", ":", " ", "T", " ", "}", "\n">>}

Sources == Expressions \cup Blocks \cup Lists \cup Edits \cup {Programs[n] : n \in DOMAIN Programs} \cup MCAwkward \cup MCLossy
MCCases == LET sources == Sources IN [source \in sources |-> Formatted(source)]
================================================================================
