---------------------------------- MODULE Lexer ----------------------------------
(* The tokeniser (compiler/src/lexer/mod.rs) and the pass that turns indentation *)
(* into INDENT and DEDENT tokens (compiler/src/lexer/indent.rs).                 *)
(*                                                                               *)
(* A source is a sequence of atoms: a character that is looked at on its own, or *)
(* a run of letters or of digits.  The state of the lexer is the source s, the   *)
(* position p, the tokens so far, the depth of each kind of bracket, the depths   *)
(* at which interpolated expressions began, and the errors.  A token is a pair of *)
(* its kind and its value; a newline's value is the indentation of the next line  *)
(* of code, which the tokeniser hands to the second pass in the token's span.     *)
(* Escapes by code point, exponents and other radixes are left out.               *)
EXTENDS Integers, Sequences, SequencesExt, TLC

(* ---- atoms ---------------------------------------------------------------------- *)
Digits == {"0", "1", "2", "3", "42"}
OutOfRange == {"99999999999999999999999999999999999999999"}
Punctuation == {" ", "\t", "\r", "\n", "+", "-", "*", "/", "%", "=", "!", "<", ">", "&", "|", "?", ".", ":", ",", ";",
                "(", ")", "[", "]", "{", "}", "\"", "'", "\\", "@"}
Word(a) == a \notin Punctuation \cup Digits \cup OutOfRange

Keywords ==
  {"as", "async", "await", "break", "const", "continue", "else", "export", "for", "if", "import", "in", "let", "loop",
   "match", "mod", "return", "use", "var", "while", "derive", "enum", "fn", "impl", "struct", "trait", "type", "unsafe",
   "owned", "borrow", "managed", "weak", "unowned", "task", "actor", "defer", "extern", "macro", "native", "operator",
   "protocol", "reflect", "spawn", "static", "where", "yield"}

KeywordOrIdent(w) ==
  CASE w \in {"true", "false"} -> <<"Bool", w>>
    [] w \in Keywords -> <<w, "">>
    [] OTHER -> <<"Ident", w>>

Singles == {"+", "-", "*", "/", "%", "=", "!", "<", ">", "|", "?", ".", ":", ",", ";", "(", ")", "[", "]", "{", "}"}
Doubles == {"+=", "-=", "->", "*=", "/=", "%=", "==", "!=", "<=", ">=", "&&", "||", "??", "..", "::"}
Triples == {"..=", "..."}
CommentKinds == {"LineComment", "BlockComment", "DocComment", "ModDocComment"}

(* ---- navigation ------------------------------------------------------------------- *)
At(L, n) == IF L.p + n <= Len(L.s) THEN L.s[L.p + n] ELSE "EOF"
Skip(L, n) == [L EXCEPT !.p = IF @ + n <= Len(L.s) + 1 THEN @ + n ELSE Len(L.s) + 1]
Push(L, kind, value) == [L EXCEPT !.out = Append(@, <<kind, value>>)]
Error(L) == [L EXCEPT !.e = Append(@, "E0001")]

InContinuation(L) == L.paren > 0 \/ L.bracket > 0 \/ L.brace > 0
Less(n) == IF n > 0 THEN n - 1 ELSE 0

RECURSIVE EndOf(_, _, _)
(* The first place from i on where the atoms of `stop` follow one another, or past the end. *)
EndOf(s, i, stop) ==
  IF i > Len(s) \/ (i + Len(stop) - 1 <= Len(s) /\ SubSeq(s, i, i + Len(stop) - 1) = stop) THEN i ELSE EndOf(s, i + 1, stop)

RECURSIVE PastAll(_, _, _)
(* The first place from i on that holds none of these atoms.                              *)
PastAll(s, i, blanks) == IF i <= Len(s) /\ s[i] \in blanks THEN PastAll(s, i + 1, blanks) ELSE i

(* ---- indentation of the next line of code -------------------------------------------- *)
TabMixed == -1

IsComment(s, i) == i < Len(s) /\ s[i] = "/" /\ s[i + 1] \in {"/", "*"}

(* Past a comment, the blanks after it and one newline: what is left is taken for a line.  *)
PastComment(s, i) ==
  LET end == IF s[i + 1] = "*" THEN EndOf(s, i + 2, <<"*", "/">>) + 2 ELSE EndOf(s, i, <<"\n">>)
      next == PastAll(s, end, {" ", "\t", "\r"})
  IN IF next <= Len(s) /\ s[next] = "\n" THEN next + 1 ELSE next

RECURSIVE PeekNextIndent(_, _)
PeekNextIndent(s, i) ==
  LET j == PastAll(s, i, {" ", "\t"})
      lead == SubSeq(s, i, j - 1)
  IN CASE j > Len(s) -> 0
       [] s[j] \in {"\n", "\r"} -> PeekNextIndent(s, j + 1)
       [] IsComment(s, j) -> PeekNextIndent(s, PastComment(s, j))
       [] OTHER -> IF Contains(lead, "\t") THEN TabMixed ELSE Len(lead)

(* ---- text ------------------------------------------------------------------------------- *)
Escapes == [n |-> "\n", t |-> "\t", r |-> "\r"] @@ ("\\" :> "\\") @@ ("'" :> "'") @@ ("\"" :> "\"")
           @@ ("0" :> "nul")

(* After a backslash: the position beyond the escape and what it adds, or nothing and an error. *)
Escape(L) ==
  IF At(L, 0) \in DOMAIN Escapes
    THEN [rest |-> Skip(L, 1), add |-> <<Escapes[At(L, 0)]>>]
    ELSE [rest |-> Error(Skip(L, 1)), add |-> <<>>]

(* A string from L on, after its quote or after the brace that ends an expression in it.  A      *)
(* brace opens an expression, the end of the line ends the string with an error.                 *)
RECURSIVE ScanText(_, _, _, _)
ScanText(L, text, closes, opens) ==
  LET esc == Escape(Skip(L, 1))
      inner == Push(Skip(L, 1), opens, text)
  IN CASE At(L, 0) \in {"EOF", "\n"} -> Push(Error(L), closes, text)
       [] At(L, 0) = "\"" -> Push(Skip(L, 1), closes, text)
       [] At(L, 0) = "\\" /\ At(L, 1) \in {"{", "}"} -> ScanText(Skip(L, 2), Append(text, At(L, 1)), closes, opens)
       [] At(L, 0) = "\\" -> ScanText(esc.rest, text \o esc.add, closes, opens)
       [] At(L, 0) = "{" -> [inner EXCEPT !.brace = @ + 1, !.interp = Append(@, L.brace + 1)]
       [] OTHER -> ScanText(Skip(L, 1), Append(text, At(L, 0)), closes, opens)

RECURSIVE ScanMultiline(_, _)
ScanMultiline(L, text) ==
  LET esc == Escape(Skip(L, 1))
  IN CASE At(L, 0) = "EOF" -> Push(Error(L), "String", text)
       [] At(L, 0) = "\"" /\ At(L, 1) = "\"" /\ At(L, 2) = "\"" -> Push(Skip(L, 3), "String", text)
       [] At(L, 0) = "\\" -> ScanMultiline(esc.rest, text \o esc.add)
       [] OTHER -> ScanMultiline(Skip(L, 1), Append(text, At(L, 0)))

ScanString(L) ==
  IF At(L, 0) = "\"" /\ At(L, 1) = "\"" THEN ScanMultiline(Skip(L, 2), <<>>) ELSE ScanText(L, <<>>, "String", "InterpStart")

(* A literal that does not end after one character is dropped, with everything up to a quote.      *)
ScanChar(L) ==
  LET esc == Escape(Skip(L, 1))
      one == IF At(L, 0) = "\\" THEN esc ELSE [rest |-> Skip(L, 1), add |-> <<At(L, 0)>>]
      dropped == Skip([one.rest EXCEPT !.p = EndOf(L.s, @, <<"'">>)], 1)
  IN CASE At(L, 0) = "EOF" -> Error(L)
       [] At(L, 0) = "'" -> Error(Skip(L, 1))
       [] one.add = <<>> -> dropped
       [] At(one.rest, 0) # "'" -> Error(dropped)
       [] OTHER -> Push(Skip(one.rest, 1), "Char", one.add)

(* ---- numbers and names ------------------------------------------------------------------------------ *)
(* A number with a point is a float only if a digit follows; what does not fit is dropped.            *)
ScanNumber(L) ==
  LET end == PastAll(L.s, L.p, Digits \cup OutOfRange)
      fraction == end < Len(L.s) /\ L.s[end] = "." /\ L.s[end + 1] \in Digits
      last == IF fraction THEN PastAll(L.s, end + 1, Digits) ELSE end
      rest == [L EXCEPT !.p = last]
  IN IF L.s[L.p] \in OutOfRange THEN Error(rest)
     ELSE Push(rest, IF fraction THEN "Float" ELSE "Int", SubSeq(L.s, L.p, last - 1))

RECURSIVE NameEnd(_, _)
NameEnd(s, i) == IF i <= Len(s) /\ (Word(s[i]) \/ s[i] \in Digits) THEN NameEnd(s, i + 1) ELSE i

RECURSIVE Joined(_, _, _)
Joined(s, i, j) == IF i >= j THEN "" ELSE s[i] \o Joined(s, i + 1, j)

ScanIdent(L) ==
  LET end == NameEnd(L.s, L.p)
      token == KeywordOrIdent(Joined(L.s, L.p, end))
  IN Push([L EXCEPT !.p = end], token[1], token[2])

(* ---- comments, newlines, brackets, operators -------------------------------------------------------------- *)
(* A block comment without an end takes the rest of the file, and nothing says so.                        *)
ScanComment(L) ==
  LET block == At(L, 1) = "*"
      kind == CASE block -> "BlockComment" [] At(L, 2) = "/" -> "DocComment" [] At(L, 2) = "!" -> "ModDocComment"
                [] OTHER -> "LineComment"
      end == IF block THEN EndOf(L.s, L.p + 2, <<"*", "/">>) + 2 ELSE EndOf(L.s, L.p, <<"\n">>)
  IN Push([Skip(L, 0) EXCEPT !.p = IF end <= Len(L.s) THEN end ELSE Len(L.s) + 1], kind, "")

EndsInNewline(L) == L.out # <<>> /\ Last(L.out)[1] = "Newline"

(* Within brackets, and after another, a newline is nothing.                                              *)
ScanNewline(L) ==
  IF InContinuation(L) \/ EndsInNewline(L) THEN Skip(L, 1)
  ELSE Push(Skip(L, 1), "Newline", PeekNextIndent(L.s, L.p + 1))

(* A brace at the depth where an expression in a string began goes on with the string.                    *)
ScanBrace(L) ==
  LET out == [Skip(L, 1) EXCEPT !.brace = Less(@)]
  IN IF L.interp # <<>> /\ Last(L.interp) = L.brace
       THEN ScanText([out EXCEPT !.interp = Front(@)], <<>>, "InterpEnd", "InterpMiddle")
       ELSE Push(out, "}", "")

ScanOperator(L) ==
  LET two == At(L, 0) \o At(L, 1)
      three == two \o At(L, 2)
  IN CASE three \in Triples -> Push(Skip(L, 3), three, "")
       [] two \in Doubles -> Push(Skip(L, 2), two, "")
       [] At(L, 0) = "(" -> Push([Skip(L, 1) EXCEPT !.paren = @ + 1], "(", "")
       [] At(L, 0) = ")" -> Push([Skip(L, 1) EXCEPT !.paren = Less(@)], ")", "")
       [] At(L, 0) = "[" -> Push([Skip(L, 1) EXCEPT !.bracket = @ + 1], "[", "")
       [] At(L, 0) = "]" -> Push([Skip(L, 1) EXCEPT !.bracket = Less(@)], "]", "")
       [] At(L, 0) = "{" -> Push([Skip(L, 1) EXCEPT !.brace = @ + 1], "{", "")
       [] At(L, 0) = "}" -> ScanBrace(L)
       [] At(L, 0) \in Singles \ {"(", ")", "[", "]", "{", "}"} -> Push(Skip(L, 1), At(L, 0), "")
       [] OTHER -> Error(Skip(L, 1))

ScanOne(L) ==
  CASE At(L, 0) \in {" ", "\t", "\r"} -> Skip(L, 1)
    [] At(L, 0) = "\n" -> ScanNewline(L)
    [] At(L, 0) = "/" /\ At(L, 1) \in {"/", "*"} -> ScanComment(L)
    [] At(L, 0) = "\"" -> ScanString(Skip(L, 1))
    [] At(L, 0) = "'" -> ScanChar(Skip(L, 1))
    [] At(L, 0) \in Digits \cup OutOfRange -> ScanNumber(L)
    [] Word(At(L, 0)) -> ScanIdent(L)
    [] OTHER -> ScanOperator(L)

RECURSIVE Scan(_)
Scan(L) ==
  IF L.p <= Len(L.s) THEN Scan(ScanOne(L))
  ELSE Push(IF EndsInNewline(L) THEN L ELSE Push(L, "Newline", 0), "Eof", "")

(* ---- indentation ------------------------------------------------------------------------------------------- *)
(* The second pass: the tokens t from i on, the columns of the open blocks, the depth of braces.            *)
RECURSIVE PastLines(_, _)
(* The next token that is neither a newline nor a comment.                                                  *)
PastLines(t, i) ==
  CASE i > Len(t) -> i
    [] t[i][1] = "Newline" -> PastLines(t, i + 1)
    [] t[i][1] \in CommentKinds -> PastLines(t, i + 1)
    [] OTHER -> i

RECURSIVE LineIndent(_, _)
LineIndent(t, i) == IF t[i][1] = "Newline" THEN t[i][2] ELSE LineIndent(t, i - 1)

RECURSIVE DedentTo(_, _)
DedentTo(I, column) ==
  IF Last(I.stack) <= column THEN I
  ELSE DedentTo([I EXCEPT !.stack = Front(@), !.out = Append(@, <<"Dedent", "">>)], column)

(* The columns that are open and no deeper than the line.                                                   *)
Enclosing(I, column) == {I.stack[k] : k \in DOMAIN I.stack} \cap 0 .. column

(* A newline opens a block before a line that is deeper, and closes blocks before one that is not as deep;  *)
(* a line at a column no block has is reported and taken for a line of the block around it.                 *)
OffsideNewline(I) ==
  LET i == PastLines(I.t, I.i + 1)
      column == LineIndent(I.t, i - 1)
      line == [I EXCEPT !.out = Append(@, <<"Newline", "">>)]
  IN CASE i > Len(I.t) \/ I.t[i][1] = "Eof" -> DedentTo(line, 0)
       [] column = TabMixed -> [line EXCEPT !.e = Append(@, "E0002")]
       [] column > Last(I.stack) -> [line EXCEPT !.stack = Append(@, column), !.out = Append(@, <<"Indent", "">>)]
       [] column \in Enclosing(I, column) -> DedentTo(line, column)
       [] OTHER -> DedentTo([line EXCEPT !.e = Append(@, "E0003")], Max(Enclosing(I, column)))

OffsideOne(I) ==
  LET kind == I.t[I.i][1]
      out == [I EXCEPT !.out = Append(@, I.t[I.i])]
  IN CASE kind = "{" -> [out EXCEPT !.brace = @ + 1]
       [] kind = "}" -> [out EXCEPT !.brace = Less(@)]
       [] kind = "Newline" -> IF I.brace > 0 THEN I ELSE OffsideNewline(I)
       [] kind = "Eof" -> LET closed == DedentTo(I, 0) IN [closed EXCEPT !.out = Append(@, <<"Eof", "">>)]
       [] OTHER -> out

RECURSIVE Offside(_)
Offside(I) == IF I.i > Len(I.t) THEN I ELSE Offside([OffsideOne(I) EXCEPT !.i = I.i + 1])

(* ---- the whole ------------------------------------------------------------------------------------------------ *)
Raw(s) == Scan([s |-> s, p |-> 1, out |-> <<>>, e |-> <<>>, paren |-> 0, bracket |-> 0, brace |-> 0, interp |-> <<>>])

Lex(s) ==
  LET raw == Raw(s)
      passed == Offside([t |-> raw.out, i |-> 1, stack |-> <<0>>, brace |-> 0, out |-> <<>>, e |-> raw.e])
  IN [tokens |-> passed.out, errors |-> passed.e]
================================================================================
