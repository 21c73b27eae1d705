--------------------------------- MODULE Printer ---------------------------------
(* The printer of the formatter (noct-cli/src/fmt_v2.rs): a syntax tree of       *)
(* Grammar to source text.  A text is a sequence of atoms as the lexer reads     *)
(* them, and width is counted in atoms, so LINE_CAP is a number of atoms.        *)
(* Comments are left out: they are placed by line, after the text is made.       *)
EXTENDS Lexer

CONSTANT Cap          \* LINE_CAP: the width past which a text is broken

(* ---- texts ------------------------------------------------------------------------ *)
Pad(level) == [i \in 1 .. 4 * level |-> " "]
Join(texts, sep) == FlattenSeq([i \in DOMAIN texts |-> IF i = 1 THEN texts[i] ELSE sep \o texts[i]])
EachJoined(F(_), nodes, sep) == Join([i \in DOMAIN nodes |-> F(nodes[i])], sep)
Names1(names) == [i \in DOMAIN names |-> <<names[i]>>]
Comma == <<",", " ">>
Between(open, text, close) == <<open>> \o text \o <<close>>
Line(level, text) == Pad(level) \o text

(* ---- literals, names, types --------------------------------------------------------- *)
(* A character is escaped if the lexer has an escape for it; quotes and braces only    *)
(* where they would end the text or open an expression.                                *)
EscapedAtom(a, also) ==
  IF a \in also \/ a \in {Escapes[e] : e \in DOMAIN Escapes} \ {"'", "\""}
    THEN <<"\\", IF a \in also THEN a ELSE CHOOSE e \in DOMAIN Escapes : Escapes[e] = a>>
    ELSE <<a>>
Escaped(text, also) == FlattenSeq([i \in DOMAIN text |-> EscapedAtom(text[i], also)])

PrintLiteral(t) ==
  CASE t[1] \in {"Int", "Float"} -> t[2]
    [] t[1] = "Bool" -> <<t[2]>>
    [] t[1] = "Char" -> Between("'", Escaped(t[2], {"'"}), "'")
    [] t[1] = "String" -> Between("\"", Escaped(t[2], {"\""}), "\"")

PrintPath(path) == Join(Names1(path), <<":", ":">>)

RECURSIVE PrintType(_)
PrintType(t) ==
  LET list(types) == EachJoined(PrintType, types, Comma)
  IN CASE t[1] = "Named" -> PrintPath(t[2]) \o (IF t[3] = <<>> THEN <<>> ELSE Between("<", list(t[3]), ">"))
       [] t[1] = "Tuple" -> Between("(", list(t[2]), ")")
       [] t[1] = "Collection" -> Between("[", PrintType(t[2]), "]")
       [] t[1] = "Function" -> Between("(", list(t[2]), ")") \o <<" ", "-", ">", " ">> \o PrintType(t[3])

PrintGeneric(g) ==
  <<g[1]>> \o (IF g[2] = <<>> THEN <<>> ELSE <<":", " ">> \o Join(Names1(g[2]), <<" ", "+", " ">>))
PrintGenerics(gs) == IF gs = <<>> THEN <<>> ELSE Between("<", EachJoined(PrintGeneric, gs, Comma), ">")

Returns(ret) == IF ret = <<>> THEN <<>> ELSE <<" ", "-", ">", " ">> \o PrintType(ret[1])
Annotated(name, ann) == <<name>> \o (IF ann = <<>> THEN <<>> ELSE <<":", " ">> \o PrintType(ann[1]))

(* A variant keeps its parentheses: a bare name would be a binding.                       *)
PrintVariant(v) == <<v[2]>> \o Between("(", EachJoined(PrintType, v[3], Comma), ")")

RECURSIVE PrintPattern(_)
PrintPattern(p) ==
  CASE p[1] = "Wildcard" -> <<"_">>
    [] p[1] = "Ident" -> <<p[2]>>
    [] p[1] = "Literal" -> PrintLiteral(p[2])
    [] p[1] = "Variant" -> <<p[2]>> \o Between("(", EachJoined(PrintPattern, p[3], Comma), ")")

(* ---- expressions ---------------------------------------------------------------------- *)
Prec(op) ==
  CASE op = "??" -> 10 [] op = "||" -> 9 [] op = "&&" -> 8 [] op \in {"==", "!="} -> 7
    [] op \in {"<", "<=", ">", ">="} -> 6 [] op \in {"+", "-"} -> 4 [] op \in {"*", "/", "%"} -> 3

(* Operators of two characters are two atoms.                                              *)
Spelled ==
  [op \in Singles |-> <<op>>]
  @@ ("??" :> <<"?", "?">>) @@ ("||" :> <<"|", "|">>) @@ ("&&" :> <<"&", "&">>) @@ ("==" :> <<"=", "=">>)
  @@ ("!=" :> <<"!", "=">>) @@ ("<=" :> <<"<", "=">>) @@ (">=" :> <<">", "=">>) @@ (".." :> <<".", ".">>)
  @@ ("..=" :> <<".", ".", "=">>) @@ ("+=" :> <<"+", "=">>) @@ ("-=" :> <<"-", "=">>) @@ ("*=" :> <<"*", "=">>)
  @@ ("/=" :> <<"/", "=">>) @@ ("%=" :> <<"%", "=">>)

(* What needs no parentheses wherever it stands.                                            *)
IsAtom(e) ==
  \/ e[1] \in {"Literal", "Ident", "Member", "Index", "StructLit", "ListLit", "StringInterp"}
  \/ e[1] = "Call" /\ e[4] = <<>>

(* Mutant: the right operand is grouped only where it is looser.                           *)
NeedsParensMutant(e, prec, isRight) ==
  CASE e[1] = "BinOp" -> Prec(e[2]) > prec
    [] e[1] \in {"UnaryOp", "Try"} -> FALSE
    [] OTHER -> ~IsAtom(e)

(* An operand of a binary operator: looser on the left, as loose on the right.              *)
NeedsParens(e, prec, isRight) ==
  CASE e[1] = "BinOp" -> Prec(e[2]) > prec \/ (isRight /\ Prec(e[2]) = prec)
    [] e[1] \in {"UnaryOp", "Try"} -> FALSE
    [] OTHER -> ~IsAtom(e)

(* A list that fits on a line, or else one element to a line, each with a comma; without    *)
(* elements the brackets part all the same.                                                 *)
Listed(open, close, elems, level) ==
  LET one == open \o Join(elems, Comma) \o close
      broken == [i \in DOMAIN elems |-> Pad(level + 1) \o elems[i] \o <<",", "\n">>]
  IN IF 4 * level + Len(one) <= Cap THEN one
     ELSE open \o <<"\n">> \o FlattenSeq(broken) \o Pad(level) \o close

RECURSIVE PrintExpr(_)
Grouped(e) == Between("(", PrintExpr(e), ")")
PrintOperand(e) == IF IsAtom(e) \/ e[1] = "Try" THEN PrintExpr(e) ELSE Grouped(e)
PrintBinChild(e, prec, isRight) == IF NeedsParens(e, prec, isRight) THEN Grouped(e) ELSE PrintExpr(e)

PrintArg(a) == (IF a[2] = <<>> THEN <<>> ELSE <<a[2][1], ":", " ">>) \o PrintExpr(a[3])
PrintCallHead(c, level) ==
  Listed(PrintOperand(c[2]) \o <<"(">>, <<")">>, [i \in DOMAIN c[3] |-> PrintArg(c[3][i])], level)

PrintStructField(f) ==
  IF f[1] = "Named" THEN <<f[2], ":", " ">> \o PrintExpr(f[3]) ELSE <<".", ".", ".">> \o PrintExpr(f[2])
PrintStructLit(s) ==
  LET fields == [i \in DOMAIN s[3] |-> PrintStructField(s[3][i])]
      one == PrintPath(s[2]) \o <<" ", "{", " ">> \o Join(fields, Comma) \o <<" ", "}">>
  IN CASE fields = <<>> -> PrintPath(s[2]) \o <<" ", "{", "}">>
       [] Len(one) <= Cap -> one
       [] OTHER -> Listed(PrintPath(s[2]) \o <<" ", "{">>, <<"}">>, fields, 0)

PrintPart(part) ==
  IF part[1] = "Text" THEN Escaped(part[2], {"\"", "{", "}"}) ELSE Between("{", PrintExpr(part), "}")

(* A call with a block has no place inside an expression: the printer gives up.             *)
GivesUp == "panic"

PrintExpr(e) ==
  CASE e[1] = "Literal" -> PrintLiteral(e[2])
    [] e[1] = "Ident" -> PrintPath(e[2])
    [] e[1] = "Call" -> IF e[4] = <<>> THEN PrintCallHead(e, 0) ELSE <<GivesUp>>
    [] e[1] = "Member" -> PrintOperand(e[2]) \o <<".", e[3]>>
    [] e[1] = "Index" -> PrintOperand(e[2]) \o Between("[", PrintExpr(e[3]), "]")
    [] e[1] = "BinOp" ->
         PrintBinChild(e[3], Prec(e[2]), FALSE) \o Between(" ", Spelled[e[2]], " ") \o PrintBinChild(e[4], Prec(e[2]), TRUE)
    [] e[1] = "UnaryOp" -> (IF e[2] = "await" THEN <<"await", " ">> ELSE <<e[2]>>) \o PrintOperand(e[3])
    [] e[1] = "Try" -> PrintOperand(e[2]) \o <<"?">>
    [] e[1] = "Range" -> PrintOperand(e[3]) \o Spelled[e[2]] \o PrintOperand(e[4])
    [] e[1] = "StringInterp" -> Between("\"", FlattenSeq([i \in DOMAIN e[2] |-> PrintPart(e[2][i])]), "\"")
    [] e[1] = "StructLit" -> PrintStructLit(e)
    [] e[1] = "ListLit" /\ e[2] = <<>> -> <<"[", "]">>
    [] e[1] = "ListLit" /\ e[2] # <<>> -> Listed(<<"[">>, <<"]">>, [i \in DOMAIN e[2] |-> PrintExpr(e[2][i])], 0)
    [] e[1] = "Closure" -> Between("|", Join(Names1(e[2]), Comma), "|") \o <<" ">> \o PrintExpr(e[3])
    [] e[1] = "Spread" -> <<".", ".", ".">> \o PrintExpr(e[2])

(* ---- statements -------------------------------------------------------------------------- *)
PrintParam(p) ==
  <<p[2], ":", " ">> \o PrintType(p[3]) \o (IF p[4] = <<>> THEN <<>> ELSE <<" ", "=", " ">> \o PrintExpr(p[4][1]))
PrintParams(ps) == Between("(", EachJoined(PrintParam, ps, Comma), ")")
Bound(word, name, ann, value) ==
  <<word, " ">> \o Annotated(name, ann) \o <<" ", "=", " ">> \o PrintExpr(value)
Valued(word, value) == <<word>> \o (IF value = <<>> THEN <<>> ELSE <<" ">> \o PrintExpr(value[1]))
PrintField(f) == <<f[2], ":", " ">> \o PrintType(f[3])

Tiny == {"Let", "Var", "State", "Assign", "Decl", "Expr"}

RECURSIVE PrintStmt(_, _)
RECURSIVE Dense(_, _, _)

(* Tiny statements of one line share a line while it fits.                                    *)
RECURSIVE LineOf(_, _, _, _)
LineOf(stmts, i, level, line) ==
  LET lines == PrintStmt(stmts[i], level)
      longer == line \o <<";", " ">> \o SubSeq(lines[1], 4 * level + 1, Len(lines[1]))
  IN IF i <= Len(stmts) /\ stmts[i][1] \in Tiny /\ Len(lines) = 1 /\ Len(longer) <= Cap
       THEN LineOf(stmts, i + 1, level, longer)
       ELSE [line |-> line, next |-> i]

Dense(stmts, i, level) ==
  IF i > Len(stmts) THEN <<>>
  ELSE LET lines == PrintStmt(stmts[i], level)
           run == LineOf(stmts, i + 1, level, lines[1])
       IN IF stmts[i][1] \in Tiny /\ Len(lines) = 1 THEN <<run.line>> \o Dense(stmts, run.next, level)
          ELSE lines \o Dense(stmts, i + 1, level)

PrintBlock(stmts, level) == Dense(stmts, 1, level)
Under(head, stmts, level) == <<Line(level, Append(head, ":"))>> \o PrintBlock(stmts, level + 1)

(* A function with `fn`, or bare in a block: then without empty parentheses, which would make  *)
(* it a call, unless its body is an expression, which would make it a declaration.             *)
PrintFunction(f, level, withFn) ==
  LET inline == f[6][1] = "Expr"
      full == withFn \/ inline
      head == (IF full THEN <<"fn", " ">> ELSE <<>>) \o <<f[2]>> \o PrintGenerics(f[3])
              \o (IF full \/ f[4] # <<>> THEN PrintParams(f[4]) ELSE <<>>) \o Returns(f[5])
  IN IF inline THEN <<Line(level, head \o <<":", " ">> \o PrintExpr(f[6][2]))>> ELSE Under(head, f[6][2], level)

PrintTask(t, level) == Under(<<"task", " ", t[2]>> \o PrintParams(t[3]), t[4], level)
PrintStruct(s, generics, level) ==
  <<Line(level, <<"struct", " ", s[2]>> \o generics \o <<":">>)>>
  \o [i \in DOMAIN s[4] |-> Line(level + 1, PrintField(s[4][i]))]

PrintArm(arm, level) ==
  LET head == PrintPattern(arm[2]) \o (IF arm[3] = <<>> THEN <<>> ELSE <<" ", "if", " ">> \o PrintExpr(arm[3][1]))
  IN IF arm[4][1] = "Expr" THEN <<Line(level, head \o <<":", " ">> \o PrintExpr(arm[4][2]))>>
     ELSE Under(head, arm[4][2], level)

PrintIf(s, level) ==
  Under(<<"if", " ">> \o PrintExpr(s[2]), s[3], level)
  \o FlattenSeq([i \in DOMAIN s[4] |-> Under(<<"else", " ", "if", " ">> \o PrintExpr(s[4][i][1]), s[4][i][2], level)])
  \o (IF s[5] = <<>> THEN <<>> ELSE Under(<<"else">>, s[5][1], level))

PrintExprStmt(e, level) ==
  IF e[1] = "Call" /\ e[4] # <<>> THEN Under(PrintCallHead(e, level), e[4][1], level) ELSE <<Line(level, PrintExpr(e))>>

PrintStmt(s, level) ==
  LET one(text) == <<Line(level, text)>>
  IN CASE s[1] = "Let" -> one(Bound("let", s[2], s[3], s[4]))
       [] s[1] = "Var" -> one(Bound("var", s[2], s[3], s[4]))
       [] s[1] = "State" -> one(Bound("state", s[2], <<>>, s[3]))
       [] s[1] = "Assign" -> one(PrintExpr(s[3]) \o Between(" ", Spelled[s[2]], " ") \o PrintExpr(s[4]))
       [] s[1] = "Expr" -> PrintExprStmt(s[2], level)
       [] s[1] = "Return" -> one(Valued("return", s[2]))
       [] s[1] = "Break" -> one(Valued("break", s[2]))
       [] s[1] = "Continue" -> one(<<"continue">>)
       [] s[1] = "If" -> PrintIf(s, level)
       [] s[1] = "While" -> Under(<<"while", " ">> \o PrintExpr(s[2]), s[3], level)
       [] s[1] = "Loop" -> Under(<<"loop">>, s[2], level)
       [] s[1] = "For" -> Under(<<"for", " ", s[2], " ", "in", " ">> \o PrintExpr(s[3]), s[4], level)
       [] s[1] = "Match" ->
            one(<<"match", " ">> \o PrintExpr(s[2]) \o <<":">>)
            \o FlattenSeq([i \in DOMAIN s[3] |-> PrintArm(s[3][i], level + 1)])
       [] s[1] = "Function" -> PrintFunction(s, level, FALSE)
       [] s[1] = "Task" -> PrintTask(s, level)
       [] s[1] = "Struct" -> PrintStruct(s, <<>>, level)
       [] s[1] = "BareField" -> one(PrintField(s))
       [] s[1] = "Decl" -> one(<<s[2], ":", " ">> \o PrintExpr(s[3]))

(* ---- items ------------------------------------------------------------------------------------ *)
PrintSig(m) == <<"fn", " ", m[2]>> \o PrintParams(m[4]) \o Returns(m[5])
PrintImport(i) == <<"import", " ">> \o PrintPath(i[2]) \o (IF i[3] = <<>> THEN <<>> ELSE <<" ", "as", " ", i[3][1]>>)

(* A declaration over a list of members, one to a line.                                           *)
Members(word, d, texts) ==
  << <<word, " ", d[2]>> \o PrintGenerics(d[3]) \o <<":">> >> \o [i \in DOMAIN texts |-> Line(1, texts[i])]

PrintImpl(ib) ==
  LET target == PrintType(ib[2]) \o <<":">>
      head == <<"impl", " ">> \o (IF ib[3] = <<>> THEN target ELSE PrintType(ib[3][1]) \o <<" ", "for", " ">> \o target)
  IN <<head>> \o FlattenSeq([i \in DOMAIN ib[4] |-> PrintFunction(ib[4][i], 1, TRUE)])

RECURSIVE PrintItem(_)
PrintItem(d) ==
  LET inner == PrintItem(d[2])
  IN CASE d[1] = "BareDecl" ->
            Under(<<d[2]>> \o (IF d[3] = <<>> THEN <<>> ELSE PrintParams(d[3][1])) \o Returns(d[4]), d[5], 0)
       [] d[1] = "Function" -> PrintFunction(d, 0, TRUE)
       [] d[1] = "Task" -> PrintTask(d, 0)
       [] d[1] = "Derive" -> << <<"derive", " ", d[2], " ", "for", " ", d[3], ":">> >>
       [] d[1] = "Struct" -> PrintStruct(d, PrintGenerics(d[3]), 0)
       [] d[1] = "Enum" -> Members("enum", d, [i \in DOMAIN d[4] |-> PrintVariant(d[4][i])])
       [] d[1] = "Trait" -> Members("trait", d, [i \in DOMAIN d[4] |-> PrintSig(d[4][i])])
       [] d[1] = "Impl" -> PrintImpl(d)
       [] d[1] = "Const" -> <<Bound("const", d[2], <<d[3]>>, d[4])>>
       [] d[1] = "Mod" -> Under(<<"mod", " ", d[2]>>, d[3], 0)
       [] d[1] = "ReExport" -> << <<"export", " ">> \o PrintImport(d[2]) >>
       [] d[1] = "ExportAll" -> << <<"export", " ", "*">> >>
       [] d[1] = "ExportAllExcept" -> << <<"export", " ", "*", " ", "except", " ">> \o Join(Names1(d[2]), Comma) >>
       [] d[1] = "Export" -> << <<"export", " ">> \o inner[1] >> \o Tail(inner)

(* Imports on consecutive lines; an empty line before each item but a first one.                   *)
Print1(program) ==
  LET imports == [i \in DOMAIN program.imports |-> PrintImport(program.imports[i])]
      item(i) == (IF i = 1 /\ imports = <<>> THEN <<>> ELSE << <<>> >>) \o PrintItem(program.items[i])
      lines == imports \o FlattenSeq([i \in DOMAIN program.items |-> item(i)])
  IN IF lines = <<>> THEN <<"\n">> ELSE FlattenSeq([i \in DOMAIN lines |-> Append(lines[i], "\n")])
================================================================================
