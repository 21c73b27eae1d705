--------------------------------- MODULE Grammar ---------------------------------
(* The recursive-descent parser (compiler/src/parser/): tokens to a syntax tree, *)
(* with its choice between declarations, fields, calls and expressions by        *)
(* looking ahead, and with the way it goes on after an error.                    *)
(*                                                                               *)
(* A token is a pair of its kind and its text or value.  The state of the parser *)
(* is the tokens t, the position p, the codes e of the errors so far, the names   *)
(* known as types, and the result of the last production: ok, and its value v.    *)
(* A production is a list of parts, each a token, an optional newline or another  *)
(* production; the first part that fails ends it, as `?` does.  Spans and the      *)
(* wording of errors are left out.  A node is a tuple headed by its name; an      *)
(* optional part is the empty sequence or a sequence of one.                      *)
EXTENDS Integers, Sequences, SequencesExt, TLC

(* ---- tokens ---------------------------------------------------------------------- *)
Peek(S, n) == IF S.p + n <= Len(S.t) THEN S.t[S.p + n][1] ELSE "Eof"
Next1(S) == Peek(S, 0)
Text(S, n) == IF S.p + n <= Len(S.t) THEN S.t[S.p + n][2] ELSE ""
Advance(S) == IF S.p <= Len(S.t) THEN [S EXCEPT !.p = @ + 1] ELSE S

Some(S, v) == [S EXCEPT !.ok = TRUE, !.v = v]
None(S) == [S EXCEPT !.ok = FALSE]
Report(S, code) == [S EXCEPT !.e = Append(@, code)]
Fail(S, code) == None(Report(S, code))

Expect(S, kind) == IF Next1(S) = kind THEN Some(Advance(S), kind) ELSE Fail(S, "E0100")

(* A closing token that is missing is reported, and what came before it is kept.        *)
Close(S, kind) == [Expect(S, kind) EXCEPT !.ok = TRUE, !.v = S.v]

RECURSIVE SkipAll(_, _)
SkipAll(S, kinds) == IF Next1(S) \in kinds THEN SkipAll(Advance(S), kinds) ELSE S

RECURSIVE SkipUntil(_, _)
SkipUntil(S, kinds) == IF Next1(S) \in kinds \cup {"Eof"} THEN S ELSE SkipUntil(Advance(S), kinds)

SkipNewlines(S) == SkipAll(S, {"Newline"})
SkipSeparators(S) == SkipAll(S, {"Newline", ";"})
Comments == {"LineComment", "BlockComment", "DocComment", "ModDocComment"}
SkipTrivia(S) == SkipAll(S, {"Newline", ";", "Dedent"} \cup Comments)

(* ---- productions from parts ---------------------------------------------------------- *)
(* P parses one production; every definition from here to it may refer to it.            *)
RECURSIVE P(_, _)

Productions ==
  {"Name", "Type", "Expr", "Pattern", "Block", "Body", "Params?", "Parens?", "Return?", "Annotation?", "Default?",
   "Generics", "Fields", "Variants", "Members", "Methods", "Guard?", "ArmBody", "Path", "Alias?"}

(* A closing token that does not end the production when it is missing.                   *)
Lenient == [paren |-> ")", bracket |-> "]", angle |-> ">", bar |-> "|", eq |-> "="]

RECURSIVE Parts(_, _)
Parts(parts, S) ==
  IF parts = <<>> THEN [S EXCEPT !.ok = TRUE]
  ELSE LET part == Head(parts)
           rest == Tail(parts)
       IN CASE part = "newlines" -> Parts(rest, SkipNewlines(S))
            [] part \in DOMAIN Lenient -> Parts(rest, Close(S, Lenient[part]))
            [] part \in Productions ->
                 LET r == P(part, S) IN IF r.ok THEN Parts(rest, [r EXCEPT !.v = Append(S.v, r.v)]) ELSE r
            [] OTHER -> LET r == Expect(S, part) IN IF r.ok THEN Parts(rest, [r EXCEPT !.v = S.v]) ELSE r

Node(tag, parts, S) == Parts(parts, [S EXCEPT !.v = <<tag>>])

(* The value of the only production among the parts.                                      *)
Only(parts, S) == LET r == Parts(parts, [S EXCEPT !.v = <<>>]) IN IF r.ok THEN Some(r, r.v[1]) ELSE r

Optional(opens, parts, S) ==
  IF Next1(S) # opens THEN Some(S, <<>>) ELSE Parts(<<opens>> \o parts, [S EXCEPT !.v = <<>>])

(* Items up to a closing token, with commas between them and one allowed at the end.  An  *)
(* item that fails ends a strict list, and is left out of any other.                     *)
RECURSIVE CommaTail(_, _, _, _)
CommaTail(S, item, close, strict) ==
  LET s == SkipNewlines(S)
      r == P(item, s)
      kept == IF r.ok THEN [r EXCEPT !.v = Append(S.v, r.v)] ELSE [r EXCEPT !.v = S.v, !.ok = TRUE]
  IN CASE Next1(s) \in {close, "Eof"} -> Some(s, S.v)
       [] Next1(kept) = "," /\ (r.ok \/ ~strict) -> CommaTail(Advance(kept), item, close, strict)
       [] OTHER -> kept

CommaList(S, item, close) == CommaTail(Some(S, <<>>), item, close, FALSE)
StrictList(S, item, close) == CommaTail(Some(S, <<>>), item, close, TRUE)

(* Items on lines of their own, up to one that fails.                                     *)
RECURSIVE LineTail(_, _, _, _)
LineTail(S, item, close, skip) ==
  LET s == SkipAll(S, skip)
      r == P(item, s)
  IN IF Next1(s) \in {close, "Eof"} THEN Some(s, S.v)
     ELSE IF r.ok THEN LineTail([r EXCEPT !.v = Append(S.v, r.v)], item, close, skip)
     ELSE Some(r, S.v)

EndBlock(S) == IF Next1(S) = "Dedent" THEN Advance(S) ELSE S

(* The members of a declaration: an indented block, or one in braces where `braced` says  *)
(* so; anything else leaves the declaration empty.                                        *)
MemberBlock(S, item, skip, braced) ==
  LET inside == Advance(S)
  IN CASE Next1(S) = "Newline" ->
            IF Next1(inside) # "Indent" THEN Some(inside, <<>>)
            ELSE EndBlock(LineTail(Some(Advance(inside), <<>>), item, "Dedent", skip))
       [] Next1(S) = "{" /\ braced ->
            Close(LineTail(Some(inside, <<>>), item, "}", {"Newline", ";"}), "}")
       [] OTHER -> Some(S, <<>>)

(* ---- names and types ------------------------------------------------------------------ *)
ParseIdent(S) == IF Next1(S) = "Ident" THEN Some(Advance(S), Text(S, 0)) ELSE Fail(S, "E0108")

(* name {sep name}: a path, or the names after `except` or of the bounds of a parameter.   *)
RECURSIVE NamesTail(_, _)
NamesTail(S, sep) ==
  IF Next1(S) # sep THEN S
  ELSE LET r == ParseIdent(Advance(S)) IN IF r.ok THEN NamesTail([r EXCEPT !.v = Append(S.v, r.v)], sep) ELSE r
Names(S, sep) == LET r == ParseIdent(S) IN IF r.ok THEN NamesTail(Some(r, <<r.v>>), sep) ELSE r

(* A qualified name is one name; an expression only goes on where a name follows.          *)
RECURSIVE Qualified(_, _)
Qualified(S, peeks) ==
  IF Next1(S) # "::" \/ (peeks /\ Peek(S, 1) # "Ident") THEN S
  ELSE LET r == ParseIdent(Advance(S))
       IN IF r.ok THEN Qualified([r EXCEPT !.v = Append(S.v, r.v)], peeks) ELSE [r EXCEPT !.v = S.v, !.ok = TRUE]

ParseNamedType(S) ==
  LET name == Qualified(Some(Advance(S), <<Text(S, 0)>>), FALSE)
      args == CommaList(Advance(name), "Type", ">")
  IN IF Next1(name) # "<" THEN Some(name, <<"Named", name.v, <<>> >>)
     ELSE Some(Close(args, ">"), <<"Named", name.v, args.v>>)

ParseTupleType(S) ==
  LET elems == CommaList(Advance(S), "Type", ")")
      after == Close(elems, ")")
      ret == P("Type", Advance(after))
  IN IF Next1(after) # "->" THEN Some(after, <<"Tuple", elems.v>>)
     ELSE IF ret.ok THEN Some(ret, <<"Function", elems.v, ret.v>>) ELSE ret

ParseTypeExpr(S) ==
  CASE Next1(S) = "[" -> Node("Collection", <<"[", "Type", "bracket">>, S)
    [] Next1(S) = "(" -> ParseTupleType(S)
    [] Next1(S) = "Ident" -> ParseNamedType(S)
    [] OTHER -> Fail(S, "E0107")

(* A bound that is missing is reported and ends the bounds; a name that is ends the list.  *)
Bounds(S) == LET r == Names([Advance(S) EXCEPT !.v = <<>>], "+") IN Some(r, r.v)

RECURSIVE GenericTail(_)
GenericTail(S) ==
  LET s == SkipNewlines(S)
      name == ParseIdent(s)
      bound == IF Next1(name) = ":" THEN Bounds(name) ELSE Some(name, <<>>)
      kept == [bound EXCEPT !.v = Append(S.v, <<name.v, bound.v>>)]
  IN CASE Next1(s) \in {">", "Eof"} -> Some(s, S.v)
       [] ~name.ok -> Some(name, S.v)
       [] Next1(kept) = "," -> GenericTail(Advance(kept))
       [] OTHER -> kept

ParseGenerics(S) == IF Next1(S) # "<" THEN Some(S, <<>>) ELSE Close(GenericTail(Some(Advance(S), <<>>)), ">")

ParseParam(S) == Node("Param", <<"Name", ":", "Type", "Default?">>, S)
ParseParams(S) ==
  IF Next1(S) # "(" THEN Fail(S, "E0100")
  ELSE LET list == StrictList(Advance(S), "Param", ")")
           end == Expect(list, ")")
       IN IF end.ok THEN Some(end, list.v) ELSE end
OptionalParams(S) == IF Next1(S) = "(" THEN ParseParams(S) ELSE Some(S, <<>>)
Parens(S) ==
  IF Next1(S) # "(" THEN Some(S, <<>>)
  ELSE LET r == ParseParams(S) IN IF r.ok THEN Some(r, <<r.v>>) ELSE r

(* ---- blocks ----------------------------------------------------------------------------- *)
(* Statements up to a closing token; one that fails is left out, with the rest of its line. *)
RECURSIVE StmtTail(_, _, _)
StmtTail(S, close, resume) ==
  LET s == SkipSeparators(S)
      r == P("Stmt", s)
  IN CASE Next1(s) \in {close, "Eof"} -> Some(s, S.v)
       [] r.ok -> StmtTail([r EXCEPT !.v = Append(S.v, r.v)], close, resume)
       [] OTHER -> StmtTail([SkipUntil(r, resume) EXCEPT !.v = S.v], close, resume)

IndentedStmts(S) == StmtTail(Some(S, <<>>), "Dedent", {"Newline", "Dedent"})
BracedStmts(S) == StmtTail(Some(S, <<>>), "}", {";", "Newline", "}"})

(* Statements on the line of the colon, between semicolons.                                  *)
RECURSIVE InlineTail(_)
InlineTail(S) ==
  LET s == SkipSeparators(S)
      r == P("Stmt", s)
      kept == [r EXCEPT !.v = Append(S.v, r.v)]
  IN CASE Next1(s) \in {"Eof", "Dedent"} -> Some(s, S.v)
       [] ~r.ok -> Some(r, S.v)
       [] Next1(kept) = ";" -> InlineTail(Advance(kept))
       [] OTHER -> kept

InlineStmts(S) == InlineTail(Some(S, <<>>))

ParseIndented(S) == IF Next1(S) # "Indent" THEN Some(S, <<>>) ELSE EndBlock(IndentedStmts(Advance(S)))

ParseColonBlock(S) ==
  LET colon == Expect(S, ":")
      inside == Advance(colon)
  IN CASE ~colon.ok -> colon
       [] Next1(colon) = "{" -> Close(BracedStmts(inside), "}")
       [] Next1(colon) = "Newline" -> ParseIndented(inside)
       [] OTHER -> InlineStmts(colon)

(* A single expression on the line of the colon is the value of the function.                *)
ParseFunctionBody(S) ==
  LET r == ParseColonBlock(S)
      inline == Peek(S, 1) \notin {"{", "Newline"}
  IN IF ~r.ok THEN r
     ELSE IF inline /\ Len(r.v) = 1 /\ r.v[1][1] = "Expr" THEN Some(r, <<"Expr", r.v[1][2]>>)
     ELSE Some(r, <<"Block", r.v>>)

(* ---- declarations ------------------------------------------------------------------------- *)
FnDecl(S) == Node("Function", <<"fn", "Name", "Generics", "Params?", "Return?", "Body">>, S)
StructDecl(S) == Node("Struct", <<"struct", "Name", "Generics", ":", "Fields">>, S)
EnumDecl(S) == Node("Enum", <<"enum", "Name", "Generics", ":", "Variants">>, S)
TraitDecl(S) == Node("Trait", <<"trait", "Name", "Generics", ":", "Members">>, S)
ConstDecl(S) == Node("Const", <<"const", "Name", ":", "Type", "=", "Expr", "newlines">>, S)
ModDecl(S) == Node("Mod", <<"mod", "Name", ":", "Block">>, S)
TaskDecl(S) == Node("Task", <<"task", "Name", "Params?", "Block">>, S)

(* A block with statements is an error of its own, reported after it has been read.           *)
DeriveDecl(S) ==
  LET r == Node("Derive", <<"derive", "Name", "for", "Name", "Block">>, S)
  IN IF r.ok /\ r.v[4] # <<>> THEN Fail(r, "E0100") ELSE [r EXCEPT !.v = IF r.ok THEN Front(r.v) ELSE r.v]

ImplBlock(S) ==
  LET first == Only(<<"impl", "Type">>, S)
      both == P("Type", Advance(first))
      head == IF first.ok /\ Next1(first) = "for" THEN both ELSE first
      rest == Parts(<<":", "Methods">>, [head EXCEPT !.v = <<>>])
  IN IF ~head.ok \/ ~rest.ok THEN None(IF head.ok THEN rest ELSE head)
     ELSE Some(rest, <<"Impl", head.v, IF Next1(first) = "for" THEN <<first.v>> ELSE <<>>, rest.v[1]>>)

FieldDecl(S) ==
  IF Next1(S) # "Ident" THEN None(S) ELSE Node("Field", <<"Name", ":", "Type", "newlines">>, S)

(* The name of a field of a variant is read and dropped.                                       *)
VariantType(S) == P("Type", IF Next1(S) = "Ident" /\ Peek(S, 1) = ":" THEN Advance(Advance(S)) ELSE S)

EnumVariant(S) ==
  LET name == ParseIdent(S)
      types == CommaList(Advance(name), "VariantType", ")")
      head == IF Next1(name) = "(" THEN Some(Close(types, ")"), <<"Variant", name.v, types.v>>)
              ELSE Some(name, <<"Variant", name.v, <<>> >>)
  IN IF name.ok THEN SkipNewlines(head) ELSE name

FnSig(S) ==
  Node("Sig", <<"Name", "Generics", "Params?", "Return?", "newlines">>, IF Next1(S) = "fn" THEN Advance(S) ELSE S)

ParseImport(S) == Node("Import", <<"import", "Path", "Alias?", "newlines">>, S)

(* ---- top level ----------------------------------------------------------------------------- *)
DeclStarts == {"fn", "struct", "enum", "trait", "impl", "const", "export"}

RECURSIVE SkipToNextTopLevel(_)
SkipToNextTopLevel(S) ==
  CASE Next1(S) \in DeclStarts \cup {"Eof"} -> S
    [] Next1(S) = "Newline" /\ Peek(S, 1) # "Indent" -> Advance(S)
    [] OTHER -> SkipToNextTopLevel(Advance(S))

BareDecl(S) ==
  LET head == Node("BareDecl", <<"Name", "Parens?", "Return?">>, S)
      block == ParseColonBlock(head)
  IN CASE ~head.ok -> head
       [] Next1(head) # ":" -> None(SkipToNextTopLevel(Report(head, "E0102")))
       [] OTHER -> Some(block, Append(head.v, block.v))

ParseExport(S) ==
  LET s == Advance(S)
      names == Names(Advance(Advance(s)), ",")
      inner == P("Decl", s)
  IN CASE Next1(s) = "*" /\ Text(s, 1) = "except" /\ Peek(s, 1) = "Ident" ->
            IF names.ok THEN Some(names, <<"ExportAllExcept", names.v>>) ELSE names
       [] Next1(s) = "*" -> Some(Advance(s), <<"ExportAll">>)
       [] Next1(s) = "import" -> LET r == ParseImport(s) IN IF r.ok THEN Some(r, <<"ReExport", r.v>>) ELSE r
       [] OTHER -> IF inner.ok THEN Some(inner, <<"Export", inner.v>>) ELSE inner

ParseTopDecl(S) ==
  CASE Next1(S) = "export" -> ParseExport(S)
    [] Next1(S) = "fn" -> FnDecl(S)
    [] Next1(S) = "task" -> TaskDecl(S)
    [] Next1(S) = "derive" -> DeriveDecl(S)
    [] Next1(S) = "struct" -> StructDecl(S)
    [] Next1(S) = "enum" -> EnumDecl(S)
    [] Next1(S) = "trait" -> TraitDecl(S)
    [] Next1(S) = "impl" -> ImplBlock(S)
    [] Next1(S) = "const" -> ConstDecl(S)
    [] Next1(S) = "mod" -> ModDecl(S)
    [] Next1(S) \in {"async", "managed"} -> P("Decl", Advance(S))
    [] Next1(S) = "Ident" -> BareDecl(S)
    [] OTHER -> Fail(S, "E0101")

(* ---- statements ------------------------------------------------------------------------------ *)
LetStmt(S) == Node("Let", <<"let", "Name", "Annotation?", "=", "Expr", "newlines">>, S)
VarStmt(S) == Node("Var", <<"var", "Name", "Annotation?", "=", "Expr", "newlines">>, S)
WhileStmt(S) == Node("While", <<"while", "Expr", "Block">>, S)
LoopStmt(S) == Node("Loop", <<"loop", "Block">>, S)
ForStmt(S) == Node("For", <<"for", "Name", "in", "Expr", "Block">>, S)
DeclStmt(S) == Node("Decl", <<"Name", ":", "Expr", "newlines">>, S)
BareField(S) == Node("BareField", <<"Name", ":", "Type", "newlines">>, S)

(* The annotation of a state is read and dropped, whether it is a type or not.                    *)
StateStmt(S) ==
  LET name == ParseIdent(Advance(S))
      typed == IF Next1(name) = ":" THEN P("Type", Advance(name)) ELSE name
  IN IF name.ok THEN Parts(<<"=", "Expr", "newlines">>, [typed EXCEPT !.v = <<"State", name.v>>]) ELSE name

ValueStmt(tag, S) ==
  LET s == Advance(S)
      r == P("Expr", s)
  IN IF Next1(s) \in {"Newline", ";", "Eof", "Dedent"} THEN Some(SkipNewlines(s), <<tag, <<>> >>)
     ELSE IF r.ok THEN Some(SkipNewlines(r), <<tag, <<r.v>> >>) ELSE r

(* The pattern of an `if let` is read and dropped.                                                 *)
RECURSIVE ElseTail(_)
ElseTail(S) ==
  LET s == SkipNewlines(S)
      elif == Parts(<<"else", "if", "Expr", "Block">>, [s EXCEPT !.v = <<>>])
      last == Parts(<<"else", "Block">>, [s EXCEPT !.v = <<>>])
  IN CASE Next1(s) # "else" -> s
       [] Peek(s, 1) = "if" -> IF elif.ok THEN ElseTail([elif EXCEPT !.v = [S.v EXCEPT ![4] = Append(@, elif.v)]]) ELSE elif
       [] OTHER -> IF last.ok THEN Some(last, [S.v EXCEPT ![5] = last.v]) ELSE last

IfStmt(S) ==
  LET s == Advance(S)
      start == IF Next1(s) = "let" THEN Close(P("Pattern", Advance(s)), "=") ELSE s
      r == Parts(<<"Expr", "Block">>, [start EXCEPT !.v = <<"If">>])
  IN IF r.ok THEN ElseTail([r EXCEPT !.v = r.v \o << <<>>, <<>> >>]) ELSE r

MatchStmt(S) ==
  LET head == Node("Match", <<"match", "Expr", ":", "newlines">>, S)
      arms == EndBlock(LineTail(Some(Advance(head), <<>>), "Arm", "Dedent", {"Newline"}))
  IN CASE ~head.ok -> head
       [] Next1(head) # "Indent" -> Fail(head, "E0103")
       [] OTHER -> Some(arms, Append(head.v, arms.v))

(* Mutant: the guard is read and dropped.                                                          *)
MatchArmMutant(S) ==
  LET r == Node("Arm", <<"Pattern", "Guard?", "ArmBody", "newlines">>, S)
  IN IF r.ok THEN [r EXCEPT !.v[3] = <<>>] ELSE r

MatchArm(S) == Node("Arm", <<"Pattern", "Guard?", "ArmBody", "newlines">>, S)

ArmBody(S) ==
  LET s == Advance(S)
      block == ParseIndented(Advance(s))
      expr == P("Expr", s)
  IN CASE Next1(S) # ":" -> Fail(S, "E0104")
       [] Next1(s) = "Newline" -> Some(block, <<"Block", block.v>>)
       [] OTHER -> IF expr.ok THEN Some(expr, <<"Expr", expr.v>>) ELSE expr

AssignOps == {"=", "+=", "-=", "*=", "/=", "%="}

(* A call may have a block after it.                                                                *)
ExprOrAssign(S) ==
  LET expr == P("Expr", S)
      assign == Parts(<<"Expr", "newlines">>, [Advance(expr) EXCEPT !.v = <<"Assign", Next1(expr), expr.v>>])
      block == ParseColonBlock(expr)
  IN CASE ~expr.ok -> expr
       [] Next1(expr) \in AssignOps -> assign
       [] Next1(expr) = ":" /\ expr.v[1] = "Call" ->
            Some(SkipNewlines(block), <<"Expr", [expr.v EXCEPT ![4] = <<block.v>>]>>)
       [] OTHER -> Some(SkipNewlines(expr), <<"Expr", expr.v>>)

(* name(...) up to a colon on the same line declares a function only if its first argument looks    *)
(* like a parameter; the parser means to accept empty parentheses too, but looks for them one token  *)
(* too early.                                                                                         *)
RECURSIVE ColonAhead(_, _, _)
ColonAhead(S, n, depth) ==
  LET kind == Peek(S, n)
  IN CASE kind = "(" -> ColonAhead(S, n + 1, depth + 1)
       [] kind = ")" -> IF depth = 0 THEN 0 ELSE ColonAhead(S, n + 1, depth - 1)
       [] kind = ":" /\ depth = 0 -> n
       [] (kind \in {"Newline", ";", "Dedent"} /\ depth = 0) \/ kind = "Eof" -> 0
       [] OTHER -> ColonAhead(S, n + 1, depth)

LocalFunction(S) ==
  LET r == Node("Function", <<"Name", "Params?", "Return?", "Block">>, S)
  IN IF r.ok THEN Some(r, <<"Function", r.v[2], <<>>, r.v[3], r.v[4], <<"Block", r.v[5]>> >>) ELSE r

IdentParenStmt(S) ==
  LET colon == ColonAhead(S, 1, 0)
  IN IF colon = 2 \/ (colon > 0 /\ Peek(S, 2) = "Ident" /\ Peek(S, 3) = ":") THEN LocalFunction(S) ELSE ExprOrAssign(S)

(* name: followed by a type the parser knows, a tuple, or a list of either, is a field.               *)
IsFieldAhead(S) ==
  CASE Peek(S, 2) = "Ident" -> Text(S, 2) \in S.known
    [] Peek(S, 2) = "(" -> TRUE
    [] Peek(S, 2) = "[" ->
         \/ Peek(S, 3) \in {"Ident", "("}
         \/ Peek(S, 3) = "[" /\ (Peek(S, 4) = "(" \/ (Peek(S, 4) = "Ident" /\ Text(S, 4) \in S.known))
    [] OTHER -> FALSE

BlockStarts == {"Newline", "Indent", "{", "Dedent", "Eof"}

IdentStmt(S) ==
  CASE Text(S, 0) = "state" -> StateStmt(S)
    [] Peek(S, 1) = "(" -> IdentParenStmt(S)
    [] Peek(S, 1) = ":" /\ IsFieldAhead(S) -> BareField(S)
    [] Peek(S, 1) = ":" /\ Peek(S, 2) \in BlockStarts -> LocalFunction(S)
    [] Peek(S, 1) = ":" -> DeclStmt(S)
    [] OTHER -> ExprOrAssign(S)

Stmt(S) ==
  CASE Next1(S) = "let" -> LetStmt(S)
    [] Next1(S) = "var" -> VarStmt(S)
    [] Next1(S) = "return" -> ValueStmt("Return", S)
    [] Next1(S) = "break" -> ValueStmt("Break", S)
    [] Next1(S) = "continue" -> Some(SkipNewlines(Advance(S)), <<"Continue">>)
    [] Next1(S) = "if" -> IfStmt(S)
    [] Next1(S) = "while" -> WhileStmt(S)
    [] Next1(S) = "loop" -> LoopStmt(S)
    [] Next1(S) = "for" -> ForStmt(S)
    [] Next1(S) = "match" -> MatchStmt(S)
    [] Next1(S) = "fn" -> FnDecl(S)
    [] Next1(S) = "task" -> TaskDecl(S)
    [] Next1(S) = "derive" -> Fail(S, "E0100")
    [] Next1(S) = "struct" -> StructDecl(S)
    [] Next1(S) = "Ident" -> IdentStmt(S)
    [] OTHER -> ExprOrAssign(S)

(* ---- patterns -------------------------------------------------------------------------------------- *)
ParsePattern(S) ==
  LET parts == CommaList(Advance(Advance(S)), "Pattern", ")")
  IN CASE Next1(S) = "Ident" /\ Text(S, 0) = "_" -> Some(Advance(S), <<"Wildcard">>)
       [] Next1(S) = "Ident" /\ Peek(S, 1) = "(" -> Some(Close(parts, ")"), <<"Variant", Text(S, 0), parts.v>>)
       [] Next1(S) = "Ident" -> Some(Advance(S), <<"Ident", Text(S, 0)>>)
       [] Next1(S) \in {"Int", "String", "Bool"} -> Some(Advance(S), <<"Literal", S.t[S.p]>>)
       [] OTHER -> Fail(S, "E0105")

(* ---- expressions ------------------------------------------------------------------------------------- *)
(* Binary operators from the loosest; all group to the left but ranges, which do not group.               *)
Levels == << {"??"}, {"||"}, {"&&"}, {"==", "!="}, {"<", "<=", ">", ">="}, {"..", "..="}, {"+", "-"}, {"*", "/", "%"} >>
RangeLevel == 6

RECURSIVE Binary(_, _)
RECURSIVE BinaryTail(_, _)
Binary(n, S) ==
  IF n > Len(Levels) THEN P("Unary", S)
  ELSE LET left == Binary(n + 1, S) IN IF left.ok THEN BinaryTail(n, left) ELSE left
BinaryTail(n, S) ==
  LET right == Binary(n + 1, Advance(S))
  IN CASE Next1(S) \notin Levels[n] -> S
       [] ~right.ok -> right
       [] n = RangeLevel -> Some(right, <<"Range", Next1(S), S.v, right.v>>)
       [] OTHER -> BinaryTail(n, [right EXCEPT !.v = <<"BinOp", Next1(S), S.v, right.v>>])

UnaryOps == {"-", "!", "await"}

RECURSIVE PostfixTail(_)
ParseUnary(S) ==
  LET operand == P("Unary", Advance(S))
      primary == P("Primary", S)
  IN IF Next1(S) \in UnaryOps THEN IF operand.ok THEN Some(operand, <<"UnaryOp", Next1(S), operand.v>>) ELSE operand
     ELSE IF primary.ok THEN PostfixTail(primary) ELSE primary

(* After a name, a colon that does not open a block calls the name with the expression that follows.         *)
PostfixTail(S) ==
  LET field == ParseIdent(Advance(S))
      args == P("Args", S)
      index == P("Expr", Advance(S))
      sugar == P("Expr", Advance(S))
      call(r, list) == [r EXCEPT !.v = <<"Call", S.v, list, <<>> >>]
  IN CASE Next1(S) \in {".", "::"} -> IF field.ok THEN PostfixTail([field EXCEPT !.v = <<"Member", S.v, field.v>>]) ELSE field
       [] Next1(S) = "(" -> IF args.ok THEN PostfixTail(call(args, args.v)) ELSE args
       [] Next1(S) = "[" ->
            IF index.ok THEN PostfixTail(Close([index EXCEPT !.v = <<"Index", S.v, index.v>>], "]")) ELSE index
       [] Next1(S) = "?" -> PostfixTail(Some(Advance(S), <<"Try", S.v>>))
       [] Next1(S) = ":" /\ S.v[1] = "Ident" /\ Peek(S, 1) \notin BlockStarts ->
            IF sugar.ok THEN PostfixTail(call(sugar, << <<"Arg", <<>>, sugar.v>> >>)) ELSE sugar
       [] OTHER -> S

ParseArg(S) ==
  LET labelled == Next1(S) = "Ident" /\ Peek(S, 1) = ":"
      value == P("Expr", IF labelled THEN Advance(Advance(S)) ELSE S)
  IN IF value.ok THEN Some(value, <<"Arg", IF labelled THEN <<Text(S, 0)>> ELSE <<>>, value.v>>) ELSE value

ParseArgList(S) ==
  LET list == StrictList(Advance(S), "Arg", ")")
      end == Expect(list, ")")
  IN IF end.ok THEN Some(end, list.v) ELSE end

(* Fields in braces; a comma after each is optional.                                                           *)
RECURSIVE StructTail(_)
StructTail(S) ==
  LET s == SkipSeparators(S)
      spread == P("Expr", Advance(s))
      named == P("Expr", Advance(Advance(s)))
      field(r, v) == IF r.ok THEN StructTail([IF Next1(r) = "," THEN Advance(r) ELSE r EXCEPT !.v = Append(S.v, v)]) ELSE r
  IN CASE Next1(s) = "..." -> field(spread, <<"Spread", spread.v>>)
       [] Next1(s) = "Ident" /\ Peek(s, 1) = ":" -> field(named, <<"Named", Text(s, 0), named.v>>)
       [] OTHER -> Some(s, S.v)

ParseNameOrStruct(S) ==
  LET name == Qualified(Some(Advance(S), <<Text(S, 0)>>), TRUE)
      fields == StructTail([Advance(name) EXCEPT !.v = <<>>])
  IN CASE Next1(name) # "{" -> Some(name, <<"Ident", name.v>>)
       [] ~fields.ok -> fields
       [] OTHER -> Some(Close(fields, "}"), <<"StructLit", name.v, fields.v>>)

(* An expression in parentheses; of a tuple only the first element is kept.                                      *)
ParseParens(S) ==
  LET first == P("Expr", Advance(S))
      others == CommaList(Advance(first), "Expr", ")")
      last == IF Next1(first) = "," THEN others ELSE first
  IN IF first.ok THEN Some(Close(last, ")"), first.v) ELSE first

RECURSIVE ClosureParams(_)
ClosureParams(S) ==
  LET s == SkipNewlines(S)
      kept == [Advance(s) EXCEPT !.v = Append(S.v, Text(s, 0))]
  IN CASE Next1(s) # "Ident" -> [s EXCEPT !.v = S.v]
       [] Next1(kept) = "," -> ClosureParams(Advance(kept))
       [] OTHER -> kept

ParseClosure(S) ==
  LET s == [Advance(S) EXCEPT !.v = <<>>]
      params == Close(IF Next1(s) = "|" THEN s ELSE ClosureParams(s), "|")
      body == P("Expr", params)
  IN IF body.ok THEN Some(body, <<"Closure", params.v, body.v>>) ELSE body

(* Text and expressions in turn; without the end of the text, the string ends where it is.                         *)
RECURSIVE InterpTail(_)
InterpTail(S) ==
  LET expr == P("Expr", S)
      parts == IF expr.ok THEN Append(S.v, expr.v) ELSE S.v
      text == Append(parts, <<"Text", Text(expr, 0)>>)
  IN CASE Next1(expr) = "InterpMiddle" -> InterpTail([Advance(expr) EXCEPT !.v = text])
       [] Next1(expr) = "InterpEnd" -> Some(Advance(expr), text)
       [] OTHER -> Some(expr, parts)

ParseInterp(S) ==
  LET r == InterpTail([Advance(S) EXCEPT !.v = << <<"Text", Text(S, 0)>> >>]) IN Some(r, <<"StringInterp", r.v>>)

ParseList(S) == LET r == CommaList(Advance(S), "Expr", "]") IN Some(Close(r, "]"), <<"ListLit", r.v>>)

ParsePrimary(S) ==
  CASE Next1(S) \in {"Int", "Float", "Bool", "Char", "String"} -> Some(Advance(S), <<"Literal", S.t[S.p]>>)
    [] Next1(S) = "InterpStart" -> ParseInterp(S)
    [] Next1(S) = "Ident" -> ParseNameOrStruct(S)
    [] Next1(S) = "type" -> Some(Advance(S), <<"Ident", <<"type">> >>)
    [] Next1(S) = "(" -> ParseParens(S)
    [] Next1(S) = "|" -> ParseClosure(S)
    [] Next1(S) = "..." -> LET r == P("Expr", Advance(S)) IN IF r.ok THEN Some(r, <<"Spread", r.v>>) ELSE r
    [] Next1(S) = "[" -> ParseList(S)
    [] OTHER -> Fail(S, "E0106")

(* ---- one production ------------------------------------------------------------------------------------------------ *)
P(name, S) ==
  CASE name = "Name" -> ParseIdent(S)
    [] name = "Type" -> ParseTypeExpr(S)
    [] name = "VariantType" -> VariantType(S)
    [] name = "Expr" -> Binary(1, S)
    [] name = "Unary" -> ParseUnary(S)
    [] name = "Primary" -> ParsePrimary(S)
    [] name = "Args" -> ParseArgList(S)
    [] name = "Arg" -> ParseArg(S)
    [] name = "Pattern" -> ParsePattern(S)
    [] name = "Stmt" -> Stmt(SkipSeparators(S))
    [] name = "Block" -> ParseColonBlock(S)
    [] name = "Body" -> ParseFunctionBody(S)
    [] name = "Param" -> ParseParam(S)
    [] name = "Params?" -> OptionalParams(S)
    [] name = "Parens?" -> Parens(S)
    [] name = "Return?" -> Optional("->", <<"Type">>, S)
    [] name = "Annotation?" -> Optional(":", <<"Type">>, S)
    [] name = "Default?" -> Optional("=", <<"Expr">>, S)
    [] name = "Guard?" -> Optional("if", <<"Expr">>, S)
    [] name = "Alias?" -> Optional("as", <<"Name">>, S)
    [] name = "Path" -> Names(S, "::")
    [] name = "Generics" -> ParseGenerics(S)
    [] name = "Fields" -> MemberBlock(S, "Field", {"Newline", ";"}, TRUE)
    [] name = "Field" -> FieldDecl(S)
    [] name = "Variants" -> MemberBlock(S, "Variant", {"Newline"}, TRUE)
    [] name = "Variant" -> EnumVariant(S)
    [] name = "Members" -> MemberBlock(S, "Sig", {"Newline"}, FALSE)
    [] name = "Sig" -> FnSig(S)
    [] name = "Methods" -> MemberBlock(S, "Fn", {"Newline"}, FALSE)
    [] name = "Fn" -> FnDecl(S)
    [] name = "Arm" -> MatchArm(S)
    [] name = "ArmBody" -> ArmBody(S)
    [] name = "Decl" -> ParseTopDecl(S)

(* ---- program --------------------------------------------------------------------------------------------------------- *)
(* Names that may be types: the built-in ones, and a name before a colon outside of any block or                              *)
(* brace.  Leaving one block counts as having left them all.                                                                  *)
BuiltinTypes == {"Int", "UInt", "Float", "Bool", "Char", "String", "Unit", "Option", "Result", "Map", "Set"}

RECURSIVE TypeNames(_, _, _, _)
TypeNames(t, i, indented, braces) ==
  LET kind == t[i][1]
      here == IF kind = "Ident" /\ ~indented /\ braces = 0 /\ i < Len(t) /\ t[i + 1][1] = ":" THEN {t[i][2]} ELSE {}
  IN IF i > Len(t) THEN {}
     ELSE here \cup TypeNames(t, i + 1, kind = "Indent" \/ (kind # "Dedent" /\ indented),
                              CASE kind = "{" -> braces + 1 [] kind = "}" /\ braces > 0 -> braces - 1 [] OTHER -> braces)

(* A declaration that fails is left out, and the token after it is skipped.                                                   *)
RECURSIVE ProgramTail(_, _, _)
ProgramTail(S, imports, items) ==
  LET s == SkipTrivia(S)
      r == IF Next1(s) = "import" THEN ParseImport(s) ELSE ParseTopDecl(s)
  IN CASE Next1(s) = "Eof" -> Some(s, [imports |-> imports, items |-> items])
       [] Next1(s) = "import" -> ProgramTail(r, IF r.ok THEN Append(imports, r.v) ELSE imports, items)
       [] r.ok -> ProgramTail(r, imports, Append(items, r.v))
       [] OTHER -> ProgramTail(Advance(r), imports, items)

Parse(tokens) ==
  LET code == SelectSeq(tokens, LAMBDA tok : tok[1] \notin Comments)
      start == [t |-> code, p |-> 1, e |-> <<>>, known |-> BuiltinTypes \cup TypeNames(code, 1, FALSE, 0), ok |-> TRUE, v |-> <<>>]
      r == ProgramTail(start, <<>>, <<>>)
  IN [program |-> r.v, errors |-> r.e]
================================================================================
