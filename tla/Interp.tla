--------------------------------- MODULE Interp ---------------------------------
(* The tree-walking evaluator (interp/src/lib.rs): what a typed module prints  *)
(* and the code it exits with.  It is the reference the machine-code pipeline  *)
(* is held to (noct-cli/tests/differential.rs).                                *)
(*                                                                             *)
(* A state s is the scope stack (innermost last), the output so far and the    *)
(* fuel left; fuel is the model's bound on calls and loop rounds.  A result    *)
(* says how an evaluation ended: "ok" with a value, or one of the unwindings   *)
(* of RuntimeError ("return", "try" for UncaughtError, "break", "continue",    *)
(* "panic"), or "stuck" when the fuel ran out.  A panic for an operand of the  *)
(* wrong type or a name that is not there is told apart as "mismatch".  Tasks, *)
(* closures, host calls and every builtin but `print` are left out.            *)
EXTENDS Hir

CONSTANT Fuel
ASSUME FuelAssumption == Fuel \in Nat

Ended(st, v, s) == [st |-> st, v |-> v, s |-> s]
Ok(v, s) == Ended("ok", v, s)
Panic(s) == Ended("panic", VUnit, s)
Mismatch1(s) == Ended("mismatch", VUnit, s)

Then(r, F(_, _)) == IF r.st = "ok" THEN F(r.v, r.s) ELSE r

Burn(s) == [s EXCEPT !.fuel = s.fuel - 1]

(* ---- scopes -------------------------------------------------------------------- *)
Push(s) == [s EXCEPT !.scopes = Append(s.scopes, Empty)]
Pop(s) == IF Len(s.scopes) > 1 THEN [s EXCEPT !.scopes = Front(s.scopes)] ELSE s
PopAfter(r) == [r EXCEPT !.s = Pop(r.s)]

Holding(x, s) == {i \in DOMAIN s.scopes : x \in DOMAIN s.scopes[i]}
Innermost(x, s) == CHOOSE i \in Holding(x, s) : \A j \in Holding(x, s) : j <= i

Define(x, v, s) == [s EXCEPT !.scopes[Len(s.scopes)] = Bind(@, x, v)]

(* Assignment updates the innermost binding and makes one when there is none.      *)
AssignName(x, v, s) ==
  IF Holding(x, s) = {} THEN Define(x, v, s)
  ELSE [s EXCEPT !.scopes[Innermost(x, s)] = Bind(@, x, v)]

DefineAll(f, s) == [s EXCEPT !.scopes[Len(s.scopes)] = f @@ @]

(* ---- values ---------------------------------------------------------------------- *)
RECURSIVE ValuesEqual(_, _)
ValuesEqual(a, b) ==
  LET all(xs, ys) == Len(xs) = Len(ys) /\ \A i \in DOMAIN xs : ValuesEqual(xs[i], ys[i])
  IN /\ a[1] = b[1]
     /\ CASE a[1] \in {"int", "bool", "string", "unit", "none"} -> a = b
          [] a[1] = "some" -> ValuesEqual(a[2], b[2])
          [] a[1] = "enum" -> a[2] = b[2] /\ all(a[3], b[3])
          [] a[1] = "list" -> all(a[2], b[2])
          [] OTHER -> FALSE

Arithmetic(op, a, b, s) ==
  LET ints == IsA(a, "int") /\ IsA(b, "int")
  IN CASE ints /\ op = "Add" -> Ok(VInt(a[2] + b[2]), s)
       [] ints /\ op = "Sub" -> Ok(VInt(a[2] - b[2]), s)
       [] ints /\ op = "Mul" -> Ok(VInt(a[2] * b[2]), s)
       [] ints /\ op = "Div" /\ b[2] # 0 -> Ok(VInt(Quotient(a[2], b[2])), s)
       [] ints /\ op = "Rem" /\ b[2] # 0 -> Ok(VInt(Remainder(a[2], b[2])), s)
       [] ints /\ op \in {"Div", "Rem"} /\ b[2] = 0 -> Panic(s)
       [] op = "Add" /\ IsA(a, "string") -> Ok(VText(a[2] \o Piece(b)), s)
       [] OTHER -> Mismatch1(s)

(* Only integers are ordered here; the order of strings is left out.               *)
Compare(op, a, b, s) ==
  CASE op = "Eq" -> Ok(VBool(ValuesEqual(a, b)), s)
    [] op = "Ne" -> Ok(VBool(~ValuesEqual(a, b)), s)
    [] op \in {"Lt", "Le", "Gt", "Ge"} /\ IsA(a, "int") /\ IsA(b, "int") ->
         Ok(VBool(CASE op = "Lt" -> a[2] < b[2] [] op = "Le" -> a[2] <= b[2]
                    [] op = "Gt" -> a[2] > b[2] [] op = "Ge" -> a[2] >= b[2]), s)
    [] OTHER -> Mismatch1(s)

EvalMember(v, field, s) ==
  CASE IsA(v, "struct") /\ field \in DOMAIN v[3] -> Ok(v[3][field], s)
    [] IsA(v, "list") /\ field \in {"len", "length"} -> Ok(VInt(Len(v[2])), s)
    [] IsA(v, "list") /\ field \in {"first", "last"} ->
         Ok(IF v[2] = <<>> THEN VNone ELSE VSome(IF field = "first" THEN Head(v[2]) ELSE Last(v[2])), s)
    [] IsA(v, "some") /\ field = "is_some" -> Ok(VBool(TRUE), s)
    [] IsA(v, "none") /\ field = "is_some" -> Ok(VBool(FALSE), s)
    [] IsA(v, "some") /\ field = "is_none" -> Ok(VBool(FALSE), s)
    [] IsA(v, "none") /\ field = "is_none" -> Ok(VBool(TRUE), s)
    [] v[1] \in {"some", "ok"} /\ field = "unwrap" -> Ok(v[2], s)
    [] v[1] \in {"ok", "err"} /\ field = "is_ok" -> Ok(VBool(IsA(v, "ok")), s)
    [] v[1] \in {"ok", "err"} /\ field = "is_err" -> Ok(VBool(IsA(v, "err")), s)
    [] OTHER -> Mismatch1(s)

(* ---- patterns ------------------------------------------------------------------------ *)
NoMatch == [hit |-> FALSE, names |-> Empty]
Match(names) == [hit |-> TRUE, names |-> names]

RECURSIVE PatternMatches(_, _)
(* Matching the parts of a payload in order, collecting what they bind.             *)
PartsMatch(vs, pats) ==
  LET step(acc, i) == LET m == PatternMatches(vs[i], pats[i])
                      IN IF acc.hit /\ m.hit
                           THEN Match(m.names @@ acc.names) ELSE NoMatch
  IN FoldLeft(step, Match(Empty), [i \in DOMAIN pats |-> i])

VariantMatches(v, name, pats) ==
  CASE IsA(v, "enum") ->
         IF v[2] = name /\ (pats = <<>> \/ Len(pats) = Len(v[3])) THEN PartsMatch(v[3], pats) ELSE NoMatch
    [] IsA(v, "some") -> IF name = "Some" /\ Len(pats) = 1 THEN PatternMatches(v[2], pats[1]) ELSE NoMatch
    [] IsA(v, "none") -> IF name = "None" THEN Match(Empty) ELSE NoMatch
    [] v[1] \in {"ok", "err"} ->
         IF name = (IF IsA(v, "ok") THEN "Ok" ELSE "Err") /\ Len(pats) <= 1
           THEN IF pats = <<>> THEN Match(Empty) ELSE PatternMatches(v[2], pats[1])
           ELSE NoMatch
    [] OTHER -> NoMatch

PatternMatches(v, pat) ==
  CASE pat[1] = "Wildcard" -> Match(Empty)
    [] pat[1] = "Ident" -> Match([x \in {pat[2]} |-> v])
    [] pat[1] = "Literal" -> IF v = pat[2] THEN Match(Empty) ELSE NoMatch
    [] pat[1] = "Variant" -> VariantMatches(v, pat[2], pat[3])

(* ---- expressions ---------------------------------------------------------------------- *)
RECURSIVE Eval(_, _, _)
RECURSIVE EvalBody(_, _, _)

(* Left to right, stopping at the first that does not end with a value.             *)
RECURSIVE EvalAll(_, _, _)
EvalAll(es, s, m) ==
  IF es = <<>> THEN Ok(<<>>, s)
  ELSE Then(Eval(Head(es), s, m), LAMBDA v, s1 :
         Then(EvalAll(Tail(es), s1, m), LAMBDA vs, s2 : Ok(<<v>> \o vs, s2)))

FnNamed(name, m) == LET i == CHOOSE j \in DOMAIN m.fns : m.fns[j].name = name IN m.fns[i]
FnNames(m) == {m.fns[i].name : i \in DOMAIN m.fns}

RootScope(m) == [x \in m.constants |-> VEnum(x, <<>>)]

(* A call runs the body on a scope stack of its own; an early return and an         *)
(* unwinding `?` both end as the value of the call.                                 *)
EvalFunction(name, args, s, m) ==
  CASE name = "print" -> Ok(VUnit, [s EXCEPT !.out = Append(s.out, Piece(args[1]))])
    [] name # "print" /\ name \notin FnNames(m) -> Ok(VUnit, s)
    [] OTHER ->
         IF s.fuel = 0 THEN Ended("stuck", VUnit, s)
         ELSE LET f == FnNamed(name, m)
                  bound == 1 .. (IF Len(args) < Len(f.params) THEN Len(args) ELSE Len(f.params))
                  root == FoldLeft(LAMBDA acc, i : Bind(acc, f.params[i], args[i]), RootScope(m), [i \in bound |-> i])
                  r == EvalBody(f.body, [Burn(s) EXCEPT !.scopes = <<root>>], m)
                  back == [r.s EXCEPT !.scopes = s.scopes]
              IN Ended(IF r.st \in {"ok", "return", "try"} THEN "ok" ELSE r.st, r.v, back)

EvalIdent(x, s, m) ==
  CASE Holding(x, s) # {} -> Ok(s.scopes[Innermost(x, s)][x], s)
    [] Holding(x, s) = {} /\ x \in FnNames(m) \cup {"print", "println"} -> Ok(VFn(x), s)
    [] OTHER -> Mismatch1(s)

EvalCall(callee, args, s, m) ==
  Then(EvalAll(args, s, m), LAMBDA vs, s1 :
    Then(Eval(callee, s1, m), LAMBDA f, s2 :
      IF IsA(f, "fn") THEN EvalFunction(f[2], vs, s2, m) ELSE Mismatch1(s2)))

EvalShortCircuit(op, left, right, s, m) ==
  Then(Eval(left, s, m), LAMBDA v, s1 :
    CASE v = VBool(op = "And") -> Eval(right, s1, m)
      [] v = VBool(op = "Or") -> Ok(v, s1)
      [] OTHER -> Mismatch1(s1))

EvalBinOp(op, left, right, s, m) ==
  IF op \in {"And", "Or"} THEN EvalShortCircuit(op, left, right, s, m)
  ELSE Then(EvalAll(<<left, right>>, s, m), LAMBDA vs, s1 :
         IF op \in {"Add", "Sub", "Mul", "Div", "Rem"} THEN Arithmetic(op, vs[1], vs[2], s1)
         ELSE Compare(op, vs[1], vs[2], s1))

EvalUnary(op, operand, s, m) ==
  Then(Eval(operand, s, m), LAMBDA v, s1 :
    CASE op = "Neg" /\ IsA(v, "int") -> Ok(VInt(-v[2]), s1)
      [] op = "Not" /\ IsA(v, "bool") -> Ok(VBool(~v[2]), s1)
      [] OTHER -> Mismatch1(s1))

EvalTry(inner, s, m) ==
  Then(Eval(inner, s, m), LAMBDA v, s1 :
    CASE v[1] \in {"ok", "some"} -> Ok(v[2], s1)
      [] v[1] \in {"err", "none"} -> Ended("try", v, s1)
      [] OTHER -> Ok(v, s1))

EvalCoalesce(left, right, s, m) ==
  Then(Eval(left, s, m), LAMBDA v, s1 :
    CASE IsA(v, "some") -> Ok(v[2], s1)
      [] IsA(v, "none") -> Eval(right, s1, m)
      [] OTHER -> Ok(v, s1))

EvalInterp(parts, s, m) ==
  LET value(p) == IF p[1] = "text" THEN Typed(<<"Lit", VText(<<p>>)>>, TString) ELSE p[2]
  IN Then(EvalAll([i \in DOMAIN parts |-> value(parts[i])], s, m), LAMBDA vs, s1 :
       Ok(VText(FlattenSeq([i \in DOMAIN vs |-> Piece(vs[i])])), s1))

EvalIndex(object, index, s, m) ==
  Then(EvalAll(<<object, index>>, s, m), LAMBDA vs, s1 :
    IF ~(IsA(vs[1], "list") /\ IsA(vs[2], "int")) THEN Mismatch1(s1)
    ELSE IF vs[2][2] \in 0 .. Len(vs[1][2]) - 1 THEN Ok(vs[1][2][vs[2][2] + 1], s1) ELSE Panic(s1))

EvalRange(from, to, inclusive, s, m) ==
  Then(EvalAll(<<from, to>>, s, m), LAMBDA vs, s1 :
    IF IsA(vs[1], "int") /\ IsA(vs[2], "int")
      THEN Ok(VList(IntRange(vs[1][2], IF inclusive THEN vs[2][2] ELSE vs[2][2] - 1)), s1) ELSE Mismatch1(s1))

EvalStructLit(name, fields, s, m) ==
  Then(EvalAll([i \in DOMAIN fields |-> fields[i][2]], s, m), LAMBDA vs, s1 :
    Ok(VStruct(name, FoldLeft(LAMBDA acc, i : Bind(acc, fields[i][1], vs[i]), Empty,
                              [i \in DOMAIN fields |-> i])), s1))

Eval(e, s, m) ==
  LET k == e.kind
  IN CASE k[1] = "Lit" -> Ok(k[2], s)
       [] k[1] = "None" -> Ok(VNone, s)
       [] k[1] = "Some" -> Then(Eval(k[2], s, m), LAMBDA v, s1 : Ok(VSome(v), s1))
       [] k[1] = "Ok" -> Then(Eval(k[2], s, m), LAMBDA v, s1 : Ok(VOk(v), s1))
       [] k[1] = "Err" -> Then(Eval(k[2], s, m), LAMBDA v, s1 : Ok(VErr(v), s1))
       [] k[1] = "Ident" -> EvalIdent(k[2], s, m)
       [] k[1] = "Call" -> EvalCall(k[2], k[3], s, m)
       [] k[1] = "BinOp" -> EvalBinOp(k[2], k[3], k[4], s, m)
       [] k[1] = "UnaryOp" -> EvalUnary(k[2], k[3], s, m)
       [] k[1] = "Member" -> Then(Eval(k[2], s, m), LAMBDA v, s1 : EvalMember(v, k[3], s1))
       [] k[1] = "Try" -> EvalTry(k[2], s, m)
       [] k[1] = "Coalesce" -> EvalCoalesce(k[2], k[3], s, m)
       [] k[1] = "StringInterp" -> EvalInterp(k[2], s, m)
       [] k[1] = "List" -> Then(EvalAll(k[2], s, m), LAMBDA vs, s1 : Ok(VList(vs), s1))
       [] k[1] = "Index" -> EvalIndex(k[2], k[3], s, m)
       [] k[1] = "Range" -> EvalRange(k[2], k[3], k[4], s, m)
       [] k[1] = "StructLit" -> EvalStructLit(k[2], k[3], s, m)
       [] k[1] = "Spread" -> Eval(k[2], s, m)

(* ---- statements -------------------------------------------------------------------------- *)
InChild(body, s, m) == PopAfter(EvalBody(body, Push(s), m))

RECURSIVE EvalAssign(_, _, _, _)
(* A member or an index is assigned by writing the changed whole back.                *)
EvalAssign(target, v, s, m) ==
  LET k == target.kind
  IN CASE k[1] = "Ident" -> Ok(VUnit, AssignName(k[2], v, s))
       [] k[1] = "Member" -> Then(Eval(k[2], s, m), LAMBDA o, s1 :
            EvalAssign(k[2], IF IsA(o, "struct") THEN [o EXCEPT ![3] = Bind(@, k[3], v)] ELSE o, s1, m))
       [] k[1] = "Index" -> Then(Eval(k[3], s, m), LAMBDA i, s1 : Then(Eval(k[2], s1, m), LAMBDA o, s2 :
            EvalAssign(k[2], IF /\ IsA(o, "list") /\ IsA(i, "int") /\ i[2] \in 0 .. Len(o[2]) - 1
                               THEN [o EXCEPT ![2][i[2] + 1] = v] ELSE o, s2, m)))
       [] OTHER -> Ok(VUnit, s)

EvalIf(cond, then, else, s, m) ==
  Then(Eval(cond, s, m), LAMBDA v, s1 :
    CASE v = VBool(TRUE) -> InChild(then, s1, m)
      [] v = VBool(FALSE) -> IF else = <<>> THEN Ok(VUnit, s1) ELSE InChild(else[1], s1, m)
      [] OTHER -> Mismatch1(s1))

(* What a loop does once its body has ended as r.                                     *)
Round(r, Again(_)) ==
  CASE r.st \in {"ok", "continue"} ->
         IF r.s.fuel = 0 THEN Ended("stuck", VUnit, r.s) ELSE Again(Burn(r.s))
    [] r.st = "break" -> Ok(VUnit, r.s)
    [] OTHER -> r

RECURSIVE EvalWhile(_, _, _, _)
EvalWhile(cond, body, s, m) ==
  Then(Eval(cond, s, m), LAMBDA v, s1 :
    CASE v = VBool(TRUE) -> Round(InChild(body, s1, m), LAMBDA s2 : EvalWhile(cond, body, s2, m))
      [] v = VBool(FALSE) -> Ok(VUnit, s1)
      [] OTHER -> Mismatch1(s1))

RECURSIVE EvalLoop(_, _, _)
EvalLoop(body, s, m) == Round(InChild(body, s, m), LAMBDA s1 : EvalLoop(body, s1, m))

RECURSIVE EvalItems(_, _, _, _, _)
EvalItems(x, items, body, s, m) ==
  IF items = <<>> THEN Ok(VUnit, s)
  ELSE Round(PopAfter(EvalBody(body, Define(x, Head(items), Push(s)), m)),
             LAMBDA s1 : EvalItems(x, Tail(items), body, s1, m))

EvalFor(x, iterable, body, s, m) ==
  Then(Eval(iterable, s, m), LAMBDA v, s1 :
    IF IsA(v, "list") THEN EvalItems(x, v[2], body, s1, m) ELSE Mismatch1(s1))

RECURSIVE EvalArms(_, _, _, _)
(* The first arm whose pattern matches and whose guard holds; the guard sees the      *)
(* names of the pattern in a scope of its own.                                        *)
EvalArms(v, arms, s, m) ==
  IF arms = <<>> THEN Panic(s)
  ELSE LET hit == PatternMatches(v, Head(arms)[1])
           bound(s1) == DefineAll(hit.names, Push(s1))
           body(s1) == PopAfter(EvalBody(Head(arms)[3], bound(s1), m))
       IN CASE ~hit.hit -> EvalArms(v, Tail(arms), s, m)
            [] hit.hit /\ Head(arms)[2] = <<>> -> body(s)
            [] OTHER -> Then(Eval(Head(arms)[2][1], bound(s), m), LAMBDA g, s1 :
                 CASE g = VBool(FALSE) -> EvalArms(v, Tail(arms), Pop(s1), m)
                   [] g = VBool(TRUE) -> body(Pop(s1))
                   [] OTHER -> Mismatch1(s1))

EvalStmt(stmt, s, m) ==
  LET k == stmt.kind
  IN CASE k[1] \in {"Let", "Var", "Decl"} ->
            Then(Eval(k[4], s, m), LAMBDA v, s1 : Ok(VUnit, Define(k[2], v, s1)))
       [] k[1] = "Assign" -> Then(Eval(k[3], s, m), LAMBDA v, s1 : EvalAssign(k[2], v, s1, m))
       [] k[1] = "Return" ->
            IF k[2] = <<>> THEN Ended("return", VUnit, s)
            ELSE Then(Eval(k[2][1], s, m), LAMBDA v, s1 : Ended("return", v, s1))
       [] k[1] = "Break" -> Then(EvalAll(k[2], s, m), LAMBDA v, s1 : Ended("break", VUnit, s1))
       [] k[1] = "Continue" -> Ended("continue", VUnit, s)
       [] k[1] = "Expr" -> Eval(k[2], s, m)
       [] k[1] = "If" -> EvalIf(k[2], k[3], k[4], s, m)
       [] k[1] = "While" -> EvalWhile(k[2], k[3], s, m)
       [] k[1] = "Loop" -> EvalLoop(k[2], s, m)
       [] k[1] = "For" -> EvalFor(k[2], k[3], k[4], s, m)
       [] k[1] = "Match" -> Then(Eval(k[2], s, m), LAMBDA v, s1 : EvalArms(v, k[3], s1, m))

EvalBody(stmts, s, m) ==
  IF stmts = <<>> THEN Ok(VUnit, s)
  ELSE LET r == EvalStmt(Head(stmts), s, m)
       IN IF r.st # "ok" \/ Len(stmts) = 1 THEN r ELSE EvalBody(Tail(stmts), r.s, m)

(* ---- a run -------------------------------------------------------------------------------- *)
(* What a module prints, how its main ends and the exit code: 1 when there is no main or  *)
(* main panics.                                                                            *)
RunInterp(m) ==
  LET r == EvalFunction("main", <<>>, [scopes |-> <<Empty>>, out |-> <<>>, fuel |-> Fuel], m)
  IN IF "main" \notin FnNames(m) THEN [out |-> <<>>, end |-> "panic", exit |-> 1]
     ELSE [out |-> r.s.out, end |-> r.st, exit |-> IF r.st = "ok" THEN 0 ELSE 1]
================================================================================
