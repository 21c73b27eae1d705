--------------------------------- MODULE Typeck ---------------------------------
(* The type checker (compiler/src/typeck/mod.rs): a source program in, a typed *)
(* module and the set of error codes out.  A program is a record of its items  *)
(* by kind; its expressions, statements and patterns are the tagged tuples of  *)
(* Hir with untyped children:                                                  *)
(*   <<"Lit", value>>  <<"Ident", x>>  <<"Call", f, args>>  <<"Member", e, f>> *)
(*   <<"Index", e, i>>  <<"BinOp", op, l, r>>  <<"UnaryOp", op, e>>            *)
(*   <<"Try", e>>  <<"StringInterp", parts>>  <<"Range", s, e, inclusive>>     *)
(*   <<"StructLit", name, fields>>  <<"Spread", e>>  <<"ListLit", es>>         *)
(* A context c carries the tables of the checker: the local environment env    *)
(* (scopes flattened, as LocalEnv.child does), fn_sigs, type_defs,             *)
(* enum_variants and the return type of the enclosing function.  Wording,      *)
(* spans and warnings are left out; so are closures and Float and Char.        *)
EXTENDS Hir, FiniteSets

(* ---- types ------------------------------------------------------------------- *)
IntNames == {"Int", "Int8", "Int16", "Int32", "Int64", "Int128"}

RECURSIVE LowerTy(_)
LowerTy(ty) ==
  LET args == [i \in DOMAIN ty[3] |-> LowerTy(ty[3][i])]
      arg(i) == IF i \in DOMAIN args THEN args[i] ELSE TUnknown
  IN CASE ty[1] = "Collection" -> TList(LowerTy(ty[2]))
       [] ty[1] = "Function" -> TFn(args, LowerTy(ty[2]))
       [] ty[2] \in IntNames -> TInt
       [] ty[2] \in {"Bool", "String", "Unit"} -> <<ty[2]>>
       [] ty[2] = "Option" -> TOption(arg(1))
       [] ty[2] = "Result" -> TResult(arg(1), arg(2))
       [] OTHER -> TNamed(ty[2], args)

LowerFields(fields) == [i \in DOMAIN fields |-> <<fields[i][1], LowerTy(fields[i][2])>>]

Lowered(tys) == [i \in DOMAIN tys |-> LowerTy(tys[i])]

ReturnTy(f) == IF f.ret = <<>> THEN TUnit ELSE LowerTy(f.ret[1])

Signature(f) == <<[i \in DOMAIN f.params |-> LowerTy(f.params[i][2])], ReturnTy(f)>>

(* ---- results ----------------------------------------------------------------- *)
Result(kind, ty, errs) == [e |-> Typed(kind, ty), errs |-> errs]
ErrsOf(rs) == UNION {rs[i].errs : i \in DOMAIN rs}
ExprsOf(rs) == [i \in DOMAIN rs |-> rs[i].e]

Code(failed, code) == IF failed THEN {code} ELSE {}

(* Unknown and Error are compatible with everything, so that one error does   *)
(* not cascade; wrappers recurse; everything else is compared structurally.   *)
RECURSIVE Compatible(_, _)
Compatible(a, b) ==
  \/ {a[1], b[1]} \cap {"Unknown", "Error"} # {}
  \/ /\ a[1] = b[1]
     /\ CASE a[1] \in {"Option", "List"} -> Compatible(a[2], b[2])
          [] a[1] = "Result" -> Compatible(a[2], b[2]) /\ Compatible(a[3], b[3])
          [] a[1] = "Fn" -> /\ Len(a[2]) = Len(b[2])
                            /\ \A i \in 1 .. Len(a[2]) : Compatible(a[2][i], b[2][i])
                            /\ Compatible(a[3], b[3])
          [] OTHER -> a = b

Mismatch(expected, found) == Code(~Compatible(found, expected), "E0200")

RECURSIVE Infer(_, _)
InferAll(es, c) == [i \in DOMAIN es |-> Infer(es[i], c)]

(* ---- identifiers -------------------------------------------------------------- *)
InferIdent(x, c) ==
  LET kind == <<"Ident", x>>
  IN IF x = "None" THEN Result(<<"None">>, TOption(TUnknown), {})
     ELSE IF x \in DOMAIN c.env THEN Result(kind, c.env[x], {})
     ELSE IF x \in DOMAIN c.sigs THEN Result(kind, TFn(c.sigs[x][1], c.sigs[x][2]), {})
     ELSE IF x \in DOMAIN c.types /\ c.types[x][1] = "Enum" THEN Result(kind, TNamed(x, <<>>), {})
     ELSE IF x \in DOMAIN c.variants THEN Result(kind, TNamed(c.variants[x], <<>>), {})
     ELSE Result(kind, TError, {"E0201"})

(* ---- calls ---------------------------------------------------------------------- *)
ManagedPayload(ty) ==
  IF ty[1] = "Named" /\ ty[2] \in {"Arc", "Weak", "Unowned"} /\ Len(ty[3]) = 1
    THEN ty[3][1] ELSE TUnknown

ManagedBuiltins ==
  {"heap_alloc_builtin", "arc_retain_builtin", "arc_release_builtin", "arc_load_builtin",
   "arc_id_builtin", "weak_create_builtin", "weak_load_builtin",
   "unowned_create_builtin", "unowned_load_builtin"}

(* The result of a managed builtin keeps the payload type of its argument.       *)
ManagedReturn(name, arg) ==
  CASE name = "heap_alloc_builtin" -> TNamed("Arc", <<arg>>)
    [] name = "arc_retain_builtin" -> arg
    [] name = "arc_release_builtin" -> TUnit
    [] name \in {"arc_load_builtin", "unowned_load_builtin"} -> ManagedPayload(arg)
    [] name = "arc_id_builtin" -> TInt
    [] name = "weak_create_builtin" -> TNamed("Weak", <<ManagedPayload(arg)>>)
    [] name = "weak_load_builtin" -> TOption(TNamed("Arc", <<ManagedPayload(arg)>>))
    [] name = "unowned_create_builtin" -> TNamed("Unowned", <<ManagedPayload(arg)>>)

(* Some, Ok and Err are constructors whatever is in scope.                        *)
InferConstructor(name, args, c) ==
  LET a == IF args = <<>> THEN Result(<<"Ident", "_">>, TUnknown, {}) ELSE Infer(args[1], c)
      ty == CASE name = "Some" -> TOption(a.e.ty)
              [] name = "Ok" -> TResult(a.e.ty, TUnknown)
              [] name = "Err" -> TResult(TUnknown, a.e.ty)
  IN Result(<<name, a.e>>, ty, a.errs)

InferCall(callee, args, c) ==
  IF callee[1] = "Ident" /\ callee[2] \in {"Some", "Ok", "Err"}
    THEN InferConstructor(callee[2], args, c)
    ELSE LET f == Infer(callee, c)
             as == InferAll(args, c)
             kind == <<"Call", f.e, ExprsOf(as)>>
             errs == f.errs \cup ErrsOf(as)
             arg == IF args = <<>> THEN TUnknown ELSE as[1].e.ty
             managed == f.e.kind[1] = "Ident" /\ f.e.kind[2] \in ManagedBuiltins
         IN CASE managed -> Result(kind, ManagedReturn(f.e.kind[2], arg), errs)
              [] ~managed /\ f.e.ty[1] = "Fn" ->
                   Result(kind, f.e.ty[3],
                          errs \cup IF Len(args) # Len(f.e.ty[2]) THEN {"E0200"}
                                    ELSE UNION {Mismatch(f.e.ty[2][i], as[i].e.ty) : i \in DOMAIN as})
              [] OTHER -> Result(kind, IF f.e.ty = TError THEN TError ELSE TUnknown, errs)

(* ---- operators -------------------------------------------------------------------- *)
InferBinOp(op, left, right, c) ==
  LET l == Infer(left, c)
      r == Infer(right, c)
      errs == l.errs \cup r.errs
      kind == <<"BinOp", op, l.e, r.e>>
      clash == Mismatch(l.e.ty, r.e.ty)
  IN CASE op \in {"Add", "Sub", "Mul", "Div", "Rem"} -> Result(kind, l.e.ty, errs \cup clash)
       [] op \in {"Eq", "Ne", "Lt", "Le", "Gt", "Ge"} -> Result(kind, TBool, errs \cup clash)
       [] op \in {"And", "Or"} ->
            Result(kind, TBool, errs \cup Mismatch(TBool, l.e.ty) \cup Mismatch(TBool, r.e.ty))
       [] op = "Coalesce" ->
            Result(<<"Coalesce", l.e, r.e>>,
                   IF l.e.ty[1] = "Option" THEN l.e.ty[2] ELSE r.e.ty, errs)

InferUnary(op, operand, c) ==
  LET a == Infer(operand, c)
  IN Result(<<"UnaryOp", op, a.e>>, IF op = "Neg" THEN a.e.ty ELSE TBool, a.errs)

InferTry(inner, c) ==
  LET a == Infer(inner, c)
      ty == a.e.ty
      kind == <<"Try", a.e>>
  IN CASE IsFallible(ty) -> Result(kind, UnwrapFallible(ty), a.errs)
       [] ty \in {TUnknown, TError} -> Result(kind, TUnknown, a.errs)
       [] OTHER -> Result(kind, TError, a.errs \cup {"E0203"})

(* ---- data --------------------------------------------------------------------------- *)
ListMethod(elem, field) ==
  CASE field = "length" -> TInt
    [] field = "filter" -> TFn(<<TFn(<<elem>>, TBool)>>, TList(elem))
    [] field = "map" -> TFn(<<TFn(<<elem>>, TUnknown)>>, TList(TUnknown))
    [] field = "sort" -> TFn(<<TFn(<<elem, elem>>, TInt)>>, TUnit)

(* The type of a field: a declared struct must have it, a list has its methods, *)
(* a primitive or an unknown type may have anything, nothing else has any.      *)
ResolveField(ty, field, c) ==
  LET struct == ty[1] = "Named" /\ ty[2] \in DOMAIN c.types /\ c.types[ty[2]][1] = "Struct"
  IN CASE struct /\ field \in Keys(c.types[ty[2]][2]) -> At(c.types[ty[2]][2], field)
       [] ty[1] = "List" /\ field \in {"length", "filter", "map", "sort"} -> ListMethod(ty[2], field)
       [] ty[1] \in {"Unknown", "Error", "String", "Int", "Bool"} -> TUnknown
       [] ty[1] = "Named" /\ ~struct -> TUnknown
       [] OTHER -> TError

InferMember(object, field, c) ==
  LET o == Infer(object, c)
      ty == ResolveField(o.e.ty, field, c)
  IN Result(<<"Member", o.e, field>>, ty, o.errs \cup Code(ty = TError, "E0204"))

InferIndex(object, index, c) ==
  LET o == Infer(object, c)
      i == Infer(index, c)
  IN Result(<<"Index", o.e, i.e>>, IF o.e.ty[1] = "List" THEN o.e.ty[2] ELSE TUnknown, o.errs \cup i.errs)

InferInterp(parts, c) ==
  LET one(p) == IF p[1] = "text" THEN [e |-> p, errs |-> {}]
                ELSE LET a == Infer(p[2], c) IN [e |-> <<"expr", a.e>>, errs |-> a.errs]
      rs == [i \in DOMAIN parts |-> one(parts[i])]
  IN Result(<<"StringInterp", ExprsOf(rs)>>, TString, ErrsOf(rs))

InferRange(from, to, inclusive, c) ==
  LET s == Infer(from, c)
      e == Infer(to, c)
  IN Result(<<"Range", s.e, e.e, inclusive>>, TUnknown, s.errs \cup e.errs)

InferStructLit(name, fields, c) ==
  LET rs == [i \in DOMAIN fields |-> Infer(fields[i][2], c)]
  IN Result(<<"StructLit", name, [i \in DOMAIN fields |-> <<fields[i][1], rs[i].e>>]>>,
            TNamed(name, <<>>), ErrsOf(rs))

InferList(es, c) ==
  LET rs == InferAll(es, c)
  IN Result(<<"List", ExprsOf(rs)>>, TList(IF es = <<>> THEN TUnknown ELSE rs[1].e.ty), ErrsOf(rs))

InferSpread(inner, c) ==
  LET a == Infer(inner, c) IN Result(<<"Spread", a.e>>, a.e.ty, a.errs)

LiteralTy(v) == CASE IsA(v, "int") -> TInt [] IsA(v, "bool") -> TBool [] IsA(v, "string") -> TString

Infer(e, c) ==
  CASE e[1] = "Lit" -> Result(e, LiteralTy(e[2]), {})
    [] e[1] = "Ident" -> InferIdent(e[2], c)
    [] e[1] = "Call" -> InferCall(e[2], e[3], c)
    [] e[1] = "Member" -> InferMember(e[2], e[3], c)
    [] e[1] = "Index" -> InferIndex(e[2], e[3], c)
    [] e[1] = "BinOp" -> InferBinOp(e[2], e[3], e[4], c)
    [] e[1] = "UnaryOp" -> InferUnary(e[2], e[3], c)
    [] e[1] = "Try" -> InferTry(e[2], c)
    [] e[1] = "StringInterp" -> InferInterp(e[2], c)
    [] e[1] = "Range" -> InferRange(e[2], e[3], e[4], c)
    [] e[1] = "StructLit" -> InferStructLit(e[2], e[3], c)
    [] e[1] = "Spread" -> InferSpread(e[2], c)
    [] e[1] = "ListLit" -> InferList(e[2], c)

(* ---- patterns ------------------------------------------------------------------------ *)
VariantPayload(name, ty, c) ==
  CASE ty[1] = "Option" /\ name = "Some" -> <<ty[2]>>
    [] ty[1] = "Result" /\ name = "Ok" -> <<ty[2]>>
    [] ty[1] = "Result" /\ name = "Err" -> <<ty[3]>>
    [] ty[1] = "Named" /\ ty[2] \in DOMAIN c.types /\ c.types[ty[2]][1] = "Enum"
         /\ name \in Keys(c.types[ty[2]][2]) -> At(c.types[ty[2]][2], name)
    [] OTHER -> <<>>

(* The environment with the names a pattern binds: a bare name always binds.      *)
RECURSIVE BindPattern(_, _, _)
BindPattern(pat, ty, c) ==
  CASE pat[1] \in {"Wildcard", "Literal"} -> c
    [] pat[1] = "Ident" -> [c EXCEPT !.env = Bind(c.env, pat[2], ty)]
    [] pat[1] = "Variant" ->
         LET tys == VariantPayload(pat[2], ty, c)
             step(acc, i) == BindPattern(pat[3][i], IF i \in DOMAIN tys THEN tys[i] ELSE TUnknown, acc)
         IN FoldLeft(step, c, [i \in DOMAIN pat[3] |-> i])

(* ---- statements ------------------------------------------------------------------------ *)
(* A checked statement: the context after it, the statements it leaves in the    *)
(* typed body and its errors.                                                    *)
Checked(c, out, errs) == [c |-> c, out |-> out, errs |-> errs]
Stmt(kind, ty) == [kind |-> kind, ty |-> ty]

RECURSIVE CheckStmt(_, _, _)
RECURSIVE CheckBlock(_, _, _)
CheckBlock(block, c, depth) ==
  IF block = <<>> THEN Checked(c, <<>>, {})
  ELSE With(CheckStmt(Head(block), c, depth), LAMBDA r :
         LET rest == CheckBlock(Tail(block), r.c, depth)
         IN Checked(rest.c, r.out \o rest.out, r.errs \cup rest.errs))

(* The context after a child block: its names go out of scope, what it added to  *)
(* the checker's own tables stays.                                               *)
Leave(inner, c) == [inner EXCEPT !.env = c.env, !.ret = c.ret]

(* Mutant: the annotation is believed.                                             *)
CheckBindingTrusted(kind, x, ann, value, c) ==
  LET v == Infer(value, c)
      ty == IF ann = <<>> THEN v.e.ty ELSE LowerTy(ann[1])
  IN Checked([c EXCEPT !.env = Bind(c.env, x, ty)], <<Stmt(<<kind, x, ty, v.e>>, TUnit)>>, v.errs)

CheckBinding(kind, x, ann, value, c) ==
  LET v == Infer(value, c)
      ty == IF ann = <<>> THEN v.e.ty ELSE LowerTy(ann[1])
  IN Checked([c EXCEPT !.env = Bind(c.env, x, ty)],
             <<Stmt(<<kind, x, ty, v.e>>, TUnit)>>, v.errs \cup Mismatch(ty, v.e.ty))

CheckReturn(value, c) ==
  LET rs == InferAll(value, c)
      ty == IF value = <<>> THEN TUnit ELSE rs[1].e.ty
  IN Checked(c, <<Stmt(<<"Return", ExprsOf(rs)>>, ty)>>, ErrsOf(rs) \cup Mismatch(c.ret, ty))

CheckAssign(target, value, c) ==
  LET t == Infer(target, c)
      v == Infer(value, c)
  IN Checked(c, <<Stmt(<<"Assign", t.e, v.e>>, TUnit)>>, t.errs \cup v.errs \cup Mismatch(t.e.ty, v.e.ty))

RECURSIVE CheckElifs(_, _, _)
CheckElifs(elifs, c, depth) ==
  IF elifs = <<>> THEN Checked(c, <<>>, {})
  ELSE With(CheckBlock(Head(elifs)[2], c, depth), LAMBDA b :
         LET k == Infer(Head(elifs)[1], c)
             rest == CheckElifs(Tail(elifs), Leave(b.c, c), depth)
         IN Checked(rest.c, <<Stmt(<<"If", k.e, b.out, <<>> >>, TUnit)>> \o rest.out,
                    k.errs \cup Mismatch(TBool, k.e.ty) \cup b.errs \cup rest.errs))

(* `else if` clauses become a flat list of `if`s in front of the `else` body.     *)
CheckIf(cond, then, elifs, else, c, depth) ==
  LET i == Infer(cond, c)
      t == CheckBlock(then, c, depth)
      chain == CheckElifs(elifs, Leave(t.c, c), depth)
      last == CheckBlock(IF else = <<>> THEN <<>> ELSE else[1], chain.c, depth)
      elseBody == IF elifs = <<>> /\ else = <<>> THEN <<>> ELSE << chain.out \o last.out >>
  IN Checked(Leave(last.c, c), <<Stmt(<<"If", i.e, t.out, elseBody>>, TUnit)>>,
             i.errs \cup Mismatch(TBool, i.e.ty) \cup t.errs \cup chain.errs \cup last.errs)

CheckWhile(cond, body, c, depth) ==
  LET i == Infer(cond, c)
      b == CheckBlock(body, c, depth + 1)
  IN Checked(Leave(b.c, c), <<Stmt(<<"While", i.e, b.out>>, TUnit)>>,
             i.errs \cup Mismatch(TBool, i.e.ty) \cup b.errs)

CheckLoop(body, c, depth) ==
  LET b == CheckBlock(body, c, depth + 1)
  IN Checked(Leave(b.c, c), <<Stmt(<<"Loop", b.out>>, TUnit)>>, b.errs)

CheckFor(x, iterable, body, c, depth) ==
  LET i == Infer(iterable, c)
      elem == IF i.e.ty[1] = "List" THEN i.e.ty[2] ELSE TUnknown
      b == CheckBlock(body, [c EXCEPT !.env = Bind(c.env, x, elem)], depth + 1)
  IN Checked(Leave(b.c, c), <<Stmt(<<"For", x, i.e, b.out>>, TUnit)>>, i.errs \cup b.errs)

(* An arm <<pattern, guard, body>>: a body of one expression is a block of it.    *)
CheckArm(arm, ty, c, depth) ==
  LET inner == BindPattern(arm[1], ty, c)
      gs == InferAll(arm[2], inner)
      b == CheckBlock(arm[3], inner, depth)
      guardErrs == UNION {gs[i].errs \cup Mismatch(TBool, gs[i].e.ty) : i \in DOMAIN gs}
  IN Checked(Leave(b.c, c), << <<arm[1], ExprsOf(gs), b.out>> >>, guardErrs \cup b.errs)

RECURSIVE CheckArms(_, _, _, _)
CheckArms(arms, ty, c, depth) ==
  IF arms = <<>> THEN Checked(c, <<>>, {})
  ELSE With(CheckArm(Head(arms), ty, c, depth), LAMBDA r :
         LET rest == CheckArms(Tail(arms), ty, r.c, depth)
         IN Checked(rest.c, r.out \o rest.out, r.errs \cup rest.errs))

CheckMatch(scrutinee, arms, c, depth) ==
  LET s == Infer(scrutinee, c)
      as == CheckArms(arms, s.e.ty, c, depth)
  IN Checked(as.c, <<Stmt(<<"Match", s.e, as.out>>, TUnit)>>, s.errs \cup as.errs)

(* `break` and `continue` need an enclosing loop of the same function.            *)
CheckJump(kind, value, c, depth) ==
  IF depth = 0 THEN Checked(c, <<>>, {"E0205"})
  ELSE LET rs == InferAll(value, c)
       IN Checked(c, <<Stmt(<<kind, ExprsOf(rs)>>, TUnit)>>, ErrsOf(rs))

CheckExprStmt(e, c) ==
  LET r == Infer(e, c) IN Checked(c, <<Stmt(<<"Expr", r.e>>, r.e.ty)>>, r.errs)

(* ---- functions --------------------------------------------------------------------------- *)
(* A function starts outside every loop with only its parameters in scope; the   *)
(* last expression statement is its value unless it returns Unit.                *)
CheckFunction(f, c) ==
  LET sig == Signature(f)
      env == FoldLeft(LAMBDA acc, i : Bind(acc, f.params[i][1], sig[1][i]), Empty,
                      [i \in DOMAIN f.params |-> i])
      b == CheckBlock(f.body, [c EXCEPT !.env = env, !.ret = sig[2]], 0)
      implicit == IF b.out # <<>> /\ Last(b.out).kind[1] = "Expr" /\ sig[2] # TUnit
                    THEN Mismatch(sig[2], Last(b.out).ty) ELSE {}
  IN [c |-> Leave(b.c, c), errs |-> b.errs \cup implicit,
      fn |-> [name |-> f.name, params |-> [i \in DOMAIN f.params |-> f.params[i][1]], body |-> b.out]]

(* A local function is checked and bound, but leaves nothing in the typed body.   *)
CheckLocalFn(f, c) ==
  LET sig == Signature(f)
      bound == [c EXCEPT !.sigs = Bind(c.sigs, f.name, sig),
                         !.env = Bind(c.env, f.name, TFn(sig[1], sig[2]))]
      r == CheckFunction(f, bound)
  IN Checked(r.c, <<>>, r.errs)

CheckLocalStruct(s, c) ==
  Checked([c EXCEPT !.types = Bind(c.types, s[1], <<"Struct", LowerFields(s[2])>>)], <<>>, {})

CheckStmt(s, c, depth) ==
  CASE s[1] \in {"Let", "Var", "Decl"} -> CheckBinding(s[1], s[2], s[3], s[4], c)
    [] s[1] = "Return" -> CheckReturn(s[2], c)
    [] s[1] = "Assign" -> CheckAssign(s[2], s[3], c)
    [] s[1] = "Expr" -> CheckExprStmt(s[2], c)
    [] s[1] = "If" -> CheckIf(s[2], s[3], s[4], s[5], c, depth)
    [] s[1] = "While" -> CheckWhile(s[2], s[3], c, depth)
    [] s[1] = "Loop" -> CheckLoop(s[2], c, depth)
    [] s[1] = "For" -> CheckFor(s[2], s[3], s[4], c, depth)
    [] s[1] = "Match" -> CheckMatch(s[2], s[3], c, depth)
    [] s[1] \in {"Break", "Continue"} -> CheckJump(s[1], s[2], c, depth)
    [] s[1] = "Function" -> CheckLocalFn(s[2], c)
    [] s[1] = "Struct" -> CheckLocalStruct(s[2], c)

(* ---- programs ------------------------------------------------------------------------------ *)
BuiltinSigs == [x \in {"print", "println"} |-> << <<TString>>, TUnit>>]

(* A variant with a payload is registered as a function of its payload, one      *)
(* without as a value of its enum.                                               *)
EnumSigs(e) ==
  LET payload == {i \in DOMAIN e[2] : e[2][i][2] # <<>>}
      sig(tys) == <<tys, TFn(tys, TNamed(e[1], <<>>))>>
  IN [v \in {e[2][i][1] : i \in payload} |-> sig(Lowered(At(e[2], v)))]

EnumConstants(e) == [v \in {e[2][i][1] : i \in {j \in DOMAIN e[2] : e[2][j][2] = <<>>}} |-> e[1]]

(* The position of every variant in its enum.                                    *)
EnumTags(e) == [v \in Keys(e[2]) |-> (CHOOSE i \in DOMAIN e[2] : e[2][i][1] = v) - 1]

Merge(f, g) == g @@ f

(* What an impl of a known trait must satisfy: every method, same signature.      *)
ImplErrs(impl, traits) ==
  LET methods == At(traits, impl[1])
      mine(name) == {i \in DOMAIN impl[2] : impl[2][i].name = name}
  IN IF impl[1] \notin Keys(traits) THEN {"E0301"}
     ELSE UNION {IF mine(methods[i].name) = {} THEN {"E0300"}
                 ELSE Code(\E j \in mine(methods[i].name) : Signature(impl[2][j]) # Signature(methods[i]), "E0302")
                 : i \in DOMAIN methods}

CollectTables(p) ==
  [env |-> Empty, ret |-> TUnit,
   types |-> FoldLeft(LAMBDA acc, d : Bind(acc, d[1], d[2]), Empty,
               [i \in DOMAIN p.structs |-> <<p.structs[i][1], <<"Struct", LowerFields(p.structs[i][2])>> >>]
               \o [i \in DOMAIN p.enums |->
                     <<p.enums[i][1], <<"Enum", [j \in DOMAIN p.enums[i][2] |->
                        <<p.enums[i][2][j][1], Lowered(p.enums[i][2][j][2])>>]>> >>]),
   variants |-> FoldLeft(LAMBDA acc, e : Merge(acc, EnumConstants(e)), Empty, p.enums),
   sigs |-> FoldLeft(LAMBDA acc, f : Bind(acc, f.name, Signature(f)),
                     FoldLeft(LAMBDA acc, e : Merge(acc, EnumSigs(e)), BuiltinSigs, p.enums), p.fns)]

RECURSIVE CheckFunctions(_, _)
CheckFunctions(fns, c) ==
  IF fns = <<>> THEN Checked(c, <<>>, {})
  ELSE With(CheckFunction(Head(fns), c), LAMBDA r :
         LET rest == CheckFunctions(Tail(fns), r.c)
         IN Checked(rest.c, <<r.fn>> \o rest.out, r.errs \cup rest.errs))

(* All tables first, then impls, then every body against the tables.              *)
CheckProgram(p) ==
  LET impls == UNION {ImplErrs(p.impls[i], p.traits) : i \in DOMAIN p.impls}
      fs == With(CollectTables(p), LAMBDA c : CheckFunctions(p.fns, c))
      tags == FoldLeft(LAMBDA acc, e : Merge(acc, EnumTags(e)), Empty, p.enums)
  IN [module |-> [constants |-> DOMAIN fs.c.variants, tags |-> tags, fns |-> fs.out], errs |-> impls \cup fs.errs]
================================================================================
