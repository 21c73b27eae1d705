---------------------------------- MODULE Hir ----------------------------------
(* The typed intermediate tree the compiler's later stages share: the types of *)
(* compiler/src/hir/types.rs, the constructors of compiler/src/hir/items.rs,   *)
(* and the runtime values both interpreters compute with.                      *)
(*                                                                             *)
(* Trees, types and values are tuples headed by the name of their constructor, *)
(* so that any two can be compared.  An optional part is the empty sequence or *)
(* a sequence of one.  A typed expression pairs its kind with its type.  Text  *)
(* is a sequence of pieces, each one literal or one displayed value: nothing   *)
(* below depends on how a piece is spelled.  Float and Char values, closures   *)
(* and `await` are left out.                                                   *)
EXTENDS Integers, Sequences, SequencesExt, TLC

(* ---- types ---------------------------------------------------------------- *)
TInt == <<"Int">>
TBool == <<"Bool">>
TString == <<"String">>
TUnit == <<"Unit">>
TUnknown == <<"Unknown">>
TError == <<"Error">>
TNamed(name, args) == <<"Named", name, args>>
TOption(t) == <<"Option", t>>
TResult(t, e) == <<"Result", t, e>>
TList(t) == <<"List", t>>
TFn(params, ret) == <<"Fn", params, ret>>

IsFallible(t) == t[1] \in {"Result", "Option"}

UnwrapFallible(t) == t[2]

(* ---- values ----------------------------------------------------------------- *)
VInt(n) == <<"int", n>>
VBool(b) == <<"bool", b>>
VText(pieces) == <<"string", pieces>>
VUnit == <<"unit">>
VNone == <<"none">>
VSome(v) == <<"some", v>>
VOk(v) == <<"ok", v>>
VErr(v) == <<"err", v>>
VList(vs) == <<"list", vs>>
VStruct(name, fields) == <<"struct", name, fields>>
VEnum(variant, payload) == <<"enum", variant, payload>>
VFn(name) == <<"fn", name>>

IsA(v, tag) == v[1] = tag

Piece(v) == IF IsA(v, "string") THEN v[2] ELSE << <<"shown", v>> >>

(* Rust's integer division and remainder round towards zero.                   *)
Sign(n) == IF n < 0 THEN -1 ELSE 1
Magnitude(n) == n * Sign(n)
Quotient(a, b) == Sign(a) * Sign(b) * (Magnitude(a) \div Magnitude(b))
Remainder(a, b) == a - b * Quotient(a, b)

IntRange(from, to) == [i \in 1 .. (to - from + 1) |-> VInt(from + i - 1)]

(* ---- typed expressions ------------------------------------------------------- *)
Typed(kind, ty) == [kind |-> kind, ty |-> ty]

(* ---- association lists: fields, parameters, tables --------------------------- *)
Keys(table) == {table[i][1] : i \in DOMAIN table}
At(table, key) == table[CHOOSE i \in DOMAIN table : table[i][1] = key][2]

(* F of the value of e: e is evaluated first, and once.                          *)
With(e, F(_)) == CHOOSE y \in {F(x) : x \in {e}} : TRUE

Bind(f, x, v) == (x :> v) @@ f
Empty == [x \in {} |-> VUnit]
================================================================================
