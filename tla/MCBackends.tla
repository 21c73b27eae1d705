------------------------------- MODULE MCBackends -------------------------------
(* Programs for Backends: a function `f` of one integer, called with 0, 1 or 2,  *)
(* whose body nests one control form in another.  Fillers are short statements   *)
(* whose effect shows in the output.                                            *)
EXTENDS Backends

(* ---- shorthands for syntax trees ------------------------------------------------ *)
I(n) == <<"Lit", VInt(n)>>
B(b) == <<"Lit", VBool(b)>>
V(x) == <<"Ident", x>>
T(s) == <<"Lit", VText(<< <<"text", s>> >>)>>
Op(op, l, r) == <<"BinOp", op, l, r>>
Do(f, args) == <<"Call", V(f), args>>
Say(e) == <<"Expr", Do("print", << <<"StringInterp", << <<"text", "=">>, <<"expr", e>>, <<"text", "">> >> >> >>)>>
Mark(t) == <<"Expr", Do("print", <<T(t)>>)>>
Let(x, e) == <<"Let", x, <<>>, e>>
Var(x, e) == <<"Var", x, <<>>, e>>
Set1(x, e) == <<"Assign", V(x), e>>
If(c, a, b) == <<"If", c, a, <<>>, <<b>> >>
If1(c, a) == <<"If", c, a, <<>>, <<>> >>
Ret(e) == <<"Return", <<e>> >>
Arm(p, body) == <<p, <<>>, body>>
Guarded(p, g, body) == <<p, <<g>>, body>>
Break == <<"Break", <<>> >>
Continue == <<"Continue", <<>> >>
Ty(n) == <<"Named", n, <<>> >>
OptInt == <<"Named", "Option", <<Ty("Int")>> >>
ResInt == <<"Named", "Result", <<Ty("Int"), Ty("String")>> >>
Fn(name, params, ret, body) == [name |-> name, params |-> params, ret |-> <<ret>>, body |-> body]

(* half(0) is None, half(n) is Some(n - 1); parse(0) is an Err; noisy shows that it runs.   *)
Half == Fn("half", << <<"n", Ty("Int")>> >>, OptInt,
           <<If1(Op("Eq", V("n"), I(0)), <<Ret(V("None"))>>), Ret(Do("Some", <<Op("Sub", V("n"), I(1))>>))>>)
Parse == Fn("parse", << <<"n", Ty("Int")>> >>, ResInt,
            <<If1(Op("Eq", V("n"), I(0)), <<Ret(Do("Err", <<T("zero")>>))>>), Ret(Do("Ok", <<V("n")>>))>>)
Noisy == Fn("noisy", << <<"b", Ty("Bool")>> >>, Ty("Bool"), <<Say(V("b")), Ret(V("b"))>>)

Main(k) ==
  [name |-> "main", params |-> <<>>, ret |-> <<>>,
   body |-> << <<"Match", Do("f", <<I(k)>>),
                 <<Arm(<<"Variant", "Some", << <<"Ident", "got">> >> >>, <<Say(V("got"))>>),
                   Arm(<<"Wildcard">>, <<Say(T("none"))>>)>> >> >>]

Prog(k, body) ==
  [structs |-> << <<"Point", << <<"x", Ty("Int")>>, <<"y", Ty("Int")>> >> >> >>,
   enums |-> << <<"Color", << <<"Red", <<>> >>, <<"Blue", <<>> >> >> >>,
               <<"Shape", << <<"Dot", <<>> >>, <<"Square", <<Ty("Int")>> >> >> >> >>,
   traits |-> <<>>, impls |-> <<>>,
   fns |-> <<Half, Parse, Noisy,
             Fn("f", << <<"n", Ty("Int")>> >>, OptInt, body \o <<Ret(Do("Some", <<V("n")>>))>>), Main(k)>>]

(* ---- fillers ----------------------------------------------------------------------- *)
IsZero == Op("Eq", V("n"), I(0))
Exprs ==
  [sum |-> Op("Sub", Op("Mul", V("n"), I(3)), I(1)),
   inverse |-> Op("Div", I(2), V("n")),
   quot |-> Op("Add", Op("Div", I(7), Op("Add", V("n"), I(1))), Op("Rem", I(7), I(2))),
   neg |-> <<"UnaryOp", "Neg", V("n")>>,
   call |-> <<"Try", Do("half", <<V("n")>>)>>,
   or7 |-> Op("Coalesce", Do("half", <<V("n")>>), I(7)),
   both |-> Op("And", Op("Gt", V("n"), I(0)), Do("noisy", <<IsZero>>)),
   either |-> Op("Or", IsZero, Do("noisy", <<Op("Ge", V("n"), I(2))>>)),
   index |-> <<"Index", <<"ListLit", <<I(5), I(6), I(7)>> >>, V("n")>>,
   count |-> <<"Member", <<"ListLit", <<V("n"), V("n")>> >>, "length">>,
   point |-> <<"Member", <<"StructLit", "Point", << <<"x", V("n")>>, <<"y", I(4)>> >> >>, "y">>]

Stmts ==
  [say |-> <<Mark("a")>>, two |-> <<Mark("b"), Mark("c")>>,
   leave |-> <<Ret(V("None"))>>, none |-> <<>>]

Conds == [zero |-> IsZero, not |-> <<"UnaryOp", "Not", Op("Le", V("n"), I(1))>>,
          and |-> Exprs.both, or |-> Exprs.either]

(* A control form around a statement list; v is the name the form binds.                 *)
Form(kind, v, body) ==
  LET next == Set1(v, Op("Add", V(v), I(1)))
  IN CASE kind = "if" -> <<If(IsZero, <<Mark("then")>> \o body, <<Mark("else")>> \o body)>>
       [] kind = "while" -> <<Var(v, I(0)), <<"While", Op("Lt", V(v), V("n")), Append(body, next)>>, Say(V(v))>>
       [] kind = "loop" -> <<Var(v, I(0)),
                             <<"Loop", <<If1(Op("Ge", V(v), V("n")), <<Break>>), next>> \o body>>, Say(V(v))>>
       [] kind = "for" -> << <<"For", v, <<"ListLit", <<I(10), V("n"), I(20)>> >>,
                               <<If1(Op("Eq", V(v), V("n")), <<Continue>>)>> \o body>>, Mark("for")>>
       [] kind = "match" -> << <<"Match", V("n"),
                                 <<Arm(<<"Literal", VInt(0)>>, <<Mark("0")>>),
                                   Guarded(<<"Ident", v>>, Op("Gt", V(v), I(1)), body),
                                   Arm(<<"Wildcard">>, <<Mark("_")>> \o body)>> >> >>
       [] kind = "option" -> << <<"Match", Do("half", <<V("n")>>),
                                  <<Arm(<<"Variant", "None", <<>> >>, body),
                                    Arm(<<"Variant", "Some", << <<"Ident", v>> >> >>, Append(body, Say(V(v))))>> >> >>
       [] kind = "result" -> << <<"Match", Do("parse", <<V("n")>>),
                                  <<Arm(<<"Variant", "Ok", << <<"Wildcard">> >> >>, body),
                                    Arm(<<"Variant", "Err", << <<"Ident", v>> >> >>, <<Say(V(v))>>)>> >> >>

Kinds == {"if", "while", "loop", "for", "match", "option", "result"}
Ids(f) == DOMAIN f
Inputs == 0 .. 2

(* A match on an integer that may have no arm for it; a variant matches no integer.      *)
Patterns == [one |-> <<"Literal", VInt(1)>>, any |-> <<"Wildcard">>, square |-> <<"Variant", "Square", << <<"Ident", "r">> >> >>]

(* Branches and expressions, then forms in forms.                                        *)
Flat ==
  [p \in Inputs \X {"let"} \X Ids(Exprs) |-> Prog(p[1], <<Let("y", Exprs[p[3]]), Say(V("y"))>>)]
  @@ [p \in Inputs \X {"branch"} \X Ids(Conds) \X Ids(Stmts) \X Ids(Stmts) |->
        Prog(p[1], <<If(Conds[p[3]], Stmts[p[4]], Stmts[p[5]]), Say(I(9))>>)]
  @@ [p \in Inputs \X {"match"} \X Ids(Patterns) |->
        Prog(p[1], << <<"Match", V("n"), <<Arm(Patterns[p[3]], <<Mark("a")>>), Arm(Patterns.one, <<Mark("b")>>)>> >> >>)]
Nested ==
  [p \in Inputs \X {"form"} \X Kinds \X Kinds \X {"say", "leave", "none"} |->
     Prog(p[1], Form(p[3], "a", Form(p[4], "b", Stmts[p[5]])) \o <<Say(I(8))>>)]
  @@ [p \in Inputs \X {"expr"} \X Kinds \X Ids(Exprs) |->
        Prog(p[1], Form(p[3], "a", <<Let("y", Exprs[p[4]]), Say(V("y"))>>))]
  @@ [p \in Inputs \X {"cond"} \X Kinds \X Ids(Conds) |->
        Prog(p[1], Form(p[3], "a", <<If(Conds[p[4]], Stmts.say, Stmts.two)>>))]

(* A chain of `else if`, of which at most one branch may run (docs/SYNTAX.md:249-250).   *)
ElseIf == <<"If", IsZero, <<Mark("a")>>, << <<Op("Eq", V("n"), I(1)), <<Mark("b")>> >> >>, << <<Mark("c")>> >> >>
OneBranchRuns == Cardinality({t \in {"a", "b", "c"} : << <<"text", t>> >> \in Range(walked.out)}) <= 1

(* Single programs: an inner block that names a name again, an assignment to a field, a  *)
(* loop over a range, two variants of an enum, an index past the end, a remainder by     *)
(* zero, and a local function, which typechecks and is not there at run time.            *)
Bodies ==
  [elseif |-> <<ElseIf>>,
   shadow |-> <<Let("y", I(1)), If1(IsZero, <<Let("y", I(2))>>), Say(V("y"))>>,
   field |-> <<Var("q", <<"StructLit", "Point", << <<"x", I(1)>>, <<"y", I(2)>> >> >>),
               <<"Assign", <<"Member", V("q"), "x">>, I(5)>>, Say(<<"Member", V("q"), "x">>)>>,
   range |-> << <<"For", "x", <<"Range", I(0), V("n"), TRUE>>, <<Say(V("x"))>> >> >>,
   variants |-> <<If(Op("Eq", V("Red"), V("Blue")), Stmts.say, Stmts.two)>>,
   bounds |-> <<Say(<<"Index", <<"ListLit", <<I(5)>> >>, V("n")>>)>>,
   rems |-> <<Say(Op("Rem", I(7), V("n")))>>,
   local |-> << <<"Function", Fn("g", <<>>, Ty("Int"), <<Ret(I(3))>>)>>, Say(Do("g", <<>>))>>]
Single == [p \in Inputs \X {"body"} \X Ids(Bodies) |-> Prog(p[1], Bodies[p[3]])]

(* ---- programs the checker may reject ---------------------------------------------------- *)
Samples ==
  [int |-> V("n"), bool |-> IsZero, text |-> T("t"), maybe |-> Do("half", <<V("n")>>), ok |-> Do("parse", <<V("n")>>),
   list |-> <<"ListLit", <<I(5), V("n"), I(6)>> >>, point |-> <<"StructLit", "Point", << <<"x", V("n")>>, <<"y", I(4)>> >> >>,
   lost |-> V("nowhere"), call |-> Do("noisy", <<IsZero>>), tried |-> <<"Try", Do("parse", <<V("n")>>)>>]

(* Uses of a value that only some types allow.                                           *)
Uses(e) ==
  [cond |-> <<If(e, Stmts.say, Stmts.two)>>, elif |-> << <<"If", IsZero, Stmts.say, << <<e, Stmts.two>> >>, <<>> >> >>,
   while |-> << <<"While", e, <<Break>> >> >>, stray |-> <<Continue, Say(e)>>,
   guard |-> << <<"Match", V("n"), <<Guarded(<<"Wildcard">>, e, Stmts.say), Arm(<<"Wildcard">>, Stmts.two)>> >> >>,
   and |-> <<Say(Op("And", IsZero, e))>>, or |-> <<Say(Op("Or", e, IsZero))>>,
   plus |-> <<Say(Op("Add", e, I(1)))>>, minus |-> <<Say(Op("Sub", I(1), e))>>, join |-> <<Say(Op("Add", T("t"), e))>>,
   arg |-> <<Say(Do("half", <<e>>))>>, args |-> <<Say(Do("half", <<I(1), e>>))>>, print |-> << <<"Expr", Do("print", <<e>>)>> >>,
   let |-> << <<"Let", "y", <<Ty("Int")>>, e>>, Say(Op("Sub", V("y"), I(1)))>>,
   decl |-> << <<"Decl", "y", <<>>, e>>, Say(Op("Add", V("y"), I(2)))>>,
   assign |-> <<Var("y", I(1)), Set1("y", e), Say(Op("Mul", V("y"), I(2)))>>,
   return |-> <<Ret(e)>>, some |-> <<Ret(Do("Some", <<e>>))>>, field |-> <<Say(<<"Member", e, "x">>)>>,
   length |-> <<Say(<<"Member", e, "length">>)>>, try |-> <<Let("y", <<"Try", e>>), Say(Op("Add", V("y"), I(1)))>>,
   payload |-> << <<"Match", e, <<Arm(<<"Variant", "Some", << <<"Ident", "y">> >> >>, <<Say(Op("Add", V("y"), I(1)))>>),
                                  Arm(<<"Wildcard">>, <<>>)>> >> >>]

(* Every value in every use, and as an operand of `!` and of `<`.                         *)
Mixed ==
  [p \in Inputs \X {"use"} \X Ids(Uses(V("n"))) \X Ids(Samples) |-> Prog(p[1], Uses(Samples[p[4]])[p[3]])]
  @@ [p \in {1} \X {"operand"} \X Ids(Samples) |->
        Prog(1, <<Let("y", Samples[p[3]]), Say(<<"UnaryOp", "Not", V("y")>>), Say(Op("Lt", V("y"), V("y")))>>)]

Sources == Flat @@ Nested @@ Single @@ Mixed

(* ---- where the code parts from what the properties say (README) -------------------------- *)
(* An arm of an `if` that splits is entered behind its form (lowering.rs:975, 990); so is *)
(* the rest of a chain of `else if`, an `if` in the last arm.                            *)
Splitting == {"call", "or7", "both", "either"}
SplitArm ==
  (Inputs \X {"form"} \X {"if"} \X Kinds \X {"say", "leave", "none"})
  \cup (Inputs \X {"cond"} \X {"if"} \X Ids(Conds))
  \cup (Inputs \X {"expr"} \X {"if"} \X Splitting)
Chains(ns) == (ns \X {"body"} \X {"elseif"}) \cup (ns \X {"use"} \X {"elif"} \X {"bool", "call"})

(* `let` in an inner block overwrites the outer name (lowering.rs:669), a variant that is *)
(* not called is a register nobody writes (1376).                                         *)
Unwritten == Inputs \X {"body"} \X {"shadow", "variants"}

(* An assignment to a field is dropped, a range is a struct, not a list (701, 1780); an    *)
(* index past the end is unit, a remainder by zero no panic (vm.rs).                      *)
Computed ==
  (Inputs \X {"body"} \X {"field", "range"}) \cup ({1, 2} \X {"body"} \X {"bounds"}) \cup ({0} \X {"body"} \X {"rems"})

(* The checker lets a primitive have any field, and does not look at the operands of `!`    *)
(* and `<`; a local function typechecks.                                                   *)
AnyField ==
  (Inputs \X {"use"} \X {"field", "length"} \X {"int", "bool", "text", "call"})
  \cup ({1, 2} \X {"use"} \X {"field", "length"} \X {"tried"})
Operands1(values) == {1} \X {"operand"} \X values
LocalFn == Inputs \X {"body"} \X {"local"}

(* The machine takes what is true for a `Some`, and the checker any value for an option.    *)
TrueAsSome ==
  (Inputs \X {"use"} \X {"payload"} \X {"list", "point", "text"})
  \cup ({0} \X {"use"} \X {"payload"} \X {"bool", "call"})
  \cup ({1, 2} \X {"use"} \X {"payload"} \X {"int", "tried"})
OkAsSome == {1, 2} \X {"use"} \X {"payload"} \X {"ok"}

MCParting ==
  SplitArm \cup Chains({1, 2}) \cup Unwritten \cup Computed \cup AnyField \cup TrueAsSome \cup OkAsSome
  \cup Operands1({"int", "tried"})
MCMisjudged ==
  AnyField \cup TrueAsSome \cup LocalFn \cup Operands1(Ids(Samples) \ {"lost"})
  \cup (Inputs \X {"expr"} \X {"if"} \X {"call"})

(* What follows in the arm reads nothing the jump has skipped after a `for`, or when both    *)
(* ways on leave the function.                                                             *)
Harmless ==
  (Inputs \X {"form"} \X {"if"} \X {"for"} \X {"say", "leave", "none"})
  \cup (Inputs \X {"form"} \X {"if"} \X {"if", "option"} \X {"leave"})
MCBreaking == (SplitArm \ Harmless) \cup Chains(Inputs) \cup Unwritten

MCSuite == LET sources == Sources IN [i \in DOMAIN sources |-> Compile(sources[i])]
================================================================================
