-------------------------------- MODULE Lowering --------------------------------
(* From typed trees to the blocks of the intermediate representation           *)
(* (compiler/src/nir/lowering.rs and module.rs).                               *)
(*                                                                             *)
(* A block is its id, its instructions and its terminator, which is the empty  *)
(* sequence until it is set.  The lowering state L holds the next register and *)
(* block id, the finished blocks by id, the block being built (cur), the       *)
(* register of every name seen so far in the function, the targets of `break`  *)
(* and `continue`, the register of the last expression (val), the register of  *)
(* the last statement's value if it has one (res), and whether the compiler    *)
(* has aborted on a form it does not implement (ice).                          *)
EXTENDS Hir

(* ---- building blocks ------------------------------------------------------------ *)
NewBlock(id) == [id |-> id, instrs |-> <<>>, term |-> <<>>]
NoBlocks == [id \in {} |-> NewBlock(0)]

Into(id, L) == [L EXCEPT !.cur = NewBlock(id)]
Emit(instr, L) == [L EXCEPT !.cur.instrs = Append(@, instr)]
Terminate(term, L) == [L EXCEPT !.cur.term = term]
TerminateIfOpen(term, L) == IF L.cur.term = <<>> THEN Terminate(term, L) ELSE L
Finish(L) == [L EXCEPT !.blocks = Bind(@, L.cur.id, L.cur)]

Branch(id) == <<"Branch", id>>
CondBranch(cond, then, else) == <<"CondBranch", cond, then, else>>

(* The block before a split is finished under its own id; building goes on in next. *)
SplitCurrentBlock(before, next, L) ==
  [L EXCEPT !.blocks = Bind(@, before.id, before), !.cur = next]

Registers(n, L) == [L EXCEPT !.reg = @ + n]
BlockIds(n, L) == [L EXCEPT !.blk = @ + n]

(* An instruction that defines the next free register.                              *)
Define1(Instr(_), L) ==
  [L EXCEPT !.cur.instrs = Append(@, Instr(L.reg)), !.reg = @ + 1, !.val = L.reg]

Constant(v, L) == Define1(LAMBDA dst : <<"Const", dst, v>>, L)
UnitValue(L) == Constant(VUnit, L)

(* The register a statement list leaves its value in.                               *)
OrUnit(L) == IF L.res = <<>> THEN UnitValue(L) ELSE [L EXCEPT !.val = L.res[1]]

Returns(L) == L.cur.term # <<>> /\ L.cur.term[1] = "Return"

(* Mutant: only the first source.                                                      *)
PhiBlockFirst(id, dst, incoming) ==
  [NewBlock(id) EXCEPT !.instrs = << <<"Phi", dst, SubSeq(incoming, 1, 1)>> >>]

PhiBlock(id, dst, incoming) == [NewBlock(id) EXCEPT !.instrs = << <<"Phi", dst, incoming>> >>]

RECURSIVE LowerExpr(_, _)
RECURSIVE LowerStmts(_, _, _)

(* ---- expressions ------------------------------------------------------------------ *)
(* Left to right; vals collects the registers.                                        *)
RECURSIVE LowerAll(_, _)
LowerAll(es, L) ==
  IF L.ice \/ es = <<>> THEN [L |-> L, vals |-> <<>>]
  ELSE LET l == LowerExpr(Head(es), L)
           rest == LowerAll(Tail(es), l)
       IN [L |-> rest.L, vals |-> <<l.val>> \o rest.vals]

(* A name that no `let`, parameter or pattern has bound gets a register of its own.   *)
LowerIdent(x, L) ==
  IF x \in DOMAIN L.locals THEN [L EXCEPT !.val = L.locals[x]]
  ELSE [Registers(1, L) EXCEPT !.val = L.reg]

LowerCall(callee, args, L) ==
  LET as == LowerAll(args, L)
      dst == as.L.reg
      named == callee.kind[1] = "Ident"
      called == IF named THEN callee.kind[2] ELSE "unresolved"
  IN IF called \in {"print", "println"}
       THEN [Emit(<<"Const", dst, VUnit>>, Emit(<<"Print", as.vals[1]>>, Registers(1, as.L))) EXCEPT !.val = dst]
       ELSE Define1(LAMBDA d : <<"Call", d, called, as.vals>>, as.L)

(* The right side of && and || runs in a block of its own.  The branch goes to the    *)
(* block that was current when the right side was done.                               *)
LowerShortCircuit(left, right, isAnd, L) ==
  LET l == LowerExpr(left, L)
      short == l.blk
      rhs == l.blk + 1
      merge == l.blk + 2
      dst == l.reg
      k == l.reg + 1
      s == Finish(Terminate(Branch(merge), Emit(<<"Const", k, VBool(~isAnd)>>,
             Into(short, Registers(2, BlockIds(3, l))))))
      r == LowerExpr(right, Into(rhs, s))
      actual == r.cur.id
      branch == IF isAnd THEN CondBranch(l.val, actual, short) ELSE CondBranch(l.val, short, actual)
  IN [SplitCurrentBlock([l.cur EXCEPT !.term = branch],
                        PhiBlock(merge, dst, << <<k, short>>, <<r.val, actual>> >>),
                        Finish(Terminate(Branch(merge), r))) EXCEPT !.val = dst]

LowerBinOp(op, left, right, L) ==
  LET as == LowerAll(<<left, right>>, L)
  IN CASE op \in {"And", "Or"} -> LowerShortCircuit(left, right, op = "And", L)
       [] op \in {"Add", "Sub", "Mul", "Div", "Rem"} ->
            Define1(LAMBDA dst : <<"Arith", dst, op, as.vals[1], as.vals[2]>>, as.L)
       [] OTHER -> Define1(LAMBDA dst : <<"ICmp", dst, op, as.vals[1], as.vals[2]>>, as.L)

(* `e?`: None and Err leave the function from a block of their own.                   *)
LowerTry(inner, L) ==
  LET l == LowerExpr(inner, L)
      cont == l.blk
      early == l.blk + 1
      e == Into(early, BlockIds(2, l))
      failed == IF inner.ty[1] = "Result"
                  THEN Define1(LAMBDA dst : <<"ResultErr", dst, l.reg>>,
                               Define1(LAMBDA dst : <<"EnumPayload", dst, l.val, 1>>, e))
                  ELSE Define1(LAMBDA dst : <<"OptionNone", dst>>, e)
      done == Finish(Terminate(<<"EarlyReturn", failed.val>>, failed))
  IN Define1(LAMBDA dst : <<"TryUnwrap", dst, l.val>>,
             SplitCurrentBlock([l.cur EXCEPT !.term = CondBranch(l.val, cont, early)], NewBlock(cont), done))

LowerCoalesce(left, right, L) ==
  LET l == LowerExpr(left, L)
      unwrap == l.blk
      else == l.blk + 1
      merge == l.blk + 2
      dst == l.reg
      r == LowerExpr(right, Into(else, Registers(1, BlockIds(3, l))))
      actual == r.cur.id
      e == Finish(Terminate(Branch(merge), Emit(<<"Move", dst, r.val>>, r)))
      u == Define1(LAMBDA d : <<"TryUnwrap", d, l.val>>, Into(unwrap, e))
  IN [SplitCurrentBlock([l.cur EXCEPT !.term = CondBranch(l.val, unwrap, actual)],
                        PhiBlock(merge, dst, << <<u.val, unwrap>>, <<r.val, actual>> >>),
                        Finish(Terminate(Branch(merge), u))) EXCEPT !.val = dst]

LowerPiece(p, L) ==
  IF p[1] = "text" THEN Constant(VText(<<p>>), L)
  ELSE LET x == LowerExpr(p[2], L) IN Define1(LAMBDA dst : <<"ToString", dst, x.val>>, x)

(* The pieces are added up one by one, from the register acc if there is one.        *)
RECURSIVE LowerInterp(_, _, _)
LowerInterp(parts, acc, L) ==
  LET x == LowerPiece(Head(parts), L)
      sum == IF acc = <<>> THEN x ELSE Define1(LAMBDA dst : <<"Arith", dst, "Add", acc[1], x.val>>, x)
  IN CASE parts = <<>> /\ acc = <<>> -> Constant(VText(<<>>), L)
       [] parts = <<>> /\ acc # <<>> -> [L EXCEPT !.val = acc[1]]
       [] OTHER -> IF sum.ice THEN sum ELSE LowerInterp(Tail(parts), <<sum.val>>, sum)

LowerAggregate(es, names, ty, L) ==
  LET as == LowerAll(es, L)
  IN Define1(LAMBDA dst : <<"StructNew", dst, as.vals, names, ty>>, as.L)

LowerRange(from, to, inclusive, ty, L) ==
  LET as == LowerAll(<<from, to>>, L)
      i == Constant(VBool(inclusive), as.L)
  IN Define1(LAMBDA dst : <<"StructNew", dst, Append(as.vals, i.val), <<"start", "end", "inclusive">>, ty>>, i)

LowerMember(object, field, L) ==
  LET o == LowerExpr(object, L)
  IN IF field = "length" /\ object.ty[1] \in {"List", "String"}
       THEN Define1(LAMBDA dst : <<"ListLen", dst, o.val>>, o)
       ELSE Define1(LAMBDA dst : <<"FieldGet", dst, o.val, field>>, o)

LowerIndex(object, index, L) ==
  LET as == LowerAll(<<object, index>>, L)
  IN Define1(LAMBDA dst : <<"ListIndex", dst, as.vals[1], as.vals[2]>>, as.L)

LowerWrap(instr, inner, L) ==
  LET x == LowerExpr(inner, L) IN Define1(LAMBDA dst : <<instr, dst, x.val>>, x)

LowerExpr(e, L) ==
  LET k == e.kind
  IN IF L.ice THEN L ELSE
     CASE k[1] = "Lit" -> Constant(k[2], L)
       [] k[1] = "None" -> Define1(LAMBDA dst : <<"OptionNone", dst>>, L)
       [] k[1] = "Some" -> LowerWrap("OptionSome", k[2], L)
       [] k[1] = "Ok" -> LowerWrap("ResultOk", k[2], L)
       [] k[1] = "Err" -> LowerWrap("ResultErr", k[2], L)
       [] k[1] = "Ident" -> LowerIdent(k[2], L)
       [] k[1] = "Call" -> LowerCall(k[2], k[3], L)
       [] k[1] = "BinOp" -> LowerBinOp(k[2], k[3], k[4], L)
       [] k[1] = "UnaryOp" -> LowerWrap(k[2], k[3], L)
       [] k[1] = "Member" -> LowerMember(k[2], k[3], L)
       [] k[1] = "Try" -> LowerTry(k[2], L)
       [] k[1] = "Coalesce" -> LowerCoalesce(k[2], k[3], L)
       [] k[1] = "StringInterp" -> LowerInterp(k[2], <<>>, L)
       [] k[1] = "List" -> LowerAggregate(k[2], <<>>, e.ty, L)
       [] k[1] = "Index" -> LowerIndex(k[2], k[3], L)
       [] k[1] = "Range" -> LowerRange(k[2], k[3], k[4], e.ty, L)
       [] k[1] = "StructLit" ->
            LowerAggregate([i \in DOMAIN k[3] |-> k[3][i][2]], [i \in DOMAIN k[3] |-> k[3][i][1]], e.ty, L)
       [] k[1] = "Spread" -> LowerExpr(k[2], L)

(* ---- statements --------------------------------------------------------------------- *)
Name(x, reg, L) == [L EXCEPT !.locals = Bind(@, x, reg)]

LowerLet(x, value, L) ==
  LET v == LowerExpr(value, L)
      b == Define1(LAMBDA dst : <<"Move", dst, v.val>>, v)
  IN Name(x, b.val, b)

LowerReturn(value, L) ==
  LET v == LowerAll(value, L) IN Terminate(<<"Return", v.vals>>, v.L)

(* The target is lowered as an expression and the value moved into its register.       *)
LowerAssign(target, value, L) ==
  LET as == LowerAll(<<target, value>>, L) IN Emit(<<"Move", as.vals[1], as.vals[2]>>, as.L)

LowerJump(target, value, L) ==
  LET v == LowerAll(value, L)
  IN Terminate(IF target = <<>> THEN <<"Unreachable">> ELSE Branch(target[1]), v.L)

(* Mutant: `break` continues.                                                          *)
LoopBodyBreakContinues(body, id, exit, cont, L) ==
  LET b == LowerStmts(body, [Into(id, L) EXCEPT !.exit = <<cont>>, !.cont = <<cont>>], <<>>)
  IN Finish(TerminateIfOpen(Branch(cont), [b EXCEPT !.exit = L.exit, !.cont = L.cont]))

(* The body of a loop, with its own targets for `break` and `continue`.                 *)
LoopBody(body, id, exit, cont, L) ==
  LET b == LowerStmts(body, [Into(id, L) EXCEPT !.exit = <<exit>>, !.cont = <<cont>>], <<>>)
  IN Finish(TerminateIfOpen(Branch(cont), [b EXCEPT !.exit = L.exit, !.cont = L.cont]))

(* A loop ends in an exit block that leads to the merge block, where building goes on.  *)
LeaveLoop(before, header, exit, merge, L) ==
  SplitCurrentBlock([before EXCEPT !.term = Branch(header)], NewBlock(merge),
                    Finish(Terminate(Branch(merge), Into(exit, L))))

LowerWhile(cond, body, L) ==
  LET header == L.blk
      inside == L.blk + 1
      exit == L.blk + 2
      merge == L.blk + 3
      c == LowerExpr(cond, Into(header, BlockIds(4, L)))
      h == Finish(Terminate(CondBranch(c.val, inside, exit), c))
      b == LoopBody(body, inside, exit, header, h)
  IN IF h.ice \/ b.ice THEN b ELSE LeaveLoop(L.cur, header, exit, merge, b)

LowerLoop(body, L) ==
  LET header == L.blk
      inside == L.blk + 1
      exit == L.blk + 2
      c == Constant(VBool(TRUE), Into(header, BlockIds(3, L)))
      b == LoopBody(body, inside, exit, header, Finish(Terminate(CondBranch(c.val, inside, exit), c)))
  IN IF b.ice THEN b ELSE LeaveLoop(L.cur, header, exit, b.blk, BlockIds(1, b))

(* The index goes round through a Phi; the binding names, in turn, the initial index,   *)
(* the element and the next index.                                                      *)
LowerFor(x, iterable, body, L) ==
  LET it == LowerExpr(iterable, L)
      len == Define1(LAMBDA dst : <<"ListLen", dst, it.val>>, it)
      zero == Constant(VInt(0), len)
      header == zero.blk
      inside == zero.blk + 1
      cont == zero.blk + 2
      exit == zero.blk + 3
      carried == zero.reg
      idx == zero.reg + 1
      before == Name(x, zero.val, BlockIds(4, zero))
      phi == Emit(<<"Phi", idx, << <<zero.val, zero.cur.id>>, <<carried, cont>> >> >>,
                  Into(header, Registers(2, before)))
      c == Define1(LAMBDA dst : <<"ICmp", dst, "Lt", idx, len.val>>, phi)
      h == Finish(Terminate(CondBranch(c.val, inside, exit), c))
      elem == Define1(LAMBDA dst : <<"ListIndex", dst, it.val, idx>>, Into(inside, h))
      b == LowerStmts(body, [Name(x, elem.val, elem) EXCEPT !.exit = <<exit>>, !.cont = <<cont>>], <<>>)
      bodyDone == Finish(TerminateIfOpen(Branch(cont), [b EXCEPT !.exit = L.exit, !.cont = L.cont]))
      one == Constant(VInt(1), Into(cont, bodyDone))
      next == Emit(<<"Arith", carried, "Add", idx, one.val>>, one)
      contDone == Finish(Terminate(Branch(header), Name(x, carried, next)))
  IN IF zero.ice \/ h.ice \/ b.ice THEN b
     ELSE LeaveLoop(zero.cur, header, exit, contDone.blk, BlockIds(1, contDone))

(* One arm of an `if`: its block, up to the merge.                                       *)
LowerArm(body, id, merge, L) ==
  LET b == OrUnit(LowerStmts(body, Into(id, L), <<>>))
  IN TerminateIfOpen(Branch(merge), b)

(* Both arms meet in the merge block; an arm that returns is not among the sources of    *)
(* its Phi.  Each arm is entered at the block that was current when it was done.         *)
LowerIf(cond, then, else, L) ==
  LET c == LowerExpr(cond, L)
      merge == c.blk + 2
      t == LowerArm(then, c.blk, merge, BlockIds(3, c))
      e == LowerArm(IF else = <<>> THEN <<>> ELSE else[1], c.blk + 1, merge, Finish(t))
      from(arm) == IF Returns(arm) THEN <<>> ELSE << <<arm.val, arm.cur.id>> >>
      incoming == from(t) \o from(e)
      before == [c.cur EXCEPT !.term = CondBranch(c.val, t.cur.id, e.cur.id)]
      done == Finish(e)
  IN CASE c.ice \/ t.ice \/ e.ice -> e
       [] ~e.ice /\ incoming = <<>> ->
            [SplitCurrentBlock(before, NewBlock(merge), done) EXCEPT !.res = <<>>]
       [] OTHER ->
            [SplitCurrentBlock(before, PhiBlock(merge, done.reg, incoming), Registers(1, done))
               EXCEPT !.res = <<done.reg>>]

(* ---- match --------------------------------------------------------------------------- *)
TestEqual(reg, v, arm, next, L) ==
  LET k == Constant(v, L)
      t == Define1(LAMBDA dst : <<"ICmp", dst, "Eq", reg, k.val>>, k)
  IN Terminate(CondBranch(t.val, arm, next), t)

(* Branch to arm when the pattern matches, to next when it does not.                      *)
LowerPatternTest(pat, reg, arm, next, tags, L) ==
  CASE pat[1] \in {"Wildcard", "Ident"} -> Terminate(Branch(arm), L)
    [] pat[1] = "Literal" -> TestEqual(reg, pat[2], arm, next, L)
    [] pat[1] = "Variant" ->
         LET tag == Define1(LAMBDA dst : <<"EnumTag", dst, reg>>, L)
         IN IF pat[2] \in {"Some", "Ok"} /\ Len(pat[3]) = 1 THEN Terminate(CondBranch(reg, arm, next), L)
            ELSE IF pat[2] \in {"None", "Err"} /\ Len(pat[3]) <= 1 THEN Terminate(CondBranch(reg, next, arm), L)
            ELSE IF pat[2] \in DOMAIN tags THEN TestEqual(tag.val, VInt(tags[pat[2]]), arm, next, tag)
            ELSE Terminate(Branch(next), L)

(* A payload can be named or ignored; no other sub-pattern is implemented.                *)
BindLeaf(pat, reg, L) ==
  CASE pat[1] = "Ident" -> LET b == Define1(LAMBDA dst : <<"Move", dst, reg>>, L) IN Name(pat[2], b.val, b)
    [] pat[1] = "Wildcard" -> L
    [] OTHER -> [L EXCEPT !.ice = TRUE]

RECURSIVE BindPayload(_, _, _, _)
BindPayload(pats, i, reg, L) ==
  IF L.ice \/ i > Len(pats) THEN L
  ELSE LET p == Define1(LAMBDA dst : <<"EnumPayload", dst, reg, i>>, L)
       IN BindPayload(pats, i + 1, reg, BindLeaf(pats[i], p.val, p))

LowerBinding(pat, reg, tags, L) ==
  LET prelude == pat[2] \in {"Some", "Ok", "Err"} /\ Len(pat[3]) = 1
  IN CASE pat[1] = "Ident" -> BindLeaf(pat, reg, L)
       [] pat[1] = "Variant" -> IF prelude \/ pat[2] \in DOMAIN tags THEN BindPayload(pat[3], 1, reg, L) ELSE L
       [] OTHER -> L

(* Arm i: its test, its bindings, its guard in the block of the bindings, its body.       *)
(* incoming collects the arms that reach the merge block.                                 *)
RECURSIVE LowerArms(_, _, _, _, _, _)
LowerArms(arms, test, trap, merge, reg, acc) ==
  LET L == acc.L
      arm == Head(arms)
      id == L.blk
      next == IF Len(arms) = 1 THEN trap ELSE test + 1
      t == Finish(LowerPatternTest(arm[1], reg, id, next, L.tags, Into(test, BlockIds(1, L))))
      b == LowerBinding(arm[1], reg, L.tags, Into(id, t))
      g == LowerAll(arm[2], BlockIds(1, b))
      guarded == Into(b.blk, Finish(Terminate(CondBranch(g.vals[1], b.blk, next), g.L)))
      r == OrUnit(LowerStmts(arm[3], IF arm[2] = <<>> THEN b ELSE guarded, <<>>))
      done == [L |-> Finish(TerminateIfOpen(Branch(merge), r)),
               incoming |-> IF r.cur.term = <<>> THEN Append(acc.incoming, <<r.val, r.cur.id>>)
                            ELSE acc.incoming]
  IN IF arms = <<>> THEN acc
     ELSE IF L.ice \/ t.ice \/ b.ice \/ r.ice THEN done
     ELSE LowerArms(Tail(arms), test + 1, trap, merge, reg, done)

(* A chain of tests that ends in a trap; the arms taken meet in the merge block.          *)
LowerMatch(scrutinee, arms, L) ==
  LET s == LowerExpr(scrutinee, L)
      merge == s.blk
      trap == s.blk + 1
      first == s.blk + 2
      as == LowerArms(arms, first, trap, merge, s.val, [L |-> BlockIds(2 + Len(arms), s), incoming |-> <<>>])
      done == Finish(Terminate(<<"Unreachable">>, Into(trap, as.L)))
      before == [s.cur EXCEPT !.term = Branch(first)]
  IN CASE arms = <<>> -> [Terminate(<<"Unreachable">>, s) EXCEPT !.res = <<>>]
       [] arms # <<>> /\ as.incoming = <<>> ->
            [SplitCurrentBlock(before, NewBlock(merge), done) EXCEPT !.res = <<>>]
       [] OTHER ->
            [SplitCurrentBlock(before, PhiBlock(merge, done.reg, as.incoming), Registers(1, done))
               EXCEPT !.res = <<done.reg>>]

LowerStmt(stmt, L) ==
  LET k == stmt.kind
      silent(l) == LET u == UnitValue(l) IN IF l.ice THEN l ELSE [u EXCEPT !.res = <<u.val>>]
  IN CASE k[1] \in {"Let", "Var", "Decl"} -> silent(LowerLet(k[2], k[4], L))
       [] k[1] = "Assign" -> silent(LowerAssign(k[2], k[3], L))
       [] k[1] = "While" -> silent(LowerWhile(k[2], k[3], L))
       [] k[1] = "Loop" -> silent(LowerLoop(k[2], L))
       [] k[1] = "For" -> silent(LowerFor(k[2], k[3], k[4], L))
       [] k[1] = "Expr" -> LET v == LowerExpr(k[2], L) IN [v EXCEPT !.res = <<v.val>>]
       [] k[1] = "If" -> LowerIf(k[2], k[3], k[4], L)
       [] k[1] = "Match" -> LowerMatch(k[2], k[3], L)
       [] k[1] = "Return" -> [LowerReturn(k[2], L) EXCEPT !.res = <<>>]
       [] k[1] = "Break" -> [LowerJump(L.exit, k[2], L) EXCEPT !.res = <<>>]
       [] k[1] = "Continue" -> [LowerJump(L.cont, <<>>, L) EXCEPT !.res = <<>>]

(* The rest of a list after `return`, `break` or `continue` is dropped; an abort ends it. *)
LowerStmts(stmts, L, res) ==
  IF L.ice \/ stmts = <<>> THEN [L EXCEPT !.res = res]
  ELSE LET l == LowerStmt(Head(stmts), L)
       IN IF Head(stmts).kind[1] \in {"Return", "Break", "Continue"} THEN l
          ELSE LowerStmts(Tail(stmts), l, l.res)

(* ---- functions ------------------------------------------------------------------------- *)
(* Registers restart at 0 in every function, the first ones being its parameters; block   *)
(* ids run through the whole module.                                                      *)
LowerFunction(f, blk, tags) ==
  LET start == [reg |-> Len(f.params), blk |-> blk + 1, blocks |-> NoBlocks, cur |-> NewBlock(blk),
                locals |-> FoldLeft(LAMBDA acc, i : Bind(acc, f.params[i], i - 1), Empty,
                                    [i \in DOMAIN f.params |-> i]),
                exit |-> <<>>, cont |-> <<>>, val |-> 0, res |-> <<>>, ice |-> FALSE, tags |-> tags]
      b == LowerStmts(f.body, start, <<>>)
      done == Finish(TerminateIfOpen(<<"Return", b.res>>, b))
  IN [ice |-> b.ice, code |-> [entry |-> blk, blocks |-> done.blocks, registers |-> done.reg], blk |-> done.blk]

RECURSIVE LowerFunctions(_, _, _)
LowerFunctions(fns, acc, tags) ==
  IF acc.ice \/ fns = <<>> THEN acc
  ELSE LET r == LowerFunction(Head(fns), acc.blk, tags)
       IN IF r.ice THEN [acc EXCEPT !.ice = TRUE]
          ELSE LowerFunctions(Tail(fns), [acc EXCEPT !.fns = Bind(@, Head(fns).name, r.code), !.blk = r.blk], tags)

LowerModule(m) ==
  LET r == LowerFunctions(m.fns, [fns |-> Empty, blk |-> 0, ice |-> FALSE], m.tags)
  IN [fns |-> r.fns, ice |-> r.ice]
================================================================================
