---------------------------------- MODULE NirVm ----------------------------------
(* The virtual machine that runs the intermediate representation               *)
(* (compiler/src/nir/vm.rs).  One step executes one instruction or one         *)
(* terminator of the frame on top of the call stack.                           *)
(*                                                                             *)
(* A module has, by function name, the entry block and the blocks of the       *)
(* function, and whether the compiler aborted on it.  A frame has its          *)
(* function, its block, the block control came from, the index of the next     *)
(* instruction, its registers and the register of the caller its value goes    *)
(* to.  A register that has not been written reads as unit; locals holds the   *)
(* written ones.  Host calls, the managed heap, closures and the instructions  *)
(* no lowering emits are left out.                                             *)
EXTENDS Hir

CONSTANTS MaxLocals,        \* registers in a frame
          SameValue(_, _)   \* whether two values are equal (values_equal)
ASSUME MaxLocalsAssumption == MaxLocals \in Nat \ {0}

VARIABLES module,     \* the module that runs
          frames,     \* the call stack
          out,        \* what has been printed
          status,     \* "running", "done" or "failed"
          err         \* why it failed
vmVars == <<module, frames, out, status, err>>

(* ---- values ------------------------------------------------------------------------ *)
(* Mutant: None counts as true.                                                        *)
IsTruthyPresent(v) ==
  CASE IsA(v, "bool") -> v[2]
    [] IsA(v, "int") -> v[2] # 0
    [] v[1] \in {"string", "list"} -> v[2] # <<>>
    [] OTHER -> v[1] \notin {"err", "unit"}

IsTruthy(v) ==
  CASE IsA(v, "bool") -> v[2]
    [] IsA(v, "int") -> v[2] # 0
    [] v[1] \in {"string", "list"} -> v[2] # <<>>
    [] OTHER -> v[1] \notin {"none", "err", "unit"}

(* What an instruction computes: a value, or the error that ends the run.               *)
Value(v) == [ok |-> TRUE, v |-> v, err |-> "none"]
Trap(e) == [ok |-> FALSE, v |-> VUnit, err |-> e]

ArithValues(op, a, b) ==
  LET ints == IsA(a, "int") /\ IsA(b, "int")
  IN CASE ints /\ op = "Add" -> Value(VInt(a[2] + b[2]))
       [] ints /\ op = "Sub" -> Value(VInt(a[2] - b[2]))
       [] ints /\ op = "Mul" -> Value(VInt(a[2] * b[2]))
       [] ints /\ op = "Div" -> IF b[2] = 0 THEN Trap("DivisionByZero") ELSE Value(VInt(Quotient(a[2], b[2])))
       [] ints /\ op = "Rem" -> IF b[2] = 0 THEN Trap("panic") ELSE Value(VInt(Remainder(a[2], b[2])))
       [] op = "Add" /\ IsA(a, "string") /\ IsA(b, "string") -> Value(VText(a[2] \o b[2]))
       [] OTHER -> Trap("TypeMismatch")

IcmpValues(op, a, b) ==
  CASE op = "Eq" -> Value(VBool(SameValue(a, b)))
    [] op = "Ne" -> Value(VBool(~SameValue(a, b)))
    [] op \in {"Lt", "Le", "Gt", "Ge"} /\ IsA(a, "int") /\ IsA(b, "int") ->
         Value(VBool(CASE op = "Lt" -> a[2] < b[2] [] op = "Le" -> a[2] <= b[2]
                       [] op = "Gt" -> a[2] > b[2] [] op = "Ge" -> a[2] >= b[2]))
    [] OTHER -> Trap("TypeMismatch")

NegValue(v) == IF IsA(v, "int") THEN Value(VInt(-v[2])) ELSE Trap("TypeMismatch")

(* `!` of an integer is taken bit by bit.                                                *)
NotValue(v) ==
  CASE IsA(v, "bool") -> Value(VBool(~v[2]))
    [] IsA(v, "int") -> Value(VInt(-v[2] - 1))
    [] OTHER -> Trap("TypeMismatch")

(* A list literal builds a list; anything else a struct, by field names if it has any.    *)
NewAggregate(vs, names, ty) ==
  CASE ty[1] = "List" -> VList(vs)
    [] ty[1] = "Named" -> VStruct(ty[2], FoldLeft(LAMBDA acc, i : Bind(acc, names[i], vs[i]), Empty,
                                                  [i \in DOMAIN vs |-> i]))
    [] OTHER -> VStruct("unknown", FoldLeft(LAMBDA acc, i : Bind(acc, names[i], vs[i]), Empty,
                                            [i \in DOMAIN vs |-> i]))

FieldOf(v, field) == IF IsA(v, "struct") /\ field \in DOMAIN v[3] THEN v[3][field] ELSE VUnit

LengthOf(v) == VInt(IF IsA(v, "list") THEN Len(v[2]) ELSE 0)

ElementOf(v, i) ==
  IF IsA(v, "list") /\ IsA(i, "int") /\ i[2] \in 0 .. Len(v[2]) - 1 THEN v[2][i[2] + 1] ELSE VUnit

PayloadOf(v) == IF v[1] \in {"some", "ok", "err"} THEN v[2] ELSE VUnit

Unwrapped(v) ==
  CASE v[1] \in {"some", "ok"} -> Value(v[2])
    [] IsA(v, "none") -> Trap("OptionUnwrapNone")
    [] IsA(v, "err") -> Trap("ResultUnwrapErr")
    [] OTHER -> Trap("TypeMismatch")

(* ---- the machine -------------------------------------------------------------------------- *)
Top == frames[Len(frames)]
CurrentBlock == module.fns[Top.fn].blocks[Top.block]
Instr == CurrentBlock.instrs[Top.pc]
Terminator == CurrentBlock.term

Executing(instrs) == status = "running" /\ Top.pc <= Len(CurrentBlock.instrs) /\ Instr[1] \in instrs
AtEnd(terms) ==
  /\ status = "running" /\ Top.pc > Len(CurrentBlock.instrs)
  /\ Terminator # <<>> /\ Terminator[1] \in terms

Reg(r) == IF r \in DOMAIN Top.locals THEN Top.locals[r] ELSE VUnit
Regs(rs) == [i \in DOMAIN rs |-> Reg(rs[i])]

Fail(e) == status' = "failed" /\ err' = e /\ UNCHANGED <<module, frames, out>>

Put(locals, r, v) == [x \in DOMAIN locals \cup {r} |-> IF x = r THEN v ELSE locals[x]]

(* The value goes to register dst; a register the frame does not have ends the process.      *)
Set(dst, result) ==
  IF ~result.ok THEN Fail(result.err)
  ELSE IF dst >= MaxLocals THEN Fail("panic")
  ELSE /\ frames' = [frames EXCEPT ![Len(frames)].locals = Put(@, dst, result.v),
                                   ![Len(frames)].pc = @ + 1]
       /\ UNCHANGED <<module, out, status, err>>

(* Mutant: the block control came from is not noted.                                         *)
JumpUnnoted(block) ==
  /\ frames' = [frames EXCEPT ![Len(frames)] = [@ EXCEPT !.block = block, !.pc = 1]]
  /\ UNCHANGED <<module, out, status, err>>

Jump(block) ==
  /\ frames' = [frames EXCEPT ![Len(frames)] = [@ EXCEPT !.block = block, !.prev = <<Top.block>>, !.pc = 1]]
  /\ UNCHANGED <<module, out, status, err>>

NewFrame(fn, args, dst) ==
  [fn |-> fn, block |-> module.fns[fn].entry, prev |-> <<>>, pc |-> 1,
   locals |-> [i \in 0 .. Len(args) - 1 |-> args[i + 1]], dst |-> dst]

(* ---- instructions ---------------------------------------------------------------------------- *)
Loaded(instr) ==
  CASE instr[1] = "Const" -> instr[3]
    [] instr[1] = "Move" -> Reg(instr[3])
    [] instr[1] = "OptionNone" -> VNone

Load ==
  /\ Executing({"Const", "Move", "OptionNone"})
  /\ Set(Instr[2], Value(Loaded(Instr)))

Arith == Executing({"Arith"}) /\ Set(Instr[2], ArithValues(Instr[3], Reg(Instr[4]), Reg(Instr[5])))

ICmp == Executing({"ICmp"}) /\ Set(Instr[2], IcmpValues(Instr[3], Reg(Instr[4]), Reg(Instr[5])))

Unary ==
  /\ Executing({"Neg", "Not"})
  /\ Set(Instr[2], IF Instr[1] = "Neg" THEN NegValue(Reg(Instr[3])) ELSE NotValue(Reg(Instr[3])))

StructNew == Executing({"StructNew"}) /\ Set(Instr[2], Value(NewAggregate(Regs(Instr[3]), Instr[4], Instr[5])))

FieldGet == Executing({"FieldGet"}) /\ Set(Instr[2], Value(FieldOf(Reg(Instr[3]), Instr[4])))

ListLen == Executing({"ListLen"}) /\ Set(Instr[2], Value(LengthOf(Reg(Instr[3]))))

ListIndex == Executing({"ListIndex"}) /\ Set(Instr[2], Value(ElementOf(Reg(Instr[3]), Reg(Instr[4]))))

(* No value built here is an enum, and the tag of anything else is 0.                             *)
EnumTag == Executing({"EnumTag"}) /\ Set(Instr[2], Value(VInt(0)))

EnumPayload == Executing({"EnumPayload"}) /\ Set(Instr[2], Value(PayloadOf(Reg(Instr[3]))))

Wrapped(kind, v) ==
  CASE kind = "OptionSome" -> VSome(v)
    [] kind = "ResultOk" -> VOk(v)
    [] kind = "ResultErr" -> VErr(v)
    [] kind = "ToString" -> VText(Piece(v))

Wrap ==
  /\ Executing({"OptionSome", "ResultOk", "ResultErr", "ToString"})
  /\ Set(Instr[2], Value(Wrapped(Instr[1], Reg(Instr[3]))))

TryUnwrap == Executing({"TryUnwrap"}) /\ Set(Instr[2], Unwrapped(Reg(Instr[3])))

(* The value that goes with the block control came from.                                          *)
Phi ==
  /\ Executing({"Phi"})
  /\ LET from == {i \in DOMAIN Instr[3] : <<Instr[3][i][2]>> = Top.prev}
         first == CHOOSE i \in from : \A j \in from : i <= j
     IN IF from = {} THEN Fail("MalformedCfg") ELSE Set(Instr[2], Value(Reg(Instr[3][first][1])))

PrintValue ==
  /\ Executing({"Print"})
  /\ out' = Append(out, Piece(Reg(Instr[2])))
  /\ frames' = [frames EXCEPT ![Len(frames)].pc = @ + 1]
  /\ UNCHANGED <<module, status, err>>

Call ==
  /\ Executing({"Call"})
  /\ IF Instr[3] \notin DOMAIN module.fns THEN Fail("FunctionNotFound")
     ELSE /\ frames' = Append([frames EXCEPT ![Len(frames)].pc = @ + 1],
                              NewFrame(Instr[3], Regs(Instr[4]), Instr[2]))
          /\ UNCHANGED <<module, out, status, err>>

(* ---- terminators ------------------------------------------------------------------------------ *)
BranchTo == AtEnd({"Branch"}) /\ Jump(Terminator[2])

BranchOn ==
  /\ AtEnd({"CondBranch"})
  /\ Jump(IF IsTruthy(Reg(Terminator[2])) THEN Terminator[3] ELSE Terminator[4])

(* The frame goes; its value goes to the caller's register or ends the run.                       *)
Leave1(v) ==
  IF Len(frames) = 1
    THEN status' = "done" /\ frames' = <<>> /\ UNCHANGED <<module, out, err>>
    ELSE /\ frames' = [Front(frames) EXCEPT ![Len(frames) - 1].locals = Put(@, Top.dst, v)]
         /\ UNCHANGED <<module, out, status, err>>

Return == AtEnd({"Return"}) /\ Leave1(IF Terminator[2] = <<>> THEN VUnit ELSE Reg(Terminator[2][1]))

EarlyReturn == AtEnd({"EarlyReturn"}) /\ Leave1(Reg(Terminator[2]))

(* A block without a terminator ends the run as an unreachable one does.                          *)
Trapped ==
  /\ status = "running" /\ Top.pc > Len(CurrentBlock.instrs)
  /\ Terminator \in {<<>>, <<"Unreachable">>}
  /\ Fail(IF Terminator = <<>> THEN "NoTerminator" ELSE "Unreachable")

(* ---- a run -------------------------------------------------------------------------------------- *)
(* A module the compiler aborted on does not start; one without main fails at once.               *)
Start(m) ==
  /\ module = m
  /\ out = <<>>
  /\ \/ /\ ~m.ice /\ "main" \in DOMAIN m.fns
        /\ frames = <<[fn |-> "main", block |-> m.fns["main"].entry, prev |-> <<>>, pc |-> 1,
                      locals |-> Empty, dst |-> 0]>>
        /\ status = "running" /\ err = "none"
     \/ /\ m.ice \/ "main" \notin DOMAIN m.fns
        /\ frames = <<>> /\ status = "failed"
        /\ err = IF m.ice THEN "ice" ELSE "NoMainFunction"

Execute ==
  \/ Load \/ Arith \/ ICmp \/ Unary
  \/ StructNew \/ FieldGet \/ ListLen \/ ListIndex
  \/ EnumTag \/ EnumPayload \/ Wrap \/ TryUnwrap \/ Phi
  \/ PrintValue \/ Call
  \/ BranchTo \/ BranchOn \/ Return \/ EarlyReturn \/ Trapped

================================================================================
