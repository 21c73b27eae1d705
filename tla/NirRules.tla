-------------------------------- MODULE NirRules --------------------------------
(* The rules the lowering must keep (docs/NIR.md, 4.1) and what they are for:   *)
(* how a module that keeps them runs.                                           *)
(*                                                                              *)
(* Nothing in the compiler checks the rules.  The machine meets most breaches   *)
(* without an error: a register never written reads as unit (vm.rs, get_value). *)
EXTENDS NirVm

(* ---- the rules of a module m ------------------------------------------------------ *)
Fns(m) == DOMAIN m.fns
Blocks(m, f) == m.fns[f].blocks
Entry(m, f) == m.fns[f].entry
Own(m, f) == 0 .. m.fns[f].registers - 1
Instrs(m, f, b) == Blocks(m, f)[b].instrs

CodeIsThere(m) ==
  \A f \in Fns(m) :
    /\ m.fns[f].registers \in Nat
    /\ Entry(m, f) \in DOMAIN Blocks(m, f)
    /\ \A b \in DOMAIN Blocks(m, f) :
         Len(Instrs(m, f, b)) \in Nat /\ DOMAIN Instrs(m, f, b) = 1 .. Len(Instrs(m, f, b))

Targets(term) ==
  IF term[1] = "Branch" THEN {term[2]}
  ELSE IF term[1] = "CondBranch" THEN {term[3], term[4]} ELSE {}

Leads(m, f, p, b) == b \in Targets(Blocks(m, f)[p].term)

(* Every block ends in a terminator, dead ones too, and every branch leads to a     *)
(* block of the same function (rule 1).                                            *)
BlocksTerminated(m) ==
  \A f \in Fns(m) : \A b \in DOMAIN Blocks(m, f) :
    LET term == Blocks(m, f)[b].term
    IN /\ term # <<>> /\ term[1] \in {"Branch", "CondBranch", "Return", "EarlyReturn", "Unreachable"}
       /\ Targets(term) \subseteq DOMAIN Blocks(m, f)

(* The sources of a Phi include every block control can come from; control enters   *)
(* a function from no block (rule 10).                                             *)
PhisCoverPredecessors(m) ==
  \A f \in Fns(m) : \A b \in DOMAIN Blocks(m, f) : \A i \in DOMAIN Instrs(m, f, b) :
    LET instr == Instrs(m, f, b)[i]
    IN instr[1] = "Phi" =>
         /\ b # Entry(m, f)
         /\ \A p \in DOMAIN Blocks(m, f) :
              Leads(m, f, p, b) => \E j \in DOMAIN instr[3] : instr[3][j][2] = p

(* The register an instruction writes.                                             *)
Written(instr) == IF instr[1] = "Print" THEN {} ELSE {instr[2]}
WrittenUpTo(instrs, n) == UNION {Written(instrs[i]) : i \in 1 .. n}
WrittenIn(m, f, b) == WrittenUpTo(Instrs(m, f, b), Len(Instrs(m, f, b)))

(* A function's registers suffice for what it writes and for its arguments.         *)
RegistersSuffice(m) ==
  \A f \in Fns(m) : \A b \in DOMAIN Blocks(m, f) : \A i \in DOMAIN Instrs(m, f, b) :
    LET instr == Instrs(m, f, b)[i]
    IN /\ Written(instr) \subseteq Own(m, f)
       /\ instr[1] = "Call" =>
            /\ Len(instr[4]) \in Nat /\ DOMAIN instr[4] = 1 .. Len(instr[4])
            /\ instr[3] \in Fns(m) => Len(instr[4]) <= m.fns[instr[3]].registers

(* The registers an instruction or a terminator reads; a Phi only those of the      *)
(* block control came from.                                                        *)
Operands(instr, prev) ==
  IF instr[1] \in {"Move", "OptionSome", "ResultOk", "ResultErr", "ToString", "Neg", "Not", "FieldGet",
                   "ListLen", "EnumTag", "EnumPayload", "TryUnwrap"} THEN {instr[3]}
  ELSE IF instr[1] \in {"Arith", "ICmp"} THEN {instr[4], instr[5]}
  ELSE IF instr[1] = "ListIndex" THEN {instr[3], instr[4]}
  ELSE IF instr[1] = "StructNew" THEN Range(instr[3])
  ELSE IF instr[1] = "Call" THEN Range(instr[4])
  ELSE IF instr[1] \in {"Print", "CondBranch", "EarlyReturn"} THEN {instr[2]}
  ELSE IF instr[1] = "Return" THEN Range(instr[2])
  ELSE IF instr[1] = "Phi" THEN {instr[3][i][1] : i \in {j \in DOMAIN instr[3] : <<instr[3][j][2]>> = prev}}
  ELSE {}

(* The registers every call of a function fills; the run starts main without any.   *)
Calls(f, instr) == instr[1] = "Call" /\ instr[3] = f
Passed(m, f) ==
  {r \in Own(m, f) : f # "main" /\
     \A g \in Fns(m) : \A b \in DOMAIN Blocks(m, g) : \A i \in DOMAIN Instrs(m, g, b) :
       Calls(f, Instrs(m, g, b)[i]) => r < Len(Instrs(m, g, b)[i][4])}

(* The registers written on every path to each block: from all registers on, a      *)
(* block keeps those its predecessors have.  Passes rounds over the blocks settle    *)
(* the functions run here; too few of them could only fail Justified.               *)
Passes == 4
Assigned(m, f) ==
  LET blocks == Blocks(m, f)
      kept(at, b) == {r \in at[b] : \A p \in DOMAIN blocks : Leads(m, f, p, b) => r \in at[p] \cup WrittenIn(m, f, p)}
      round(at) == MapThenFoldSet(LAMBDA b, acc : [acc EXCEPT ![b] = kept(acc, b)], at, LAMBDA b : b,
                                  LAMBDA bs : Max(bs), DOMAIN blocks)
      all == [b \in DOMAIN blocks |-> IF b = Entry(m, f) THEN Passed(m, f) ELSE Own(m, f)]
  IN FoldLeft(LAMBDA at, i : round(at), all, [i \in 1 .. Passes |-> i])

(* What at says is written when a block starts is written, and suffices for what    *)
(* the block reads: what at says, what was written on the way from the block        *)
(* before, and what the block has written so far.                                   *)
Ready(m, f, at, b) ==
  \A i \in 1 .. Len(Instrs(m, f, b)) + 1 :
    LET instr == IF i \in DOMAIN Instrs(m, f, b) THEN Instrs(m, f, b)[i] ELSE Blocks(m, f)[b].term
    IN instr[1] # "Phi" => Operands(instr, <<>>) \subseteq at[b] \cup WrittenUpTo(Instrs(m, f, b), i - 1)

Handed(m, f, at, p) == at[p] \cup WrittenIn(m, f, p)

ReadyFrom(m, f, at, p, b) ==
  /\ at[b] \subseteq Handed(m, f, at, p)
  /\ \A i \in DOMAIN Instrs(m, f, b) :
       LET instr == Instrs(m, f, b)[i]
       IN instr[1] = "Phi" =>
            Operands(instr, <<p>>) \subseteq Handed(m, f, at, p) \cup WrittenUpTo(Instrs(m, f, b), i - 1)

Justified(m, f, at) ==
  /\ at[Entry(m, f)] \subseteq Passed(m, f)
  /\ \A b \in DOMAIN Blocks(m, f) :
       /\ Ready(m, f, at, b)
       /\ \A p \in DOMAIN Blocks(m, f) : Leads(m, f, p, b) => ReadyFrom(m, f, at, p, b)

(* No function reads a register that some path to the read has not written.         *)
DefinitelyAssigned(m) == \A f \in Fns(m) : \E at \in {Assigned(m, f)} : Justified(m, f, at)

WellFormed(m) ==
  /\ CodeIsThere(m)
  /\ BlocksTerminated(m)
  /\ PhisCoverPredecessors(m)
  /\ RegistersSuffice(m)
  /\ DefinitelyAssigned(m)

(* ---- how such a module runs ------------------------------------------------------- *)
VmRun == Start(module) /\ [][Execute]_vmVars

FramesWithinCode ==
  /\ status \in {"running", "done", "failed"}
  /\ (status = "failed") = (err # "none")
  /\ status = "running" =>
       /\ frames # <<>>
       /\ \A i \in DOMAIN frames :
            /\ frames[i].fn \in Fns(module)
            /\ frames[i].block \in DOMAIN Blocks(module, frames[i].fn)
            /\ DOMAIN frames[i].locals \subseteq Own(module, frames[i].fn)

ReadsWhatWasWritten ==
  status = "running" =>
    Operands(IF Top.pc <= Len(CurrentBlock.instrs) THEN Instr ELSE Terminator, Top.prev) \subseteq DOMAIN Top.locals

MeetsNoBreach ==
  FramesWithinCode /\ err \notin {"MalformedCfg", "NoTerminator"} /\ ReadsWhatWasWritten

(* The run of a module that keeps the rules stays within the code, meets no block    *)
(* without a terminator and no Phi without its source, and reads no register that    *)
(* was not written before in the same frame: what the rules are for.                *)
RunsCleanly == MeetsNoBreach \/ ~WellFormed(module)
=================================================================================
