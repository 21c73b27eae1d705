------------------------------ MODULE TaskPool ------------------------------
(***************************************************************************)
(* What the interpreter's executor promises about the tasks of a process,  *)
(* without threads, gauges, flags or handles.  A task takes one of Cap     *)
(* slots when it starts and keeps it, ended or not, until somebody joins   *)
(* it; only an ended task is joined, and only once.  A cancel dooms a task *)
(* that still runs: it can then answer nothing but "cancelled", unless its *)
(* thread dies.  A cancel of a task that has ended is not even an event    *)
(* here: the answer given at the end is the answer for ever.               *)
(***************************************************************************)
EXTENDS Integers, FiniteSets

CONSTANTS Tasks, Cap

VARIABLES
  phase,  \* none, running, doomed, ended, joined
  answer  \* what an ended task has answered

vars == <<phase, answer>>

InSlot == {t \in Tasks : phase[t] \in {"running", "doomed", "ended"}}

Init ==
  /\ phase = [t \in Tasks |-> "none"]
  /\ answer = [t \in Tasks |-> "none"]

\* What a task may still answer in a phase.
Answers(ph) ==
  IF ph = "doomed" THEN {"cancelled", "died"}
  ELSE {"value", "lookalike", "error", "died"}

Start(t) ==
  /\ phase[t] = "none"
  /\ Cardinality(InSlot) < Cap
  /\ phase' = [phase EXCEPT ![t] = "running"]
  /\ UNCHANGED answer

Cancel(t) ==
  /\ phase[t] = "running"
  /\ phase' = [phase EXCEPT ![t] = "doomed"]
  /\ UNCHANGED answer

End(t) ==
  /\ phase[t] \in {"running", "doomed"}
  /\ phase' = [phase EXCEPT ![t] = "ended"]
  /\ \E a \in Answers(phase[t]) : answer' = [answer EXCEPT ![t] = a]

Join(t) ==
  /\ phase[t] = "ended"
  /\ phase' = [phase EXCEPT ![t] = "joined"]
  /\ UNCHANGED answer

Next == \E t \in Tasks : Start(t) \/ Cancel(t) \/ End(t) \/ Join(t)

Spec == Init /\ [][Next]_vars
=============================================================================
