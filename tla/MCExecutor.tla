----------------------------- MODULE MCExecutor -----------------------------
(***************************************************************************)
(* Instances of Executor for TLC.  Worker threads are interchangeable, so  *)
(* the safety runs (no liveness) identify states up to a permutation.      *)
(***************************************************************************)
EXTENDS Executor, TLC

ThreadSymmetry == Permutations(Tasks)

\* NOCT_WORKERS never changes.
Fixed == {}
=============================================================================
