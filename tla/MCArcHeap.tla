----------------------------- MODULE MCArcHeap ------------------------------
(***************************************************************************)
(* Instances of ArcHeap for TLC.  Variables are interchangeable.           *)
(***************************************************************************)
EXTENDS ArcHeap, TLC

NameSymmetry == Permutations(Names)
=============================================================================
