--------------------------- MODULE MCProjectLock ---------------------------
(***************************************************************************)
(* Instances of ProjectLock for TLC.                                       *)
(***************************************************************************)
EXTENDS ProjectLock

CONSTANTS a, b

(* Of the two packages, a needs b. *)
ANeedsB == [n \in Names |-> IF n = a THEN {b} ELSE {}]
=============================================================================
