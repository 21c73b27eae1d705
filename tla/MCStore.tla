------------------------------ MODULE MCStore ------------------------------
(***************************************************************************)
(* Small instances of the content store for TLC.                           *)
(***************************************************************************)
EXTENDS Store, TLC

\* Processes that all clean, or none does, are interchangeable, and so are
\* the files of a tree.
Symmetry == Permutations(Procs) \cup Permutations(Files)

FileSymmetry == Permutations(Files)
=============================================================================
