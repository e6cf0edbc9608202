---------------------------- MODULE MCMultiCommit ----------------------------
(* Model-checking definitions for MultiCommit. *)
EXTENDS MultiCommit, TLC

NameSymmetry == Permutations(Name)

\* What follows a known flaw is not explored.
StillAtomic == broken = "none"
==============================================================================
