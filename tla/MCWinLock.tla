------------------------------ MODULE MCWinLock ------------------------------
(* Model-checking definitions for WinLock. *)
EXTENDS WinLock, TLC

\* Handles are interchangeable where none has a role of its own.
HandleSymmetry == Permutations(Conn)
==============================================================================
