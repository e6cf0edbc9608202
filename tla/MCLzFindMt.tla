---------------------------- MODULE MCLzFindMt ----------------------------
(* The instance of LzFindMt that TLC checks. *)
EXTENDS LzFindMt
=============================================================================
