----------------------------- MODULE MCJournal -----------------------------
(* The instance of Journal that TLC checks. *)
EXTENDS Journal
=============================================================================
