----------------------------- MODULE AtomicCommit -----------------------------
(***************************************************************************)
(* What a transaction on several database files promises: the abstract      *)
(* specification of vdbeCommit.  The client changes its draft of any file;  *)
(* a commit gives every file its draft in one step; whatever else ends the  *)
(* transaction (a rollback, a death) takes every draft back.                *)
(***************************************************************************)
EXTENDS Naturals

CONSTANT File

VARIABLES value,              \* what the database files hold, for every reader
          draft               \* what the client sees

Init == /\ value = [f \in File |-> 0]
        /\ draft = value

Change(f) == /\ draft' = [draft EXCEPT ![f] = @ + 1]
             /\ UNCHANGED value

Commit == /\ value' = draft
          /\ UNCHANGED draft

Abandon == /\ draft' = value
           /\ UNCHANGED value

Next == Commit \/ Abandon \/ \E f \in File : Change(f)

Spec == Init /\ [][Next]_<<value, draft>>
==============================================================================
