------------------------------ MODULE AtomicFile ------------------------------
(***************************************************************************)
(* What the pagers promise their clients: the abstract specification of the *)
(* transactions on one database file.  A client in a session sees the pages *)
(* of the last commit, with its own changes.  One client at a time has      *)
(* changes; a commit makes them the content, in one step and while nobody   *)
(* else is in a session; whatever else ends a transaction (a rollback, a    *)
(* death) takes all of them back.  The promise is off for good once it is   *)
(* not sound any more.                                                      *)
(***************************************************************************)
EXTENDS Naturals

CONSTANTS Client, Page

VARIABLES content,            \* the pages, as the last commit left them
          open,               \* the clients in a session
          view,               \* what each client sees
          sound               \* nothing has gone wrong that the promise leaves out

Init == /\ content = [p \in Page |-> 0]
        /\ open = {}
        /\ view = [s \in Client |-> content]
        /\ sound = TRUE

Join(s) == /\ open' = open \cup {s}
           /\ UNCHANGED <<content, view>>

Leave(s) == /\ open' = open \ {s}
            /\ view' = [view EXCEPT ![s] = content]
            /\ UNCHANGED content

Change(s, p) == /\ s \in open
                /\ \A t \in Client \ {s} : view[t] = content
                /\ view' = [view EXCEPT ![s][p] = @ + 1]
                /\ UNCHANGED <<content, open>>

Abandon(s) == /\ view' = [view EXCEPT ![s] = content]
              /\ UNCHANGED <<content, open>>

Commit(s) == /\ open = {s}
             /\ content' = view[s]
             /\ view' = [t \in Client |-> content']
             /\ UNCHANGED open

Next == \E s \in Client :
          \/ Join(s) \/ Leave(s) \/ Abandon(s) \/ Commit(s)
          \/ \E p \in Page : Change(s, p)

Spec == Init /\ [][sound' => sound /\ Next]_<<content, open, view, sound>>
==============================================================================
