------------------------------ MODULE ByteLocks ------------------------------
(***************************************************************************)
(* What the byte locks of a database file promise: the abstract           *)
(* specification of the LockFile()/UnlockFile() API that os_win.c builds    *)
(* the SQLite locking protocol on.  os.h (File Locking Notes) names four    *)
(* lockable things: the read range (shared), the whole range (exclusive),   *)
(* the PENDING byte and the RESERVED byte.  Each is the set of handles that *)
(* hold it.                                                                 *)
(***************************************************************************)
CONSTANT Conn                 \* the open file handles

VARIABLES readers,            \* handles that hold a read lock
          pending,            \* handles that hold the PENDING byte
          reserved,           \* handles that hold the RESERVED byte
          exclusive           \* handles that hold the whole shared range

lockVars == <<readers, pending, reserved, exclusive>>

Init == /\ readers = {}
        /\ pending = {}
        /\ reserved = {}
        /\ exclusive = {}

TakeRead(c) == /\ exclusive = {}
               /\ readers' = readers \cup {c}
               /\ UNCHANGED <<pending, reserved, exclusive>>

TakeExclusive(c) == /\ readers = {}
                    /\ exclusive = {}
                    /\ exclusive' = {c}
                    /\ UNCHANGED <<readers, pending, reserved>>

TakePending(c) == /\ pending = {}
                  /\ pending' = {c}
                  /\ UNCHANGED <<readers, reserved, exclusive>>

TakeReserved(c) == /\ reserved = {}
                   /\ reserved' = {c}
                   /\ UNCHANGED <<readers, pending, exclusive>>

\* A handle gives back one lock, never a lock of somebody else.
DropRange(c) == /\ readers' = readers \ {c}
                /\ exclusive' = exclusive \ {c}
                /\ UNCHANGED <<pending, reserved>>

DropPending(c) == /\ pending' = pending \ {c}
                  /\ UNCHANGED <<readers, reserved, exclusive>>

DropReserved(c) == /\ reserved' = reserved \ {c}
                   /\ UNCHANGED <<readers, pending, exclusive>>

\* A handle is closed, or its process dies: whatever it held is gone.
DropAll(c) == /\ readers' = readers \ {c}
              /\ pending' = pending \ {c}
              /\ reserved' = reserved \ {c}
              /\ exclusive' = exclusive \ {c}

Next == \E c \in Conn : \/ TakeRead(c)     \/ TakeExclusive(c)
                        \/ TakePending(c)  \/ TakeReserved(c)
                        \/ DropRange(c)    \/ DropPending(c)
                        \/ DropReserved(c) \/ DropAll(c)

Spec == Init /\ [][Next]_lockVars
==============================================================================
