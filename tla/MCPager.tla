------------------------------- MODULE MCPager -------------------------------
(* Model-checking definitions for Pager. *)
EXTENDS Pager, TLC

ConnSymmetry == Permutations(Conn)

\* A pager that goes on without its lock, until it has ended its transaction: it comes to
\* the level EXCLUSIVE without the RESERVED byte.
GoesOn(c) == \/ pstate[c] = PAGER_UNLOCK /\ (JournalOpen(c) \/ at[c] = "create")
             \/ locktype[c] >= PENDING_LOCK /\ ~local[c].bReserved

\* The first transactions on the file, each of which changes a page once.
Early == \A p \in Page : committed[p] = 0 /\ \A c \in Conn : cache[c][p] < 2

\* What follows a known flaw is not explored, but for the transaction of a pager that
\* goes on without its lock: it is checked to its end, where it is an early one and meets
\* no lock of a dead process.
StillSound == \/ broken = "none"
              \/ /\ broken = "unlocked" /\ \E c \in Conn : GoesOn(c)
                 /\ leaked = NoLocks /\ Early

\* Nor is what follows the last commit that MaxVersion allows, or the death of a process
\* that leaves locks behind in a transaction that is not an early one.
Explored == /\ StillSound
            /\ committed[Page1] < MaxVersion
            /\ leaked # NoLocks => Early
==============================================================================
