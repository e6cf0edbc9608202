------------------------------ MODULE WinceLock ------------------------------
(***************************************************************************)
(* The emulation of LockFile()/UnlockFile() that os_win.c carries for       *)
(* Windows CE, which has no byte-range locks.  All handles open on one      *)
(* database file share a named mutex and a small named file mapping, the    *)
(* winceLock record `shared`; every handle also keeps its own record        *)
(* (winFile.local) of what it took.  One call runs under the mutex and is   *)
(* one action here; everything between two calls interleaves.               *)
(***************************************************************************)
EXTENDS Integers, FiniteSets

CONSTANTS Conn,               \* the handles (winFile) on the database file
          CrashProne,         \* the handles whose process may die
          MaxLeaked           \* bound: read locks that dead processes leave behind

ASSUME ConnAssumption == /\ IsFiniteSet(Conn)
                         /\ CrashProne \subseteq Conn
                         /\ MaxLeaked \in Nat

VARIABLES shared,             \* the mapping: a winceLock record
          local,              \* winFile.local of each handle
          mapped,             \* the handles that have the mapping open
          leaked              \* what dead processes left in the mapping (history)

tableVars == <<shared, local, mapped, leaked>>

\* One winceLock record, as ZeroMemory leaves it.
NoLocks == [nReaders |-> 0, bPending |-> FALSE,
            bReserved |-> FALSE, bExclusive |-> FALSE]

LockRecord == [nReaders : Nat, bPending : BOOLEAN,
               bReserved : BOOLEAN, bExclusive : BOOLEAN]

Reading(c) == local[c].nReaders > 0

TableInit == /\ shared = NoLocks
             /\ local = [c \in Conn |-> NoLocks]
             /\ mapped = {}
             /\ leaked = NoLocks

------------------------------------------------------------------------------
(* Opening and closing a handle, and the death of its process. *)

\* Mutant: every handle zeroes the mapping, not only the one that created it.
CreateLockAlwaysZeroes(c) ==
  /\ c \notin mapped
  /\ mapped' = mapped \cup {c}
  /\ local' = [local EXCEPT ![c] = NoLocks]
  /\ shared' = NoLocks
  /\ leaked' = leaked

\* The first handle creates the mapping and zeroes it, later ones join it.
CreateLock(c) ==
  /\ c \notin mapped
  /\ mapped' = mapped \cup {c}
  /\ local' = [local EXCEPT ![c] = NoLocks]
  /\ shared' = IF mapped = {} THEN NoLocks ELSE shared
  /\ leaked' = IF mapped = {} THEN NoLocks ELSE leaked

\* Gives back whatever the handle still holds, then leaves the mapping.
DestroyLock(c) ==
  LET mine == local[c] IN
  /\ c \in mapped
  /\ mapped' = mapped \ {c}
  /\ shared' = [nReaders   |-> shared.nReaders - (IF Reading(c) THEN 1 ELSE 0),
                bReserved  |-> shared.bReserved /\ ~mine.bReserved,
                bPending   |-> shared.bPending /\ ~mine.bPending,
                bExclusive |-> shared.bExclusive /\ ~mine.bExclusive]
  /\ local' = [local EXCEPT ![c] = NoLocks]
  /\ UNCHANGED leaked

\* The system closes the handles of a dead process and abandons its mutex, which
\* winceMutexAcquire accepts; nobody takes its locks out of the mapping.
Crash(c) ==
  LET mine == local[c] IN
  /\ c \in mapped \cap CrashProne
  /\ Reading(c) => leaked.nReaders < MaxLeaked
  /\ mapped' = mapped \ {c}
  /\ local' = [local EXCEPT ![c] = NoLocks]
  /\ leaked' = [nReaders   |-> leaked.nReaders + (IF Reading(c) THEN 1 ELSE 0),
                bReserved  |-> leaked.bReserved \/ mine.bReserved,
                bPending   |-> leaked.bPending \/ mine.bPending,
                bExclusive |-> leaked.bExclusive \/ mine.bExclusive]
  /\ UNCHANGED shared

------------------------------------------------------------------------------
(* winceLockFile: what each request needs to find in the mapping, and the   *)
(* effect of a request that finds it.                                       *)

ReadFree      == ~shared.bExclusive
PendingFree   == ~shared.bPending

\* Mutant: the readers are not looked at.
ExclusiveFreeOfWriter == ~shared.bExclusive
ExclusiveFree == shared.nReaders = 0 /\ ~shared.bExclusive

\* Mutant: the RESERVED byte is granted whoever has it.
ReservedAlwaysFree == TRUE
ReservedFree == ~shared.bReserved

LockRead(c) ==
  /\ c \in mapped
  /\ ReadFree
  /\ local' = [local EXCEPT ![c].nReaders = @ + 1]
  /\ shared' = [shared EXCEPT !.nReaders = IF Reading(c) THEN @ ELSE @ + 1]
  /\ UNCHANGED <<mapped, leaked>>

LockExclusive(c) ==
  /\ c \in mapped
  /\ ExclusiveFree
  /\ local' = [local EXCEPT ![c].bExclusive = TRUE]
  /\ shared' = [shared EXCEPT !.bExclusive = TRUE]
  /\ UNCHANGED <<mapped, leaked>>

LockPending(c) ==
  /\ c \in mapped
  /\ PendingFree
  /\ local' = [local EXCEPT ![c].bPending = TRUE]
  /\ shared' = [shared EXCEPT !.bPending = TRUE]
  /\ UNCHANGED <<mapped, leaked>>

LockReserved(c) ==
  /\ c \in mapped
  /\ ReservedFree
  /\ local' = [local EXCEPT ![c].bReserved = TRUE]
  /\ shared' = [shared EXCEPT !.bReserved = TRUE]
  /\ UNCHANGED <<mapped, leaked>>

(* winceUnlockFile: the shared range stands for the exclusive lock when the *)
(* handle has it, for one read lock otherwise; a request for what the       *)
(* handle does not hold changes nothing.                                    *)

\* Mutant: the count in the mapping goes down for a handle that is not reading.
UnlockRangeUnasked(c) ==
  /\ c \in mapped
  /\ local' = [local EXCEPT ![c].bExclusive = FALSE, ![c].nReaders = 0]
  /\ shared' = IF local[c].bExclusive THEN [shared EXCEPT !.bExclusive = FALSE]
               ELSE [shared EXCEPT !.nReaders = @ - 1]
  /\ UNCHANGED <<mapped, leaked>>

UnlockRange(c) ==
  /\ c \in mapped
  /\ \/ /\ local[c].bExclusive
        /\ local' = [local EXCEPT ![c].bExclusive = FALSE]
        /\ shared' = [shared EXCEPT !.bExclusive = FALSE]
     \/ /\ ~local[c].bExclusive
        /\ Reading(c)
        /\ local' = [local EXCEPT ![c].nReaders = @ - 1]
        /\ shared' = [shared EXCEPT !.nReaders =
                        IF local[c].nReaders = 1 THEN @ - 1 ELSE @]
     \/ /\ ~local[c].bExclusive
        /\ ~Reading(c)
        /\ UNCHANGED <<local, shared>>
  /\ UNCHANGED <<mapped, leaked>>

\* Mutant: the flag goes down even when another handle put it up.
UnlockPendingOfAnybody(c) ==
  /\ c \in mapped
  /\ local' = [local EXCEPT ![c].bPending = FALSE]
  /\ shared' = [shared EXCEPT !.bPending = FALSE]
  /\ UNCHANGED <<mapped, leaked>>

UnlockPending(c) ==
  /\ c \in mapped
  /\ local' = [local EXCEPT ![c].bPending = FALSE]
  /\ shared' = [shared EXCEPT !.bPending = @ /\ ~local[c].bPending]
  /\ UNCHANGED <<mapped, leaked>>

UnlockReserved(c) ==
  /\ c \in mapped
  /\ local' = [local EXCEPT ![c].bReserved = FALSE]
  /\ shared' = [shared EXCEPT !.bReserved = @ /\ ~local[c].bReserved]
  /\ UNCHANGED <<mapped, leaked>>

------------------------------------------------------------------------------
(* Properties of the table. *)

\* One handle acts on the table: opening, closing, dying, or one byte-lock call.
TableStep(c) == \/ CreateLock(c)   \/ DestroyLock(c)   \/ Crash(c)
                \/ LockRead(c)     \/ LockExclusive(c)
                \/ LockPending(c)  \/ LockReserved(c)
                \/ UnlockRange(c)  \/ UnlockPending(c) \/ UnlockReserved(c)

TableTypeOK == /\ shared \in LockRecord
               /\ local \in [Conn -> LockRecord]
               /\ mapped \subseteq Conn
               /\ leaked \in LockRecord

Readers == {c \in mapped : Reading(c)}

CountAccurate == shared.nReaders = Cardinality(Readers) + leaked.nReaders

FlagsAccurate ==
  /\ shared.bPending = (leaked.bPending \/ \E c \in mapped : local[c].bPending)
  /\ shared.bReserved = (leaked.bReserved \/ \E c \in mapped : local[c].bReserved)
  /\ shared.bExclusive = (leaked.bExclusive \/ \E c \in mapped : local[c].bExclusive)

\* The mapping says exactly what the handles and the dead processes hold: each
\* flag is up iff one handle (or a dead one) put it up, nReaders counts the
\* handles with a read lock.  A lost or doubled update of the two copies of every
\* lock (winFile.local and the mapping) breaks it.
TableAccurate == mapped # {} => CountAccurate /\ FlagsAccurate

\* The byte locks exclude each other as LockFile promises (os.h:199-212): one
\* holder of the PENDING byte, of the RESERVED byte and of the whole range, and no
\* reader beside the holder of the whole range.
ByteExclusion ==
  \A c, d \in mapped : c # d =>
    /\ ~(local[c].bPending /\ local[d].bPending)
    /\ ~(local[c].bReserved /\ local[d].bReserved)
    /\ ~(local[c].bExclusive /\ (local[d].bExclusive \/ Reading(d)))

\* What a dead process left behind excludes the living in the same way.
LeakExclusion ==
  \A c \in mapped :
    /\ ~(leaked.bPending /\ local[c].bPending)
    /\ ~(leaked.bReserved /\ local[c].bReserved)
    /\ ~(leaked.bExclusive /\ (local[c].bExclusive \/ Reading(c)))
    /\ local[c].bExclusive => leaked.nReaders = 0 /\ ~Reading(c)

TableInv == TableTypeOK /\ TableAccurate /\ ByteExclusion /\ LeakExclusion

\* The byte locks the table stands for.
Bytes == INSTANCE ByteLocks
           WITH readers   <- Readers,
                pending   <- {c \in mapped : local[c].bPending},
                reserved  <- {c \in mapped : local[c].bReserved},
                exclusive <- {c \in mapped : local[c].bExclusive}

\* Whatever the locking routines do with it, the emulated lock table behaves as the
\* byte locks of ByteLocks, deaths of processes included: a leaked lock can only
\* refuse what ByteLocks would grant.
ImplementsByteLocks == Bytes!Spec
==============================================================================
