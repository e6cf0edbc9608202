---------------------------- MODULE WinLockProofs ----------------------------
(***************************************************************************)
(* Proofs about the locks, for any number of handles. First the lock table  *)
(* of WinceLock: every step of every handle keeps the table accurate and    *)
(* its locks exclusive, whatever routines call it and whoever dies, and is  *)
(* a step of ByteLocks. Then winLock, winUnlock and winCheckReservedLock:   *)
(* the inductive invariant LockInv, and from it the exclusion of writers,   *)
(* the backing of every lock level by byte locks, the PENDING promise to    *)
(* waiting writers, and the implementation of ByteLocks.                    *)
(***************************************************************************)
EXTENDS WinLock, FiniteSetTheorems, TLAPS

\* The table of locks.

\* The count of readers is a natural number, positive while somebody reads, and
\* goes up and down with the set (nReaders of the winceLock mapping).
LEMMA ReadersCount ==
  ASSUME TableTypeOK
  PROVE  /\ IsFiniteSet(Readers)
         /\ Cardinality(Readers) \in Nat
         /\ (Cardinality(Readers) = 0) = (Readers = {})
         /\ \A c \in Readers : Cardinality(Readers \ {c}) = Cardinality(Readers) - 1
         /\ \A c : c \notin Readers =>
              /\ Cardinality(Readers \cup {c}) = Cardinality(Readers) + 1
              /\ Readers \ {c} = Readers
<1>1. Readers \subseteq Conn
  BY DEF TableTypeOK, Readers
<1>2. IsFiniteSet(Readers)
  BY <1>1, ConnAssumption, FS_Subset
<1>3. Cardinality(Readers) \in Nat
  BY <1>2, FS_CardinalityType
<1>4. (Cardinality(Readers) = 0) = (Readers = {})
  BY <1>2, FS_EmptySet
<1>5. \A c \in Readers : Cardinality(Readers \ {c}) = Cardinality(Readers) - 1
  BY <1>2, FS_RemoveElement
<1>6. \A c : c \notin Readers => Cardinality(Readers \cup {c}) = Cardinality(Readers) + 1
  BY <1>2, FS_AddElement
<1>7. \A c : c \notin Readers => Readers \ {c} = Readers
  OBVIOUS
<1> QED
  BY <1>2, <1>3, <1>4, <1>5, <1>6, <1>7

\* A handle that joins the mapping: the first one finds it zeroed, a later one adds
\* nothing to it.  (winceCreateLock)
LEMMA CreateLockKeeps ==
  ASSUME TableInv, NEW c \in Conn, CreateLock(c)
  PROVE  TableInv'
<1> USE DEF TableInv, CreateLock, TableTypeOK
<1>1. TableTypeOK'
  BY DEF LockRecord, NoLocks
<1>2. ByteExclusion' /\ LeakExclusion'
  BY DEF ByteExclusion, LeakExclusion, LockRecord, NoLocks, Reading
<1>3. Readers' = Readers
  BY DEF Readers, Reading, LockRecord, NoLocks
<1>4. TableAccurate'
  <2>1. CASE mapped = {}
    <3>1. Readers = {}
      BY <2>1 DEF Readers
    <3>2. CountAccurate'
      BY <2>1, <3>1, <1>3, FS_EmptySet DEF CountAccurate, NoLocks
    <3>3. FlagsAccurate'
      BY <2>1 DEF FlagsAccurate, NoLocks
    <3> QED
      BY <3>2, <3>3 DEF TableAccurate
  <2>2. CASE mapped # {}
    <3>1. CountAccurate'
      BY <2>2, <1>3 DEF CountAccurate, TableAccurate
    <3>2. FlagsAccurate'
      BY <2>2 DEF FlagsAccurate, TableAccurate, NoLocks
    <3> QED
      BY <3>1, <3>2 DEF TableAccurate
  <2> QED
    BY <2>1, <2>2
<1> QED
  BY <1>1, <1>2, <1>4 DEF TableInv

\* A handle that leaves takes exactly its own locks with it.  (winceDestroyLock)
LEMMA DestroyLockKeeps ==
  ASSUME TableInv, NEW c \in Conn, DestroyLock(c)
  PROVE  TableInv'
<1> USE DEF TableInv, DestroyLock, TableTypeOK
<1>1. Readers' = Readers \ {c}
  BY DEF Readers, Reading, LockRecord, NoLocks
<1>2. c \in Readers <=> Reading(c)
  BY DEF Readers
<1>3. CountAccurate /\ FlagsAccurate
  BY DEF TableAccurate
<1>4. CountAccurate' /\ shared'.nReaders \in Nat
  <2>1. Cardinality(Readers) \in Nat /\ leaked.nReaders \in Nat
    BY ReadersCount DEF LockRecord
  <2>2. shared'.nReaders = shared.nReaders - (IF Reading(c) THEN 1 ELSE 0)
    OBVIOUS
  <2>3. CASE Reading(c)
    <3>1. Cardinality(Readers') = Cardinality(Readers) - 1 /\ Cardinality(Readers) # 0
      BY <1>1, <1>2, <2>3, ReadersCount
    <3> QED
      BY <1>3, <2>1, <2>2, <2>3, <3>1 DEF CountAccurate
  <2>4. CASE ~Reading(c)
    <3>1. Readers' = Readers
      BY <1>1, <1>2, <2>4
    <3> QED
      BY <1>3, <2>1, <2>2, <2>4, <3>1 DEF CountAccurate
  <2> QED
    BY <2>3, <2>4
<1>5. TableTypeOK'
  BY <1>4 DEF LockRecord, NoLocks
<1>6. FlagsAccurate'
  BY <1>3 DEF FlagsAccurate, ByteExclusion, LeakExclusion, LockRecord, NoLocks
<1>7. ByteExclusion' /\ LeakExclusion'
  BY DEF ByteExclusion, LeakExclusion, LockRecord, NoLocks, Reading
<1> QED
  BY <1>4, <1>5, <1>6, <1>7 DEF TableAccurate

\* A process that dies turns its locks into leaked ones.
LEMMA CrashKeeps ==
  ASSUME TableInv, NEW c \in Conn, Crash(c)
  PROVE  TableInv'
<1> USE DEF TableInv, Crash, TableTypeOK
<1>1. Readers' = Readers \ {c}
  BY DEF Readers, Reading, LockRecord, NoLocks
<1>2. c \in Readers <=> Reading(c)
  BY DEF Readers
<1>3. CountAccurate /\ FlagsAccurate
  BY DEF TableAccurate
<1>4. TableTypeOK'
  BY DEF LockRecord, NoLocks
<1>5. CountAccurate'
  <2>1. Cardinality(Readers) \in Nat /\ leaked.nReaders \in Nat
    BY ReadersCount DEF LockRecord
  <2>2. leaked'.nReaders = leaked.nReaders + (IF Reading(c) THEN 1 ELSE 0)
    OBVIOUS
  <2>3. CASE Reading(c)
    <3>1. Cardinality(Readers') = Cardinality(Readers) - 1
      BY <1>1, <1>2, <2>3, ReadersCount
    <3> QED
      BY <1>3, <2>1, <2>2, <2>3, <3>1 DEF CountAccurate
  <2>4. CASE ~Reading(c)
    <3>1. Readers' = Readers
      BY <1>1, <1>2, <2>4
    <3> QED
      BY <1>3, <2>1, <2>2, <2>4, <3>1 DEF CountAccurate
  <2> QED
    BY <2>3, <2>4
<1>6. FlagsAccurate'
  BY <1>3 DEF FlagsAccurate, LockRecord, NoLocks
<1>7. ByteExclusion' /\ LeakExclusion'
  BY DEF ByteExclusion, LeakExclusion, LockRecord, NoLocks, Reading
<1> QED
  BY <1>4, <1>5, <1>6, <1>7 DEF TableAccurate

\* A read lock is granted only while nobody has the whole range.
LEMMA LockReadKeeps ==
  ASSUME TableInv, NEW c \in Conn, LockRead(c)
  PROVE  TableInv'
<1> USE DEF TableInv, LockRead, TableTypeOK
<1>1. CountAccurate /\ FlagsAccurate
  BY DEF TableAccurate
<1>2. TableTypeOK'
  BY DEF LockRecord
<1>3. Readers' = Readers \cup {c}
  BY DEF Readers, Reading, LockRecord
<1>4. CountAccurate'
  <2>1. Cardinality(Readers) \in Nat /\ leaked.nReaders \in Nat /\ shared \in LockRecord
    BY ReadersCount DEF LockRecord
  <2>2. CASE Reading(c)
    <3>1. Readers' = Readers
      BY <1>3, <2>2 DEF Readers
    <3> QED
      BY <1>1, <2>1, <2>2, <3>1 DEF CountAccurate, LockRecord
  <2>3. CASE ~Reading(c)
    <3>1. Cardinality(Readers') = Cardinality(Readers) + 1
      BY <1>3, <2>3, ReadersCount DEF Readers
    <3> QED
      BY <1>1, <2>1, <2>3, <3>1 DEF CountAccurate, LockRecord
  <2> QED
    BY <2>2, <2>3
<1>5. FlagsAccurate'
  BY <1>1 DEF FlagsAccurate, LockRecord
<1>6. ByteExclusion' /\ LeakExclusion'
  BY <1>1 DEF FlagsAccurate, ByteExclusion, LeakExclusion, LockRecord, Reading, ReadFree
<1> QED
  BY <1>2, <1>4, <1>5, <1>6 DEF TableAccurate

\* The whole range is granted only while the count says that nobody reads.
LEMMA LockExclusiveKeeps ==
  ASSUME TableInv, NEW c \in Conn, LockExclusive(c)
  PROVE  TableInv' /\ Readers = {}
<1> USE DEF TableInv, LockExclusive, TableTypeOK
<1>1. CountAccurate /\ FlagsAccurate
  BY DEF TableAccurate
<1>2. TableTypeOK'
  BY DEF LockRecord
<1>3. Readers' = Readers
  BY DEF Readers, Reading, LockRecord
<1>4. CountAccurate'
  BY <1>1, <1>3 DEF CountAccurate, LockRecord
<1>5. FlagsAccurate'
  BY <1>1 DEF FlagsAccurate, LockRecord
<1>6. Readers = {} /\ leaked.nReaders = 0
  <2>1. Cardinality(Readers) \in Nat /\ leaked.nReaders \in Nat
    BY ReadersCount DEF LockRecord
  <2>2. Cardinality(Readers) = 0 /\ leaked.nReaders = 0
    BY <1>1, <2>1 DEF CountAccurate, ExclusiveFree
  <2> QED
    BY <2>2, ReadersCount
<1>7. \A d \in mapped : ~Reading(d)
  BY <1>6 DEF Readers
<1>8. ByteExclusion' /\ LeakExclusion'
  BY <1>1, <1>6, <1>7
  DEF FlagsAccurate, ByteExclusion, LeakExclusion, LockRecord, Reading, ExclusiveFree
<1> QED
  BY <1>2, <1>4, <1>5, <1>6, <1>8 DEF TableAccurate

\* The PENDING byte is granted only while its flag is down.
LEMMA LockPendingKeeps ==
  ASSUME TableInv, NEW c \in Conn, LockPending(c)
  PROVE  TableInv'
<1> USE DEF TableInv, LockPending, TableTypeOK
<1>1. CountAccurate /\ FlagsAccurate
  BY DEF TableAccurate
<1>2. TableTypeOK'
  BY DEF LockRecord
<1>3. Readers' = Readers
  BY DEF Readers, Reading, LockRecord
<1>4. CountAccurate'
  BY <1>1, <1>3 DEF CountAccurate, LockRecord
<1>5. FlagsAccurate'
  BY <1>1 DEF FlagsAccurate, ByteExclusion, LeakExclusion, LockRecord
<1>6. ByteExclusion' /\ LeakExclusion'
  BY <1>1 DEF FlagsAccurate, ByteExclusion, LeakExclusion, LockRecord, Reading, PendingFree
<1> QED
  BY <1>2, <1>4, <1>5, <1>6 DEF TableAccurate

\* The RESERVED byte is granted only while its flag is down.
LEMMA LockReservedKeeps ==
  ASSUME TableInv, NEW c \in Conn, LockReserved(c)
  PROVE  TableInv'
<1> USE DEF TableInv, LockReserved, TableTypeOK
<1>1. CountAccurate /\ FlagsAccurate
  BY DEF TableAccurate
<1>2. TableTypeOK'
  BY DEF LockRecord
<1>3. Readers' = Readers
  BY DEF Readers, Reading, LockRecord
<1>4. CountAccurate'
  BY <1>1, <1>3 DEF CountAccurate, LockRecord
<1>5. FlagsAccurate'
  BY <1>1 DEF FlagsAccurate, ByteExclusion, LeakExclusion, LockRecord
<1>6. ByteExclusion' /\ LeakExclusion'
  BY <1>1 DEF FlagsAccurate, ByteExclusion, LeakExclusion, LockRecord, Reading, ReservedFree
<1> QED
  BY <1>2, <1>4, <1>5, <1>6 DEF TableAccurate

\* A handle lowers the PENDING flag only when it raised it.
LEMMA UnlockPendingKeeps ==
  ASSUME TableInv, NEW c \in Conn, UnlockPending(c)
  PROVE  TableInv'
<1> USE DEF TableInv, UnlockPending, TableTypeOK
<1>1. CountAccurate /\ FlagsAccurate
  BY DEF TableAccurate
<1>2. TableTypeOK'
  BY DEF LockRecord
<1>3. Readers' = Readers
  BY DEF Readers, Reading, LockRecord
<1>4. CountAccurate'
  BY <1>1, <1>3 DEF CountAccurate, LockRecord
<1>5. FlagsAccurate'
  BY <1>1 DEF FlagsAccurate, ByteExclusion, LeakExclusion, LockRecord
<1>6. ByteExclusion' /\ LeakExclusion'
  BY <1>1 DEF FlagsAccurate, ByteExclusion, LeakExclusion, LockRecord, Reading
<1> QED
  BY <1>2, <1>4, <1>5, <1>6 DEF TableAccurate

\* A handle lowers the RESERVED flag only when it raised it.
LEMMA UnlockReservedKeeps ==
  ASSUME TableInv, NEW c \in Conn, UnlockReserved(c)
  PROVE  TableInv'
<1> USE DEF TableInv, UnlockReserved, TableTypeOK
<1>1. CountAccurate /\ FlagsAccurate
  BY DEF TableAccurate
<1>2. TableTypeOK'
  BY DEF LockRecord
<1>3. Readers' = Readers
  BY DEF Readers, Reading, LockRecord
<1>4. CountAccurate'
  BY <1>1, <1>3 DEF CountAccurate, LockRecord
<1>5. FlagsAccurate'
  BY <1>1 DEF FlagsAccurate, ByteExclusion, LeakExclusion, LockRecord
<1>6. ByteExclusion' /\ LeakExclusion'
  BY <1>1 DEF FlagsAccurate, ByteExclusion, LeakExclusion, LockRecord, Reading
<1> QED
  BY <1>2, <1>4, <1>5, <1>6 DEF TableAccurate

\* Giving back the shared range takes away the exclusive lock of this handle, or one
\* of its read locks, or nothing.
LEMMA UnlockRangeKeeps ==
  ASSUME TableInv, NEW c \in Conn, UnlockRange(c)
  PROVE  TableInv'
<1> USE DEF TableInv, UnlockRange, TableTypeOK
<1>1. CountAccurate /\ FlagsAccurate
  BY DEF TableAccurate
<1>2. Cardinality(Readers) \in Nat /\ leaked.nReaders \in Nat /\ shared.nReaders \in Nat
  BY ReadersCount DEF LockRecord
<1>3. CASE local[c].bExclusive
  <2>1. /\ local' = [local EXCEPT ![c].bExclusive = FALSE]
        /\ shared' = [shared EXCEPT !.bExclusive = FALSE]
        /\ UNCHANGED <<mapped, leaked>>
    BY <1>3
  <2>2. TableTypeOK'
    BY <2>1 DEF LockRecord
  <2>3. Readers' = Readers
    BY <2>1 DEF Readers, Reading, LockRecord
  <2>4. CountAccurate'
    BY <1>1, <2>1, <2>3 DEF CountAccurate, LockRecord
  <2>5. FlagsAccurate'
    BY <1>1, <1>3, <2>1 DEF FlagsAccurate, ByteExclusion, LeakExclusion, LockRecord
  <2>6. ByteExclusion' /\ LeakExclusion'
    BY <2>1 DEF ByteExclusion, LeakExclusion, LockRecord, Reading
  <2> QED
    BY <2>2, <2>4, <2>5, <2>6 DEF TableAccurate
<1>4. CASE ~local[c].bExclusive /\ Reading(c)
  <2>1. /\ local' = [local EXCEPT ![c].nReaders = @ - 1]
        /\ shared' = [shared EXCEPT !.nReaders =
                        IF local[c].nReaders = 1 THEN @ - 1 ELSE @]
        /\ UNCHANGED <<mapped, leaked>>
    BY <1>4
  <2>2. local[c].nReaders \in Nat /\ local[c].nReaders > 0 /\ c \in Readers
    BY <1>4 DEF Readers, Reading, LockRecord
  <2>3. local' \in [Conn -> LockRecord]
    BY <2>1, <2>2 DEF LockRecord
  <2>4. CountAccurate' /\ shared' \in LockRecord
    <3>1. CASE local[c].nReaders = 1
      <4>1. Readers' = Readers \ {c}
        BY <2>1, <3>1 DEF Readers, Reading, LockRecord
      <4>2. Cardinality(Readers') = Cardinality(Readers) - 1 /\ Cardinality(Readers) # 0
        BY <4>1, <2>2, ReadersCount
      <4>3. shared'.nReaders = shared.nReaders - 1
        BY <2>1, <3>1 DEF LockRecord
      <4>4. CountAccurate' /\ shared'.nReaders \in Nat
        BY <1>1, <1>2, <2>1, <4>2, <4>3 DEF CountAccurate
      <4> QED
        BY <2>1, <4>4 DEF LockRecord
    <3>2. CASE local[c].nReaders # 1
      <4>1. Readers' = Readers
        BY <2>1, <2>2, <3>2 DEF Readers, Reading, LockRecord
      <4>2. shared' = shared
        BY <2>1, <3>2 DEF LockRecord
      <4> QED
        BY <1>1, <2>1, <4>1, <4>2 DEF CountAccurate
    <3> QED
      BY <3>1, <3>2
  <2>5. FlagsAccurate'
    BY <1>1, <2>1 DEF FlagsAccurate, LockRecord
  <2>6. ByteExclusion' /\ LeakExclusion'
    BY <2>1, <2>2 DEF ByteExclusion, LeakExclusion, LockRecord, Reading
  <2> QED
    BY <2>1, <2>3, <2>4, <2>5, <2>6 DEF TableAccurate
<1>5. CASE ~local[c].bExclusive /\ ~Reading(c)
  <2>1. UNCHANGED tableVars
    BY <1>5 DEF tableVars
  <2> QED
    BY <2>1 DEF tableVars, TableAccurate, CountAccurate, FlagsAccurate, ByteExclusion,
                LeakExclusion, Readers, Reading
<1> QED
  BY <1>3, <1>4, <1>5

\* Whatever one handle does with the table, the table stays accurate and its locks
\* exclusive.
THEOREM TableInvStep ==
  ASSUME TableInv, NEW c \in Conn, TableStep(c)
  PROVE  TableInv'
<1>1. CASE CreateLock(c)
  BY <1>1, CreateLockKeeps
<1>2. CASE DestroyLock(c)
  BY <1>2, DestroyLockKeeps
<1>3. CASE Crash(c)
  BY <1>3, CrashKeeps
<1>4. CASE LockRead(c)
  BY <1>4, LockReadKeeps
<1>5. CASE LockExclusive(c)
  BY <1>5, LockExclusiveKeeps
<1>6. CASE LockPending(c)
  BY <1>6, LockPendingKeeps
<1>7. CASE LockReserved(c)
  BY <1>7, LockReservedKeeps
<1>8. CASE UnlockRange(c)
  BY <1>8, UnlockRangeKeeps
<1>9. CASE UnlockPending(c)
  BY <1>9, UnlockPendingKeeps
<1>10. CASE UnlockReserved(c)
  BY <1>10, UnlockReservedKeeps
<1> QED
  BY <1>1, <1>2, <1>3, <1>4, <1>5, <1>6, <1>7, <1>8, <1>9, <1>10 DEF TableStep

------------------------------------------------------------------------------
(* The table implements ByteLocks, one call at a time. *)

Pendings   == {d \in mapped : local[d].bPending}
Reserveds  == {d \in mapped : local[d].bReserved}
Exclusives == {d \in mapped : local[d].bExclusive}

\* A flag that is down says that no living handle holds the lock.
LEMMA FlagDown ==
  ASSUME TableInv, mapped # {}
  PROVE  /\ ~shared.bPending => Pendings = {}
         /\ ~shared.bReserved => Reserveds = {}
         /\ ~shared.bExclusive => Exclusives = {}
BY DEF TableInv, TableAccurate, FlagsAccurate, Pendings, Reserveds, Exclusives

\* Every step of a handle on the table is the step of ByteLocks that takes or drops
\* the same lock of the same handle, or changes nothing there.  (winceLockFile,
\* winceUnlockFile, winceCreateLock, winceDestroyLock)
THEOREM BytesStep ==
  ASSUME TableInv, NEW c \in Conn, TableStep(c)
  PROVE  Bytes!Next \/ UNCHANGED Bytes!lockVars
<1> USE DEF TableInv, TableTypeOK
<1> SUFFICES \/ Bytes!TakeRead(c)    \/ Bytes!TakeExclusive(c)
             \/ Bytes!TakePending(c) \/ Bytes!TakeReserved(c)
             \/ Bytes!DropRange(c)   \/ Bytes!DropPending(c)
             \/ Bytes!DropReserved(c) \/ Bytes!DropAll(c)
             \/ UNCHANGED <<Readers, Pendings, Reserveds, Exclusives>>
  BY DEF Bytes!Next, Bytes!lockVars, Pendings, Reserveds, Exclusives
<1> USE DEF Pendings, Reserveds, Exclusives
<1>1. CASE CreateLock(c)
  BY <1>1 DEF CreateLock, Readers, Reading, NoLocks, LockRecord
<1>2. CASE DestroyLock(c)
  <2>1. Bytes!DropAll(c)
    BY <1>2 DEF DestroyLock, Bytes!DropAll, Readers, Reading, NoLocks, LockRecord
  <2> QED
    BY <2>1
<1>3. CASE Crash(c)
  <2>1. Bytes!DropAll(c)
    BY <1>3 DEF Crash, Bytes!DropAll, Readers, Reading, NoLocks, LockRecord
  <2> QED
    BY <2>1
<1>4. CASE LockRead(c)
  <2>1. Exclusives = {}
    BY <1>4, FlagDown DEF LockRead, ReadFree
  <2>2. Bytes!TakeRead(c)
    BY <1>4, <2>1 DEF LockRead, Bytes!TakeRead, Readers, Reading, LockRecord
  <2> QED
    BY <2>2
<1>5. CASE LockExclusive(c)
  <2>1. Exclusives = {}
    BY <1>5, FlagDown DEF LockExclusive, ExclusiveFree
  <2>2. Readers = {}
    BY <1>5, LockExclusiveKeeps
  <2>3. Bytes!TakeExclusive(c)
    BY <1>5, <2>1, <2>2
    DEF LockExclusive, Bytes!TakeExclusive, Readers, Reading, LockRecord
  <2> QED
    BY <2>3
<1>6. CASE LockPending(c)
  <2>1. Pendings = {}
    BY <1>6, FlagDown DEF LockPending, PendingFree
  <2>2. Bytes!TakePending(c)
    BY <1>6, <2>1 DEF LockPending, Bytes!TakePending, Readers, Reading, LockRecord
  <2> QED
    BY <2>2
<1>7. CASE LockReserved(c)
  <2>1. Reserveds = {}
    BY <1>7, FlagDown DEF LockReserved, ReservedFree
  <2>2. Bytes!TakeReserved(c)
    BY <1>7, <2>1 DEF LockReserved, Bytes!TakeReserved, Readers, Reading, LockRecord
  <2> QED
    BY <2>2
<1>8. CASE UnlockRange(c)
  <2>1. CASE local[c].bExclusive
    <3>1. Bytes!DropRange(c)
      BY <1>8, <2>1
      DEF UnlockRange, LeakExclusion, Bytes!DropRange, Readers, Reading, LockRecord
    <3> QED
      BY <3>1
  <2>2. CASE ~local[c].bExclusive /\ local[c].nReaders = 1
    <3>1. Bytes!DropRange(c)
      BY <1>8, <2>2 DEF UnlockRange, Bytes!DropRange, Readers, Reading, LockRecord
    <3> QED
      BY <3>1
  <2>3. CASE ~local[c].bExclusive /\ local[c].nReaders # 1
    BY <1>8, <2>3 DEF UnlockRange, Readers, Reading, LockRecord
  <2> QED
    BY <2>1, <2>2, <2>3
<1>9. CASE UnlockPending(c)
  <2>1. Bytes!DropPending(c)
    BY <1>9 DEF UnlockPending, Bytes!DropPending, Readers, Reading, LockRecord
  <2> QED
    BY <2>1
<1>10. CASE UnlockReserved(c)
  <2>1. Bytes!DropReserved(c)
    BY <1>10 DEF UnlockReserved, Bytes!DropReserved, Readers, Reading, LockRecord
  <2> QED
    BY <2>1
<1> QED
  BY <1>1, <1>2, <1>3, <1>4, <1>5, <1>6, <1>7, <1>8, <1>9, <1>10 DEF TableStep

----------------------------------------------------------------------------
\* The five levels.

\* Handle d is left alone by a step.
Untouched(d) == /\ local'[d] = local[d]
                /\ (d \in mapped') = (d \in mapped)
                /\ locktype'[d] = locktype[d]
                /\ pc'[d] = pc[d]
                /\ want'[d] = want[d]
                /\ tries'[d] = tries[d]
                /\ rc'[d] = rc[d]

\* A handle that a step leaves alone stays in order.
LEMMA UntouchedOK ==
  ASSUME NEW d \in Conn, HandleOK(d), Untouched(d)
  PROVE  HandleOK(d)'
BY DEF HandleOK, ControlOK, ExclusiveBacked, ReservedBacked, PendingBacked, ReadBacked,
       Untouched, Reading

\* It is enough to look at the handle that moves.
LEMMA OneHandleMoves ==
  ASSUME LockInv, NEW c \in Conn, LockTypeOK', TableInv', HandleOK(c)',
         \A d \in Conn \ {c} : Untouched(d)
  PROVE  LockInv'
BY UntouchedOK DEF LockInv

\* A step that does not touch the table keeps it in order.
LEMMA TableUnchanged ==
  ASSUME TableInv, UNCHANGED tableVars
  PROVE  TableInv'
BY DEF TableInv, TableTypeOK, TableAccurate, CountAccurate, FlagsAccurate, ByteExclusion,
       LeakExclusion, Readers, Reading, tableVars

\* A fresh handle holds nothing and is in no routine. (sqlite3WinOpenReadWrite)
LEMMA OpenKeeps ==
  ASSUME LockInv, NEW c \in Conn, Open(c)
  PROVE  LockInv'
<1> USE DEF Open, LockTypeOK, Return, Continue, Goto, Result
<1>1. LockTypeOK /\ TableInv /\ HandleOK(c)
  BY DEF LockInv
<1>2. TableStep(c)
  BY DEF TableStep
<1>3. TableInv'
  BY <1>1, <1>2, TableInvStep
<1>4. LockTypeOK'
  BY <1>1, <1>3 DEF TableInv, NO_LOCK, SHARED_LOCK, RESERVED_LOCK,
      PENDING_LOCK, EXCLUSIVE_LOCK, PendingTries
<1>5. HandleOK(c)'
  BY <1>1 DEF CreateLock, TableTypeOK, LockRecord, NoLocks, tableVars, NO_LOCK, SHARED_LOCK, RESERVED_LOCK,
      PENDING_LOCK, EXCLUSIVE_LOCK, PendingTries, HandleOK, ControlOK, ExclusiveBacked,
      ReservedBacked, PendingBacked, ReadBacked, Reading
<1>6. \A d \in Conn \ {c} : Untouched(d)
  BY <1>1 DEF CreateLock, TableTypeOK, Untouched, tableVars, callVars
<1> QED
  BY <1>3, <1>4, <1>5, <1>6, OneHandleMoves

\* A closed handle leaves nothing behind. (winClose)
LEMMA CloseKeeps ==
  ASSUME LockInv, NEW c \in Conn, Close(c)
  PROVE  LockInv'
<1> USE DEF Close, LockTypeOK, Return, Continue, Goto, Result
<1>1. LockTypeOK /\ TableInv /\ HandleOK(c)
  BY DEF LockInv
<1>2. TableStep(c)
  BY DEF TableStep
<1>3. TableInv'
  BY <1>1, <1>2, TableInvStep
<1>4. LockTypeOK'
  BY <1>1, <1>3 DEF TableInv, NO_LOCK, SHARED_LOCK, RESERVED_LOCK,
      PENDING_LOCK, EXCLUSIVE_LOCK, PendingTries
<1>5. HandleOK(c)'
  <2>1. /\ local'[c] = NoLocks /\ locktype'[c] = NO_LOCK /\ pc'[c] = "idle"
        /\ c \notin mapped'
    BY <1>1 DEF DestroyLock, TableTypeOK, Idle
  <2> QED
    BY <2>1 DEF NoLocks, HandleOK, ControlOK, ExclusiveBacked, ReservedBacked, PendingBacked,
         ReadBacked, Reading, NO_LOCK, SHARED_LOCK, RESERVED_LOCK, PENDING_LOCK,
         EXCLUSIVE_LOCK
<1>6. \A d \in Conn \ {c} : Untouched(d)
  BY <1>1 DEF DestroyLock, TableTypeOK, Untouched, tableVars, callVars
<1> QED
  BY <1>3, <1>4, <1>5, <1>6, OneHandleMoves

\* A dead process has no handle any more.
LEMMA DieKeeps ==
  ASSUME LockInv, NEW c \in Conn, Die(c)
  PROVE  LockInv'
<1> USE DEF Die, LockTypeOK, Return, Continue, Goto, Result
<1>1. LockTypeOK /\ TableInv /\ HandleOK(c)
  BY DEF LockInv
<1>2. TableStep(c)
  BY DEF TableStep
<1>3. TableInv'
  BY <1>1, <1>2, TableInvStep
<1>4. LockTypeOK'
  BY <1>1, <1>3 DEF TableInv, NO_LOCK, SHARED_LOCK, RESERVED_LOCK,
      PENDING_LOCK, EXCLUSIVE_LOCK, PendingTries
<1>5. HandleOK(c)'
  BY <1>1 DEF Crash, TableTypeOK, LockRecord, NoLocks, tableVars, NO_LOCK, SHARED_LOCK, RESERVED_LOCK,
      PENDING_LOCK, EXCLUSIVE_LOCK, PendingTries, HandleOK, ControlOK, ExclusiveBacked,
      ReservedBacked, PendingBacked, ReadBacked, Reading
<1>6. \A d \in Conn \ {c} : Untouched(d)
  BY <1>1 DEF Crash, TableTypeOK, Untouched, tableVars, callVars
<1> QED
  BY <1>3, <1>4, <1>5, <1>6, OneHandleMoves

\* The PENDING byte, or one attempt less. (winLock)
LEMMA TryPendingKeeps ==
  ASSUME LockInv, NEW c \in Conn, TryPending(c)
  PROVE  LockInv'
<1> USE DEF TryPending, LockTypeOK, Return, Continue, Goto, Result
<1>1. LockTypeOK /\ TableInv /\ HandleOK(c)
  BY DEF LockInv
<1>2. TableStep(c) \/ UNCHANGED tableVars
  BY DEF TableStep
<1>3. TableInv'
  BY <1>1, <1>2, TableInvStep, TableUnchanged
<1>4. LockTypeOK'
  BY <1>1, <1>3 DEF TableInv, NO_LOCK, SHARED_LOCK, RESERVED_LOCK,
      PENDING_LOCK, EXCLUSIVE_LOCK, PendingTries
<1>5. HandleOK(c)'
  <2>0. mapped' = mapped
    BY DEF LockPending, tableVars
  <2>00. ControlOK(c)
    BY <1>1 DEF HandleOK
  <2>1. /\ pc[c] = "lockPending" /\ c \in mapped' /\ mapped' = mapped /\ rc[c] = "ok"
        /\ locktype[c] \in {NO_LOCK, RESERVED_LOCK}
        /\ locktype[c] = NO_LOCK => want[c] \in {SHARED_LOCK, EXCLUSIVE_LOCK}
        /\ locktype[c] = RESERVED_LOCK => want[c] = EXCLUSIVE_LOCK
    <3>1. pc[c] = "lockPending"
      OBVIOUS
    <3> HIDE DEF TryPending, LockTypeOK, Return, Continue, Goto, Result
    <3> QED
      BY <2>0, <2>00, <3>1 DEF ControlOK, NO_LOCK, RESERVED_LOCK
  <2>2. CASE LockPending(c) /\ Continue(c, IF want[c] = SHARED_LOCK THEN "lockRead" ELSE "dropRead")
    <3>1. /\ local'[c].bPending /\ local'[c].bReserved = local[c].bReserved
          /\ local'[c].bExclusive = local[c].bExclusive /\ local'[c].nReaders = local[c].nReaders
      BY <1>1, <2>2 DEF LockPending, TableTypeOK, LockRecord
    <3>2. /\ pc'[c] = IF want[c] = SHARED_LOCK THEN "lockRead" ELSE "dropRead"
          /\ locktype' = locktype /\ want' = want /\ rc' = rc
      BY <1>1, <2>2
    <3>3. CASE want[c] = SHARED_LOCK
      BY <1>1, <2>1, <3>1, <3>2, <3>3 DEF HandleOK, ControlOK, ExclusiveBacked, ReservedBacked, PendingBacked,
       ReadBacked, Reading, LockRecord, TableTypeOK, NO_LOCK, SHARED_LOCK, RESERVED_LOCK, PENDING_LOCK,
       EXCLUSIVE_LOCK, PendingTries
    <3>4. CASE want[c] = EXCLUSIVE_LOCK
      BY <1>1, <2>1, <3>1, <3>2, <3>4 DEF HandleOK, ControlOK, ExclusiveBacked, ReservedBacked, PendingBacked,
       ReadBacked, Reading, LockRecord, TableTypeOK, NO_LOCK, SHARED_LOCK, RESERVED_LOCK, PENDING_LOCK,
       EXCLUSIVE_LOCK, PendingTries
    <3> QED
      BY <2>1, <3>3, <3>4
  <2>3. CASE UNCHANGED <<tableVars, locktype, pc, want, rc>> /\ tries[c] > 1 /\ tries' = [tries EXCEPT ![c] = @ - 1]
    BY <1>1, <2>1, <2>3 DEF tableVars, HandleOK, ControlOK, ExclusiveBacked, ReservedBacked, PendingBacked,
       ReadBacked, Reading, PendingTries
  <2>4. CASE Return(c, locktype[c], "busy") /\ UNCHANGED tableVars
    BY <1>1, <2>1, <2>4 DEF tableVars, HandleOK, ControlOK, ExclusiveBacked, ReservedBacked, PendingBacked,
       ReadBacked, Reading, LockRecord, TableTypeOK, NO_LOCK, SHARED_LOCK, RESERVED_LOCK, PENDING_LOCK,
       EXCLUSIVE_LOCK
  <2> QED
    BY <2>2, <2>3, <2>4
<1>6. \A d \in Conn \ {c} : Untouched(d)
  BY <1>1 DEF LockPending, PendingFree, TableTypeOK, Untouched, tableVars, callVars
<1> QED
  BY <1>3, <1>4, <1>5, <1>6, OneHandleMoves

\* The read lock is taken with the PENDING byte in hand. (winLock)
LEMMA TryReadKeeps ==
  ASSUME LockInv, NEW c \in Conn, TryRead(c)
  PROVE  LockInv'
<1> USE DEF TryRead, LockTypeOK, Return, Continue, Goto, Result
<1>1. LockTypeOK /\ TableInv /\ HandleOK(c)
  BY DEF LockInv
<1>2. TableStep(c) \/ UNCHANGED tableVars
  BY DEF TableStep
<1>3. TableInv'
  BY <1>1, <1>2, TableInvStep, TableUnchanged
<1>4. LockTypeOK'
  BY <1>1, <1>3 DEF TableInv, NO_LOCK, SHARED_LOCK, RESERVED_LOCK,
      PENDING_LOCK, EXCLUSIVE_LOCK, PendingTries
<1>5. HandleOK(c)'
  <2>1. /\ pc[c] = "lockRead" /\ pc'[c] = "unlockPending"
        /\ c \in mapped' /\ locktype'[c] = locktype[c] /\ want'[c] = want[c]
        /\ locktype[c] = NO_LOCK /\ want[c] = SHARED_LOCK
    BY <1>1 DEF LockRead, tableVars, HandleOK, ControlOK
  <2>2. /\ ~local[c].bExclusive /\ ~local[c].bReserved /\ local[c].bPending
        /\ local[c].nReaders = 0
    BY <1>1, <2>1 DEF TableTypeOK, LockRecord, HandleOK, ControlOK, ExclusiveBacked, ReservedBacked, PendingBacked,
         ReadBacked, Reading, NO_LOCK, SHARED_LOCK, RESERVED_LOCK, PENDING_LOCK,
         EXCLUSIVE_LOCK
  <2>3. /\ ~local'[c].bExclusive /\ ~local'[c].bReserved /\ local'[c].bPending
        /\ local'[c].nReaders <= 1
    BY <1>1, <2>2 DEF LockRead, TableTypeOK, LockRecord, tableVars
  <2>4. local'[c].nReaders > 0 => rc'[c] = "ok"
    <3>1. rc[c] = "ok"
      BY <1>1, <2>1 DEF HandleOK, ControlOK
    <3>2. CASE LockRead(c) /\ Continue(c, "unlockPending")
      BY <3>1, <3>2
    <3>3. CASE UNCHANGED tableVars
      BY <2>2, <3>3 DEF tableVars
    <3> QED
      BY <3>2, <3>3
  <2> QED
    BY <2>1, <2>3, <2>4 DEF HandleOK, ControlOK, ExclusiveBacked, ReservedBacked,
       PendingBacked, ReadBacked, Reading, NO_LOCK, SHARED_LOCK, RESERVED_LOCK,
       PENDING_LOCK, EXCLUSIVE_LOCK
<1>6. \A d \in Conn \ {c} : Untouched(d)
  BY <1>1 DEF LockRead, TableTypeOK, Untouched, tableVars, callVars
<1> QED
  BY <1>3, <1>4, <1>5, <1>6, OneHandleMoves

\* A new reader gives the PENDING byte back. (winLock)
LEMMA ReleasePendingKeeps ==
  ASSUME LockInv, NEW c \in Conn, ReleasePending(c)
  PROVE  LockInv'
<1> USE DEF ReleasePending, LockTypeOK, Return, Continue, Goto, Result
<1>1. LockTypeOK /\ TableInv /\ HandleOK(c)
  BY DEF LockInv
<1>2. TableStep(c)
  BY DEF TableStep
<1>3. TableInv'
  BY <1>1, <1>2, TableInvStep
<1>4. LockTypeOK'
  BY <1>1, <1>3 DEF TableInv, NO_LOCK, SHARED_LOCK, RESERVED_LOCK,
      PENDING_LOCK, EXCLUSIVE_LOCK, PendingTries
<1>5. HandleOK(c)'
  <2>1. /\ pc[c] = "unlockPending" /\ pc'[c] = "idle" /\ c \in mapped'
        /\ locktype[c] = NO_LOCK /\ locktype'[c] \in {NO_LOCK, SHARED_LOCK}
        /\ rc[c] # "ok" => locktype'[c] = NO_LOCK
        /\ rc[c] = "ok" => locktype'[c] = SHARED_LOCK
    BY <1>1 DEF UnlockPending, HandleOK, ControlOK
  <2>2. /\ ~local[c].bExclusive /\ ~local[c].bReserved /\ local[c].nReaders <= 1
        /\ Reading(c) => rc[c] = "ok"
    BY <1>1, <2>1 DEF TableTypeOK, LockRecord, HandleOK, ControlOK, ExclusiveBacked, ReservedBacked, PendingBacked,
         ReadBacked, Reading, NO_LOCK, SHARED_LOCK, RESERVED_LOCK, PENDING_LOCK,
         EXCLUSIVE_LOCK
  <2>3. /\ local'[c] = [local[c] EXCEPT !.bPending = FALSE]
    BY <1>1 DEF UnlockPending, TableTypeOK
  <2>4. /\ ~local'[c].bExclusive /\ ~local'[c].bReserved /\ ~local'[c].bPending
        /\ local'[c].nReaders = local[c].nReaders
    BY <1>1, <2>2, <2>3 DEF TableTypeOK, LockRecord
  <2> QED
    BY <2>1, <2>2, <2>4 DEF HandleOK, ControlOK, ExclusiveBacked, ReservedBacked, PendingBacked,
         ReadBacked, Reading, NO_LOCK, SHARED_LOCK, RESERVED_LOCK, PENDING_LOCK,
         EXCLUSIVE_LOCK
<1>6. \A d \in Conn \ {c} : Untouched(d)
  BY <1>1 DEF UnlockPending, TableTypeOK, Untouched, tableVars, callVars
<1> QED
  BY <1>3, <1>4, <1>5, <1>6, OneHandleMoves

\* The RESERVED byte. (winLock)
LEMMA TryReservedKeeps ==
  ASSUME LockInv, NEW c \in Conn, TryReserved(c)
  PROVE  LockInv'
<1> USE DEF TryReserved, LockTypeOK, Return, Continue, Goto, Result
<1>1. LockTypeOK /\ TableInv /\ HandleOK(c)
  BY DEF LockInv
<1>2. TableStep(c) \/ UNCHANGED tableVars
  BY DEF TableStep
<1>3. TableInv'
  BY <1>1, <1>2, TableInvStep, TableUnchanged
<1>4. LockTypeOK'
  BY <1>1, <1>3 DEF TableInv, NO_LOCK, SHARED_LOCK, RESERVED_LOCK,
      PENDING_LOCK, EXCLUSIVE_LOCK, PendingTries
<1>5. HandleOK(c)'
  <2>1. /\ pc[c] = "lockReserved" /\ pc'[c] = "idle" /\ c \in mapped'
        /\ locktype[c] = SHARED_LOCK
    BY <1>1 DEF LockReserved, tableVars, HandleOK, ControlOK
  <2>2. /\ ~local[c].bExclusive /\ ~local[c].bReserved /\ ~local[c].bPending
        /\ local[c].nReaders <= 1
    BY <1>1, <2>1 DEF TableTypeOK, LockRecord, HandleOK, ControlOK, ExclusiveBacked, ReservedBacked, PendingBacked,
         ReadBacked, Reading, NO_LOCK, SHARED_LOCK, RESERVED_LOCK, PENDING_LOCK,
         EXCLUSIVE_LOCK
  <2>3. CASE LockReserved(c) /\ Return(c, RESERVED_LOCK, "ok")
    <3>1. /\ ~local'[c].bExclusive /\ local'[c].bReserved /\ ~local'[c].bPending
          /\ local'[c].nReaders = local[c].nReaders /\ locktype'[c] = RESERVED_LOCK
      BY <1>1, <2>2, <2>3 DEF LockReserved, TableTypeOK, LockRecord
    <3> QED
      BY <2>1, <2>2, <3>1 DEF HandleOK, ControlOK, ExclusiveBacked, ReservedBacked, PendingBacked,
         ReadBacked, Reading, NO_LOCK, SHARED_LOCK, RESERVED_LOCK, PENDING_LOCK,
         EXCLUSIVE_LOCK
  <2>4. CASE Return(c, locktype[c], "busy") /\ UNCHANGED tableVars
    <3>1. locktype'[c] = SHARED_LOCK /\ local' = local
      BY <1>1, <2>1, <2>4 DEF tableVars
    <3> QED
      BY <2>1, <2>2, <3>1 DEF HandleOK, ControlOK, ExclusiveBacked, ReservedBacked, PendingBacked,
         ReadBacked, Reading, NO_LOCK, SHARED_LOCK, RESERVED_LOCK, PENDING_LOCK,
         EXCLUSIVE_LOCK
  <2> QED
    BY <2>3, <2>4
<1>6. \A d \in Conn \ {c} : Untouched(d)
  BY <1>1 DEF LockReserved, TableTypeOK, Untouched, tableVars, callVars
<1> QED
  BY <1>3, <1>4, <1>5, <1>6, OneHandleMoves

\* The read lock goes before the exclusive lock is tried. (winLock)
LEMMA DropReadKeeps ==
  ASSUME LockInv, NEW c \in Conn, DropRead(c)
  PROVE  LockInv'
<1> USE DEF DropRead, LockTypeOK, Return, Continue, Goto, Result
<1>1. LockTypeOK /\ TableInv /\ HandleOK(c)
  BY DEF LockInv
<1>2. TableStep(c)
  BY DEF TableStep
<1>3. TableInv'
  BY <1>1, <1>2, TableInvStep
<1>4. LockTypeOK'
  BY <1>1, <1>3 DEF TableInv, NO_LOCK, SHARED_LOCK, RESERVED_LOCK,
      PENDING_LOCK, EXCLUSIVE_LOCK, PendingTries
<1>5. HandleOK(c)'
  BY <1>1 DEF UnlockRange, TableTypeOK, LockRecord, NoLocks, tableVars, NO_LOCK, SHARED_LOCK, RESERVED_LOCK,
      PENDING_LOCK, EXCLUSIVE_LOCK, PendingTries, HandleOK, ControlOK, ExclusiveBacked,
      ReservedBacked, PendingBacked, ReadBacked, Reading
<1>6. \A d \in Conn \ {c} : Untouched(d)
  BY <1>1 DEF UnlockRange, TableTypeOK, Untouched, tableVars, callVars
<1> QED
  BY <1>3, <1>4, <1>5, <1>6, OneHandleMoves

\* The whole range, or PENDING. (winLock)
LEMMA TryExclusiveKeeps ==
  ASSUME LockInv, NEW c \in Conn, TryExclusive(c)
  PROVE  LockInv'
<1> USE DEF TryExclusive, LockTypeOK, Return, Continue, Goto, Result
<1>1. LockTypeOK /\ TableInv /\ HandleOK(c)
  BY DEF LockInv
<1>2. TableStep(c) \/ UNCHANGED tableVars
  BY DEF TableStep
<1>3. TableInv'
  BY <1>1, <1>2, TableInvStep, TableUnchanged
<1>4. LockTypeOK'
  BY <1>1, <1>3 DEF TableInv, NO_LOCK, SHARED_LOCK, RESERVED_LOCK,
      PENDING_LOCK, EXCLUSIVE_LOCK, PendingTries
<1>5. HandleOK(c)'
  <2>1. /\ pc[c] = "lockExclusive" /\ pc'[c] = "idle" /\ c \in mapped'
        /\ locktype[c] \in {NO_LOCK, SHARED_LOCK, RESERVED_LOCK, PENDING_LOCK}
    BY <1>1 DEF LockExclusive, tableVars, HandleOK, ControlOK, ExclusiveBacked, ReservedBacked, PendingBacked,
         ReadBacked, Reading, NO_LOCK, SHARED_LOCK, RESERVED_LOCK, PENDING_LOCK,
         EXCLUSIVE_LOCK
  <2>2. /\ ~local[c].bExclusive /\ (local[c].bReserved => local[c].bPending)
        /\ local[c].nReaders = 0
    BY <1>1, <2>1 DEF TableTypeOK, LockRecord, HandleOK, ControlOK, ExclusiveBacked, ReservedBacked, PendingBacked,
         ReadBacked, Reading, NO_LOCK, SHARED_LOCK, RESERVED_LOCK, PENDING_LOCK,
         EXCLUSIVE_LOCK
  <2>3. CASE LockExclusive(c) /\ Return(c, EXCLUSIVE_LOCK, "ok")
    <3>1. /\ local'[c].bExclusive /\ (local'[c].bReserved => local'[c].bPending)
          /\ local'[c].nReaders = 0 /\ locktype'[c] = EXCLUSIVE_LOCK
      BY <1>1, <2>2, <2>3 DEF LockExclusive, TableTypeOK, LockRecord
    <3> QED
      BY <2>1, <3>1 DEF HandleOK, ControlOK, ExclusiveBacked, ReservedBacked, PendingBacked,
         ReadBacked, Reading, NO_LOCK, SHARED_LOCK, RESERVED_LOCK, PENDING_LOCK,
         EXCLUSIVE_LOCK
  <2>4. CASE Return(c, PENDING_LOCK, "busy") /\ UNCHANGED tableVars
    <3>1. locktype'[c] = PENDING_LOCK /\ local' = local
      BY <1>1, <2>4 DEF tableVars
    <3> QED
      BY <2>1, <2>2, <3>1 DEF HandleOK, ControlOK, ExclusiveBacked, ReservedBacked, PendingBacked,
         ReadBacked, Reading, NO_LOCK, SHARED_LOCK, RESERVED_LOCK, PENDING_LOCK,
         EXCLUSIVE_LOCK
  <2> QED
    BY <2>3, <2>4
<1>6. \A d \in Conn \ {c} : Untouched(d)
  BY <1>1 DEF LockExclusive, TableTypeOK, Untouched, tableVars, callVars
<1> QED
  BY <1>3, <1>4, <1>5, <1>6, OneHandleMoves

\* The whole range is given back. (winUnlock)
LEMMA GiveExclusiveKeeps ==
  ASSUME LockInv, NEW c \in Conn, GiveExclusive(c)
  PROVE  LockInv'
<1> USE DEF GiveExclusive, LockTypeOK, Return, Continue, Goto, Result
<1>1. LockTypeOK /\ TableInv /\ HandleOK(c)
  BY DEF LockInv
<1>2. TableStep(c)
  BY DEF TableStep
<1>3. TableInv'
  BY <1>1, <1>2, TableInvStep
<1>4. LockTypeOK'
  BY <1>1, <1>3 DEF TableInv, NO_LOCK, SHARED_LOCK, RESERVED_LOCK,
      PENDING_LOCK, EXCLUSIVE_LOCK, PendingTries
<1>5. HandleOK(c)'
  BY <1>1 DEF UnlockRange, TableTypeOK, LockRecord, NoLocks, tableVars, NO_LOCK, SHARED_LOCK, RESERVED_LOCK,
      PENDING_LOCK, EXCLUSIVE_LOCK, PendingTries, HandleOK, ControlOK, ExclusiveBacked,
      ReservedBacked, PendingBacked, ReadBacked, Reading
<1>6. \A d \in Conn \ {c} : Untouched(d)
  BY <1>1 DEF UnlockRange, TableTypeOK, Untouched, tableVars, callVars
<1> QED
  BY <1>3, <1>4, <1>5, <1>6, OneHandleMoves

\* The way down to SHARED. (winUnlock)
LEMMA RelockReadKeeps ==
  ASSUME LockInv, NEW c \in Conn, RelockRead(c)
  PROVE  LockInv'
<1> USE DEF RelockRead, LockTypeOK, Return, Continue, Goto, Result
<1>1. LockTypeOK /\ TableInv /\ HandleOK(c)
  BY DEF LockInv
<1>2. TableStep(c) \/ UNCHANGED tableVars
  BY DEF TableStep
<1>3. TableInv'
  BY <1>1, <1>2, TableInvStep, TableUnchanged
<1>4. LockTypeOK'
  BY <1>1, <1>3 DEF TableInv, NO_LOCK, SHARED_LOCK, RESERVED_LOCK,
      PENDING_LOCK, EXCLUSIVE_LOCK, PendingTries
<1>5. HandleOK(c)'
  BY <1>1 DEF LockRead, TableTypeOK, LockRecord, NoLocks, tableVars, NO_LOCK, SHARED_LOCK, RESERVED_LOCK,
      PENDING_LOCK, EXCLUSIVE_LOCK, PendingTries, HandleOK, ControlOK, ExclusiveBacked,
      ReservedBacked, PendingBacked, ReadBacked, Reading
<1>6. \A d \in Conn \ {c} : Untouched(d)
  BY <1>1 DEF LockRead, TableTypeOK, Untouched, tableVars, callVars
<1> QED
  BY <1>3, <1>4, <1>5, <1>6, OneHandleMoves

\* The RESERVED byte is given back. (winUnlock)
LEMMA GiveReservedKeeps ==
  ASSUME LockInv, NEW c \in Conn, GiveReserved(c)
  PROVE  LockInv'
<1> USE DEF GiveReserved, LockTypeOK, Return, Continue, Goto, Result
<1>1. LockTypeOK /\ TableInv /\ HandleOK(c)
  BY DEF LockInv
<1>2. TableStep(c)
  BY DEF TableStep
<1>3. TableInv'
  BY <1>1, <1>2, TableInvStep
<1>4. LockTypeOK'
  BY <1>1, <1>3 DEF TableInv, NO_LOCK, SHARED_LOCK, RESERVED_LOCK,
      PENDING_LOCK, EXCLUSIVE_LOCK, PendingTries
<1>5. HandleOK(c)'
  BY <1>1 DEF UnlockReserved, TableTypeOK, LockRecord, NoLocks, tableVars, NO_LOCK, SHARED_LOCK, RESERVED_LOCK,
      PENDING_LOCK, EXCLUSIVE_LOCK, PendingTries, HandleOK, ControlOK, ExclusiveBacked,
      ReservedBacked, PendingBacked, ReadBacked, Reading
<1>6. \A d \in Conn \ {c} : Untouched(d)
  BY <1>1 DEF UnlockReserved, TableTypeOK, Untouched, tableVars, callVars
<1> QED
  BY <1>3, <1>4, <1>5, <1>6, OneHandleMoves

\* The read lock is given back. (winUnlock)
LEMMA GiveReadKeeps ==
  ASSUME LockInv, NEW c \in Conn, GiveRead(c)
  PROVE  LockInv'
<1> USE DEF GiveRead, LockTypeOK, Return, Continue, Goto, Result
<1>1. LockTypeOK /\ TableInv /\ HandleOK(c)
  BY DEF LockInv
<1>2. TableStep(c)
  BY DEF TableStep
<1>3. TableInv'
  BY <1>1, <1>2, TableInvStep
<1>4. LockTypeOK'
  BY <1>1, <1>3 DEF TableInv, NO_LOCK, SHARED_LOCK, RESERVED_LOCK,
      PENDING_LOCK, EXCLUSIVE_LOCK, PendingTries
<1>5. HandleOK(c)'
  <2>1. /\ pc[c] = "giveRead" /\ c \in mapped' /\ want[c] = NO_LOCK
        /\ locktype[c] \in SHARED_LOCK..EXCLUSIVE_LOCK
    BY <1>1 DEF UnlockRange, HandleOK, ControlOK, ExclusiveBacked, ReservedBacked, PendingBacked,
         ReadBacked, Reading, NO_LOCK, SHARED_LOCK, RESERVED_LOCK, PENDING_LOCK,
         EXCLUSIVE_LOCK
  <2>2. /\ ~local[c].bExclusive /\ ~local[c].bReserved
        /\ locktype[c] < PENDING_LOCK => ~local[c].bPending
        /\ local[c].nReaders \in {0, 1}
    BY <1>1, <2>1 DEF TableTypeOK, LockRecord, HandleOK, ControlOK, ExclusiveBacked, ReservedBacked, PendingBacked,
         ReadBacked, Reading, NO_LOCK, SHARED_LOCK, RESERVED_LOCK, PENDING_LOCK,
         EXCLUSIVE_LOCK
  <2>3. /\ ~local'[c].bExclusive /\ ~local'[c].bReserved
        /\ local'[c].bPending = local[c].bPending /\ local'[c].nReaders = 0
    BY <1>1, <2>2 DEF UnlockRange, TableTypeOK, LockRecord, Reading
  <2>4. CASE locktype[c] >= PENDING_LOCK
    <3>1. pc'[c] = "givePending" /\ locktype'[c] = locktype[c] /\ want'[c] = want[c]
      BY <1>1, <2>4
    <3> QED
      BY <2>1, <2>3, <2>4, <3>1 DEF HandleOK, ControlOK, ExclusiveBacked, ReservedBacked, PendingBacked,
         ReadBacked, Reading, NO_LOCK, SHARED_LOCK, RESERVED_LOCK, PENDING_LOCK,
         EXCLUSIVE_LOCK
  <2>5. CASE ~(locktype[c] >= PENDING_LOCK)
    <3>1. pc'[c] = "idle" /\ locktype'[c] = NO_LOCK
      BY <1>1, <2>1, <2>5
    <3>2. ~local'[c].bPending
      BY <2>1, <2>2, <2>3, <2>5 DEF NO_LOCK, SHARED_LOCK, RESERVED_LOCK, PENDING_LOCK, EXCLUSIVE_LOCK
    <3> QED
      BY <2>1, <2>3, <3>1, <3>2 DEF HandleOK, ControlOK, ExclusiveBacked, ReservedBacked, PendingBacked,
         ReadBacked, Reading, NO_LOCK, SHARED_LOCK, RESERVED_LOCK, PENDING_LOCK,
         EXCLUSIVE_LOCK
  <2> QED
    BY <2>4, <2>5
<1>6. \A d \in Conn \ {c} : Untouched(d)
  BY <1>1 DEF UnlockRange, TableTypeOK, Untouched, tableVars, callVars
<1> QED
  BY <1>3, <1>4, <1>5, <1>6, OneHandleMoves

\* The PENDING byte is given back. (winUnlock)
LEMMA GivePendingKeeps ==
  ASSUME LockInv, NEW c \in Conn, GivePending(c)
  PROVE  LockInv'
<1> USE DEF GivePending, LockTypeOK, Return, Continue, Goto, Result
<1>1. LockTypeOK /\ TableInv /\ HandleOK(c)
  BY DEF LockInv
<1>2. TableStep(c)
  BY DEF TableStep
<1>3. TableInv'
  BY <1>1, <1>2, TableInvStep
<1>4. LockTypeOK'
  BY <1>1, <1>3 DEF TableInv, NO_LOCK, SHARED_LOCK, RESERVED_LOCK,
      PENDING_LOCK, EXCLUSIVE_LOCK, PendingTries
<1>5. HandleOK(c)'
  BY <1>1 DEF UnlockPending, TableTypeOK, LockRecord, NoLocks, tableVars, NO_LOCK, SHARED_LOCK, RESERVED_LOCK,
      PENDING_LOCK, EXCLUSIVE_LOCK, PendingTries, HandleOK, ControlOK, ExclusiveBacked,
      ReservedBacked, PendingBacked, ReadBacked, Reading
<1>6. \A d \in Conn \ {c} : Untouched(d)
  BY <1>1 DEF UnlockPending, TableTypeOK, Untouched, tableVars, callVars
<1> QED
  BY <1>3, <1>4, <1>5, <1>6, OneHandleMoves

\* The RESERVED byte taken for a look. (winCheckReservedLock)
LEMMA ProbeKeeps ==
  ASSUME LockInv, NEW c \in Conn, Probe(c)
  PROVE  LockInv'
<1> USE DEF Probe, LockTypeOK, Return, Continue, Goto, Result
<1>1. LockTypeOK /\ TableInv /\ HandleOK(c)
  BY DEF LockInv
<1>2. TableStep(c) \/ UNCHANGED tableVars
  BY DEF TableStep
<1>3. TableInv'
  BY <1>1, <1>2, TableInvStep, TableUnchanged
<1>4. LockTypeOK'
  BY <1>1, <1>3 DEF TableInv, NO_LOCK, SHARED_LOCK, RESERVED_LOCK,
      PENDING_LOCK, EXCLUSIVE_LOCK, PendingTries
<1>5. HandleOK(c)'
  BY <1>1 DEF LockReserved, TableTypeOK, LockRecord, NoLocks, tableVars, NO_LOCK, SHARED_LOCK, RESERVED_LOCK,
      PENDING_LOCK, EXCLUSIVE_LOCK, PendingTries, HandleOK, ControlOK, ExclusiveBacked,
      ReservedBacked, PendingBacked, ReadBacked, Reading
<1>6. \A d \in Conn \ {c} : Untouched(d)
  BY <1>1 DEF LockReserved, TableTypeOK, Untouched, tableVars, callVars
<1> QED
  BY <1>3, <1>4, <1>5, <1>6, OneHandleMoves

\* ... and given back. (winCheckReservedLock)
LEMMA UnprobeKeeps ==
  ASSUME LockInv, NEW c \in Conn, Unprobe(c)
  PROVE  LockInv'
<1> USE DEF Unprobe, LockTypeOK, Return, Continue, Goto, Result
<1>1. LockTypeOK /\ TableInv /\ HandleOK(c)
  BY DEF LockInv
<1>2. TableStep(c)
  BY DEF TableStep
<1>3. TableInv'
  BY <1>1, <1>2, TableInvStep
<1>4. LockTypeOK'
  BY <1>1, <1>3 DEF TableInv, NO_LOCK, SHARED_LOCK, RESERVED_LOCK,
      PENDING_LOCK, EXCLUSIVE_LOCK, PendingTries
<1>5. HandleOK(c)'
  BY <1>1 DEF UnlockReserved, TableTypeOK, LockRecord, NoLocks, tableVars, NO_LOCK, SHARED_LOCK, RESERVED_LOCK,
      PENDING_LOCK, EXCLUSIVE_LOCK, PendingTries, HandleOK, ControlOK, ExclusiveBacked,
      ReservedBacked, PendingBacked, ReadBacked, Reading
<1>6. \A d \in Conn \ {c} : Untouched(d)
  BY <1>1 DEF UnlockReserved, TableTypeOK, Untouched, tableVars, callVars
<1> QED
  BY <1>3, <1>4, <1>5, <1>6, OneHandleMoves

\* winLock begins: where depends on the level the handle has and the one it wants.
LEMMA LockKeeps ==
  ASSUME LockInv, NEW c \in Conn, NEW level \in SHARED_LOCK..EXCLUSIVE_LOCK, Lock(c, level)
  PROVE  LockInv'
<1> USE DEF Lock, LockTypeOK, Goto, Result
<1>1. LockTypeOK /\ TableInv /\ HandleOK(c)
  BY DEF LockInv
<1>2. UNCHANGED tableVars
  OBVIOUS
<1>3. TableInv'
  BY <1>1, <1>2, TableUnchanged
<1>4. LockTypeOK'
  BY <1>1, <1>3 DEF TableInv, PendingTries, NO_LOCK, SHARED_LOCK, RESERVED_LOCK,
     PENDING_LOCK, EXCLUSIVE_LOCK
<1>5. HandleOK(c)'
  <2>1. /\ local' = local /\ c \in mapped' /\ locktype'[c] = locktype[c]
        /\ want'[c] = level /\ tries'[c] = 3 /\ rc'[c] = "ok" /\ pc[c] = "idle"
    BY <1>1, <1>2 DEF tableVars, Idle, PendingTries
  <2>2. CASE locktype[c] = NO_LOCK /\ level = SHARED_LOCK
    <3>1. pc'[c] = "lockPending"
      BY <1>1, <2>2 DEF NeedsPendingByte
    <3> QED
      BY <1>1, <2>1, <2>2, <3>1 DEF HandleOK, ControlOK, ExclusiveBacked, ReservedBacked, PendingBacked,
      ReadBacked, Reading, NO_LOCK, SHARED_LOCK, RESERVED_LOCK, PENDING_LOCK,
      EXCLUSIVE_LOCK
  <2>3. CASE locktype[c] = SHARED_LOCK /\ level = RESERVED_LOCK
    <3>1. pc'[c] = "lockReserved"
      BY <1>1, <2>3 DEF NeedsPendingByte, NO_LOCK, SHARED_LOCK, RESERVED_LOCK, PENDING_LOCK, EXCLUSIVE_LOCK
    <3> QED
      BY <1>1, <2>1, <2>3, <3>1 DEF HandleOK, ControlOK, ExclusiveBacked, ReservedBacked, PendingBacked,
      ReadBacked, Reading, NO_LOCK, SHARED_LOCK, RESERVED_LOCK, PENDING_LOCK,
      EXCLUSIVE_LOCK
  <2>4. CASE locktype[c] \in {SHARED_LOCK, PENDING_LOCK} /\ level = EXCLUSIVE_LOCK
    <3>1. pc'[c] = "dropRead"
      BY <1>1, <2>4 DEF NeedsPendingByte, NO_LOCK, SHARED_LOCK, RESERVED_LOCK, PENDING_LOCK, EXCLUSIVE_LOCK
    <3> QED
      BY <1>1, <2>1, <2>4, <3>1 DEF HandleOK, ControlOK, ExclusiveBacked, ReservedBacked, PendingBacked,
      ReadBacked, Reading, NO_LOCK, SHARED_LOCK, RESERVED_LOCK, PENDING_LOCK,
      EXCLUSIVE_LOCK
  <2>5. CASE locktype[c] = RESERVED_LOCK /\ level = EXCLUSIVE_LOCK
    <3>1. pc'[c] = "lockPending"
      BY <1>1, <2>5 DEF NeedsPendingByte, NO_LOCK, SHARED_LOCK, RESERVED_LOCK, PENDING_LOCK, EXCLUSIVE_LOCK
    <3> QED
      BY <1>1, <2>1, <2>5, <3>1 DEF HandleOK, ControlOK, ExclusiveBacked, ReservedBacked, PendingBacked,
      ReadBacked, Reading, NO_LOCK, SHARED_LOCK, RESERVED_LOCK, PENDING_LOCK,
      EXCLUSIVE_LOCK
  <2>6. CASE locktype[c] = NO_LOCK /\ level = EXCLUSIVE_LOCK
    <3>1. pc'[c] = "lockPending"
      BY <1>1, <2>6 DEF NeedsPendingByte
    <3> QED
      BY <1>1, <2>1, <2>6, <3>1 DEF HandleOK, ControlOK, ExclusiveBacked, ReservedBacked, PendingBacked,
      ReadBacked, Reading, NO_LOCK, SHARED_LOCK, RESERVED_LOCK, PENDING_LOCK,
      EXCLUSIVE_LOCK
  <2> QED
    BY <2>2, <2>3, <2>4, <2>5, <2>6 DEF LegalRequest
<1>6. \A d \in Conn \ {c} : Untouched(d)
  BY <1>1, <1>2 DEF Untouched, tableVars
<1> QED
  BY <1>3, <1>4, <1>5, <1>6, OneHandleMoves

\* winUnlock begins: what it gives back first depends on the level.
LEMMA UnlockKeeps ==
  ASSUME LockInv, NEW c \in Conn, NEW level \in {NO_LOCK, SHARED_LOCK}, Unlock(c, level)
  PROVE  LockInv'
<1> USE DEF Unlock, LockTypeOK, Goto, Result
<1>1. LockTypeOK /\ TableInv /\ HandleOK(c)
  BY DEF LockInv
<1>2. UNCHANGED tableVars
  OBVIOUS
<1>3. TableInv'
  BY <1>1, <1>2, TableUnchanged
<1>4. LockTypeOK'
  BY <1>1, <1>3 DEF TableInv, PendingTries, NO_LOCK, SHARED_LOCK, RESERVED_LOCK,
     PENDING_LOCK, EXCLUSIVE_LOCK
<1>5. HandleOK(c)'
  <2>1. /\ local' = local /\ c \in mapped' /\ locktype'[c] = locktype[c]
        /\ want'[c] = level /\ pc[c] = "idle"
    BY <1>1, <1>2 DEF tableVars, Idle
  <2>2. CASE locktype[c] = EXCLUSIVE_LOCK
    <3>1. pc'[c] = "giveExclusive"
      BY <1>1, <2>2 DEF NO_LOCK, SHARED_LOCK, RESERVED_LOCK, PENDING_LOCK, EXCLUSIVE_LOCK
    <3> QED
      BY <1>1, <2>1, <2>2, <3>1 DEF HandleOK, ControlOK, ExclusiveBacked, ReservedBacked, PendingBacked,
      ReadBacked, Reading, NO_LOCK, SHARED_LOCK, RESERVED_LOCK, PENDING_LOCK,
      EXCLUSIVE_LOCK
  <2>3. CASE locktype[c] \in {RESERVED_LOCK, PENDING_LOCK}
    <3>1. pc'[c] = "giveReserved"
      BY <1>1, <2>3 DEF NO_LOCK, SHARED_LOCK, RESERVED_LOCK, PENDING_LOCK, EXCLUSIVE_LOCK
    <3> QED
      BY <1>1, <2>1, <2>3, <3>1 DEF HandleOK, ControlOK, ExclusiveBacked, ReservedBacked, PendingBacked,
      ReadBacked, Reading, NO_LOCK, SHARED_LOCK, RESERVED_LOCK, PENDING_LOCK,
      EXCLUSIVE_LOCK
  <2>4. CASE locktype[c] = SHARED_LOCK
    <3>1. pc'[c] = "giveRead" /\ level = NO_LOCK
      BY <1>1, <2>4 DEF NO_LOCK, SHARED_LOCK, RESERVED_LOCK, PENDING_LOCK, EXCLUSIVE_LOCK
    <3> QED
      BY <1>1, <2>1, <2>4, <3>1 DEF HandleOK, ControlOK, ExclusiveBacked, ReservedBacked, PendingBacked,
      ReadBacked, Reading, NO_LOCK, SHARED_LOCK, RESERVED_LOCK, PENDING_LOCK,
      EXCLUSIVE_LOCK
  <2> QED
    BY <1>1, <2>2, <2>3, <2>4 DEF NO_LOCK, SHARED_LOCK, RESERVED_LOCK, PENDING_LOCK, EXCLUSIVE_LOCK
<1>6. \A d \in Conn \ {c} : Untouched(d)
  BY <1>1, <1>2 DEF Untouched, tableVars
<1> QED
  BY <1>3, <1>4, <1>5, <1>6, OneHandleMoves

\* winCheckReservedLock begins.
LEMMA CheckReservedKeeps ==
  ASSUME LockInv, NEW c \in Conn, CheckReserved(c)
  PROVE  LockInv'
<1> USE DEF CheckReserved, LockTypeOK, Goto, Result
<1>1. LockTypeOK /\ TableInv /\ HandleOK(c)
  BY DEF LockInv
<1>2. UNCHANGED tableVars
  OBVIOUS
<1>3. TableInv'
  BY <1>1, <1>2, TableUnchanged
<1>4. LockTypeOK'
  BY <1>1, <1>3 DEF TableInv, PendingTries, NO_LOCK, SHARED_LOCK, RESERVED_LOCK,
     PENDING_LOCK, EXCLUSIVE_LOCK
<1>5. HandleOK(c)'
  BY <1>1, <1>2 DEF tableVars, Idle, HandleOK, ControlOK, ExclusiveBacked, ReservedBacked, PendingBacked,
      ReadBacked, Reading, NO_LOCK, SHARED_LOCK, RESERVED_LOCK, PENDING_LOCK,
      EXCLUSIVE_LOCK
<1>6. \A d \in Conn \ {c} : Untouched(d)
  BY <1>1, <1>2 DEF Untouched, tableVars
<1> QED
  BY <1>3, <1>4, <1>5, <1>6, OneHandleMoves

------------------------------------------------------------------------------
(* The invariant of every behaviour. *)

\* Every step of the locking routines keeps the invariant.
LEMMA LockInvStep ==
  ASSUME LockInv, [LockNext]_lockVars
  PROVE  LockInv'
<1>1. CASE UNCHANGED lockVars
  <2>1. UNCHANGED tableVars /\ TableInv
    BY <1>1 DEF lockVars, tableVars, LockInv
  <2>2. TableInv'
    BY <2>1, TableUnchanged
  <2>3. LockTypeOK'
    BY <1>1, <2>2 DEF LockInv, LockTypeOK, lockVars, TableInv
  <2>4. \A d \in Conn : Untouched(d)
    BY <1>1 DEF Untouched, lockVars
  <2> QED
    BY <2>2, <2>3, <2>4, UntouchedOK DEF LockInv
<1>2. ASSUME NEW c \in Conn, LockStep(c)
      PROVE  LockInv'
  BY <1>2, TryPendingKeeps, TryReadKeeps, ReleasePendingKeeps, TryReservedKeeps,
     DropReadKeeps, TryExclusiveKeeps, GiveExclusiveKeeps, RelockReadKeeps,
     GiveReservedKeeps, GiveReadKeeps, GivePendingKeeps, ProbeKeeps, UnprobeKeeps
  DEF LockStep
<1>3. ASSUME NEW c \in Conn, Open(c) \/ Close(c) \/ Die(c) \/ CheckReserved(c)
      PROVE  LockInv'
  BY <1>3, OpenKeeps, CloseKeeps, DieKeeps, CheckReservedKeeps
<1>4. ASSUME NEW c \in Conn, NEW level \in SHARED_LOCK..EXCLUSIVE_LOCK, Lock(c, level)
      PROVE  LockInv'
  BY <1>4, LockKeeps
<1>5. ASSUME NEW c \in Conn, NEW level \in {NO_LOCK, SHARED_LOCK}, Unlock(c, level)
      PROVE  LockInv'
  BY <1>5, UnlockKeeps
<1> QED
  BY <1>1, <1>2, <1>3, <1>4, <1>5 DEF LockNext

\* Before any handle is open, nothing is held.
LEMMA LockInvInit ==
  ASSUME LockInit
  PROVE  LockInv
<1> USE DEF LockInit, TableInit
<1>1. LockTypeOK
  BY DEF LockTypeOK, TableTypeOK, LockRecord, NoLocks, NO_LOCK, EXCLUSIVE_LOCK,
     PendingTries
<1>2. TableInv
  BY <1>1 DEF TableInv, LockTypeOK, TableAccurate, ByteExclusion, LeakExclusion
<1>3. \A c \in Conn : HandleOK(c)
  BY DEF HandleOK, ControlOK, ExclusiveBacked, ReservedBacked, PendingBacked, ReadBacked,
     Reading, NoLocks, NO_LOCK, SHARED_LOCK, RESERVED_LOCK, PENDING_LOCK, EXCLUSIVE_LOCK
<1> QED
  BY <1>1, <1>2, <1>3 DEF LockInv

\* At every point of the locking routines, every handle holds what its place in them
\* and its level say, and the shared table agrees: winLock, winUnlock and
\* winCheckReservedLock never lose or invent a byte lock.
THEOREM LockInvariant == LockSpec => []LockInv
BY LockInvInit, LockInvStep, PTL DEF LockSpec

\* The type invariant, of the program's variables in any run.
THEOREM LockTypes == LockSpec => []LockTypeOK
<1>1. LockInv => LockTypeOK
  BY DEF LockInv
<1> QED
  BY <1>1, LockInvariant, PTL

\* nReaders and the flags of the mapping are exact in any run (winceLockFile and
\* winceUnlockFile keep both copies of every lock in step).
THEOREM TableIsAccurate == LockSpec => []TableAccurate
<1>1. LockInv => TableAccurate
  BY DEF LockInv, TableInv
<1> QED
  BY <1>1, LockInvariant, PTL

\* No two handles hold the same byte lock, and nobody reads beside an exclusive lock.
THEOREM BytesExclude == LockSpec => []ByteExclusion
<1>1. LockInv => ByteExclusion
  BY DEF LockInv, TableInv
<1> QED
  BY <1>1, LockInvariant, PTL

\* What a handle at rest believes (locktype) is what it holds.
LEMMA LockInvBacks == LockInv => LevelBacked
<1> SUFFICES ASSUME LockInv, NEW c \in mapped, pc[c] = "idle"
             PROVE  /\ local[c].bExclusive = (locktype[c] = EXCLUSIVE_LOCK)
                    /\ local[c].bReserved => locktype[c] >= RESERVED_LOCK
                    /\ locktype[c] = RESERVED_LOCK => local[c].bReserved
                    /\ local[c].bPending => locktype[c] >= PENDING_LOCK
                    /\ locktype[c] >= PENDING_LOCK /\ local[c].bReserved => local[c].bPending
                    /\ Reading(c) => locktype[c] \in {SHARED_LOCK, RESERVED_LOCK}
                    /\ local[c].nReaders <= 1
  BY DEF LevelBacked
<1>1. c \in Conn /\ HandleOK(c) /\ LockTypeOK
  BY DEF LockInv, LockTypeOK, TableTypeOK
<1>2. local[c] \in LockRecord /\ locktype[c] \in NO_LOCK..EXCLUSIVE_LOCK
  BY <1>1 DEF LockTypeOK, TableTypeOK
<1> QED
  BY <1>1, <1>2 DEF HandleOK, ExclusiveBacked, ReservedBacked, PendingBacked, ReadBacked,
     LockRecord, NO_LOCK, SHARED_LOCK, RESERVED_LOCK, PENDING_LOCK, EXCLUSIVE_LOCK

\* Every lock level is backed by byte locks, in any run.
THEOREM LevelsAreBacked == LockSpec => []LevelBacked
BY LockInvBacks, LockInvariant, PTL

\* What a handle keeps out at which level: no second RESERVED, no second EXCLUSIVE, no
\* reader beside EXCLUSIVE, and no RESERVED beside an EXCLUSIVE that has the RESERVED
\* byte.  (os.h:182 promises more: that EXCLUSIVE precludes all other locks.)
THEOREM LevelsAreApart == LockSpec => []LevelsExclude
<1>1. LockInv => LevelsExclude
  <2> SUFFICES ASSUME LockInv, NEW c \in mapped, NEW d \in mapped, c # d,
                      pc[c] = "idle", pc[d] = "idle"
               PROVE  /\ ~(locktype[c] = RESERVED_LOCK /\ locktype[d] = RESERVED_LOCK)
                      /\ locktype[c] = EXCLUSIVE_LOCK =>
                           /\ locktype[d] # EXCLUSIVE_LOCK
                           /\ ~Reading(d)
                           /\ local[c].bReserved => locktype[d] # RESERVED_LOCK /\ ~local[d].bReserved
    BY DEF LevelsExclude
  <2>. QED  BY LockInvBacks DEF LevelBacked, LockInv, TableInv, ByteExclusion
<1> QED
  BY <1>1, LockInvariant, PTL

\* A step of the routines that adds a reader is the second half of a winLock(SHARED),
\* under the PENDING byte, or the way down from EXCLUSIVE.
LEMMA ReaderStep ==
  ASSUME LockInv, LockNext, NEW c \in Conn, ~Reading(c), Reading(c)'
  PROVE  local[c].bPending \/ locktype[c] = EXCLUSIVE_LOCK
<1>1. LockTypeOK /\ HandleOK(c) /\ TableTypeOK
  BY DEF LockInv, LockTypeOK
<1>2. \/ TryRead(c)
      \/ RelockRead(c)
  <2> USE DEF TableTypeOK, LockRecord, NoLocks, Reading
  <2>1. PICK d \in Conn : \/ Open(d) \/ Close(d) \/ Die(d) \/ CheckReserved(d)
                          \/ \E level \in SHARED_LOCK..EXCLUSIVE_LOCK : Lock(d, level)
                          \/ \E level \in {NO_LOCK, SHARED_LOCK} : Unlock(d, level)
                          \/ LockStep(d)
    BY DEF LockNext
  <2>2. CASE Open(d) \/ Close(d) \/ Die(d)
    BY <1>1, <2>2 DEF Open, Close, Die, CreateLock, DestroyLock, Crash
  <2>3. CASE \/ CheckReserved(d)
             \/ \E level \in SHARED_LOCK..EXCLUSIVE_LOCK : Lock(d, level)
             \/ \E level \in {NO_LOCK, SHARED_LOCK} : Unlock(d, level)
    BY <1>1, <2>3 DEF CheckReserved, Lock, Unlock, tableVars
  <2>4. CASE TryRead(d) \/ RelockRead(d)
    BY <1>1, <2>4 DEF TryRead, RelockRead, LockRead, tableVars
  <2>5. CASE TryPending(d) \/ TryReserved(d) \/ TryExclusive(d) \/ Probe(d)
    BY <1>1, <2>5 DEF TryPending, TryReserved, TryExclusive, Probe, LockPending,
       LockReserved, LockExclusive, tableVars
  <2>6. CASE ReleasePending(d) \/ GivePending(d) \/ GiveReserved(d) \/ Unprobe(d)
    BY <1>1, <2>6 DEF ReleasePending, GivePending, GiveReserved, Unprobe, UnlockPending,
       UnlockReserved
  <2>7. CASE DropRead(d) \/ GiveExclusive(d) \/ GiveRead(d)
    BY <1>1, <2>7 DEF DropRead, GiveExclusive, GiveRead, UnlockRange
  <2> QED
    BY <2>1, <2>2, <2>3, <2>4, <2>5, <2>6, <2>7 DEF LockStep
<1>3. CASE pc[c] = "lockRead"
  <2>1. locktype[c] = NO_LOCK
    BY <1>1, <1>3 DEF HandleOK, ControlOK
  <2> QED
    BY <1>1, <1>3, <2>1 DEF HandleOK, PendingBacked, NO_LOCK, SHARED_LOCK, RESERVED_LOCK
<1>4. CASE pc[c] = "relockRead"
  BY <1>1, <1>4 DEF HandleOK, ControlOK
<1> QED
  BY <1>2, <1>3, <1>4 DEF TryRead, RelockRead

\* While a handle has the PENDING byte, no other handle starts to read: the promise
\* that lets a waiting writer outlast its readers.
THEOREM PendingKeepsReadersOut == LockSpec => NoNewReaderUnderPending
<1>1. LockInv /\ [LockNext]_lockVars =>
        [\A c \in Conn : Reading(c)' /\ ~Reading(c) =>
           local[c].bPending \/ locktype[c] = EXCLUSIVE_LOCK]_lockVars
  BY ReaderStep
<1> QED
  BY <1>1, LockInvariant, PTL DEF LockSpec, NoNewReaderUnderPending

\* A step of the routines makes at most one byte-lock call.
LEMMA OneCallPerStep ==
  ASSUME LockNext
  PROVE  (\E c \in Conn : TableStep(c)) \/ UNCHANGED tableVars
<1>1. PICK c \in Conn : \/ Open(c) \/ Close(c) \/ Die(c) \/ CheckReserved(c)
                        \/ \E level \in SHARED_LOCK..EXCLUSIVE_LOCK : Lock(c, level)
                        \/ \E level \in {NO_LOCK, SHARED_LOCK} : Unlock(c, level)
                        \/ LockStep(c)
  BY DEF LockNext
<1>2. CASE Open(c) \/ Close(c) \/ Die(c)
  BY <1>2 DEF Open, Close, Die, TableStep
<1>3. CASE \/ CheckReserved(c)
           \/ \E level \in SHARED_LOCK..EXCLUSIVE_LOCK : Lock(c, level)
           \/ \E level \in {NO_LOCK, SHARED_LOCK} : Unlock(c, level)
  BY <1>3 DEF CheckReserved, Lock, Unlock
<1>4. CASE LockStep(c)
  BY <1>4 DEF LockStep, TryPending, TryRead, ReleasePending, TryReserved, DropRead,
     TryExclusive, GiveExclusive, RelockRead, GiveReserved, GiveRead, GivePending, Probe,
     Unprobe, TableStep
<1> QED
  BY <1>1, <1>2, <1>3, <1>4

\* The locking protocol, running on the emulated table, behaves as if it ran on the
\* byte locks of LockFile() and UnlockFile().
THEOREM TableImplementsByteLocks == LockSpec => ImplementsByteLocks
<1>1. LockInit => Bytes!Init
  BY DEF LockInit, TableInit, Bytes!Init, Readers, Reading, NoLocks
<1>2. LockInv /\ [LockNext]_lockVars => [Bytes!Next]_Bytes!lockVars
  <2> SUFFICES ASSUME LockInv, [LockNext]_lockVars
               PROVE  Bytes!Next \/ UNCHANGED Bytes!lockVars
    OBVIOUS
  <2>1. TableInv
    BY DEF LockInv
  <2>2. CASE UNCHANGED tableVars
    BY <2>2 DEF tableVars, Bytes!lockVars, Readers, Reading
  <2>3. CASE \E c \in Conn : TableStep(c)
    BY <2>1, <2>3, BytesStep
  <2>4. CASE UNCHANGED lockVars
    BY <2>2, <2>4 DEF lockVars, tableVars
  <2> QED
    BY <2>2, <2>3, <2>4, OneCallPerStep
<1> QED
  BY <1>1, <1>2, LockInvariant, PTL DEF LockSpec, ImplementsByteLocks, Bytes!Spec

==============================================================================
