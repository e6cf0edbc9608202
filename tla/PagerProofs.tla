----------------------------- MODULE PagerProofs -----------------------------
(***************************************************************************)
(* Proofs about the pager for any number of connections and pages. Every    *)
(* step of it is a step (or a stutter) of the five-level lock, so all that  *)
(* WinLockProofs shows of the lock holds under the pager; the database file *)
(* is stored to only by a pager that holds the whole lock range. Then, at   *)
(* every label of its routines a pager is in the right routine (LabelOK),   *)
(* is at the lock level it believes in, or on the way there (LockBacked),   *)
(* and its dirty, journalled and pending pages fit together (PagesOK):      *)
(* ControlInv is inductive, with one lemma for each action; the types       *)
(* follow from it, and that every request of a lock is a legal one          *)
(* (LegalCalls). As long as no pager goes on without its lock, one that has *)
(* a journal open has the RESERVED byte too (LockedInv).                    *)
(***************************************************************************)
EXTENDS Pager, WinLockProofs

\* sqlite3OsUnlock to NO_LOCK is a call of winUnlock, or returns at once.
LEMMA DropLockLocks ==
  ASSUME NEW c \in Conn, DropLock(c)
  PROVE  [LockNext]_lockVars
BY DEF DropLock, LockNext

\* pager_wait_on_lock is a call of winLock, or returns at once.
LEMMA WaitOnLockLocks ==
  ASSUME NEW c \in Conn, NEW label, WaitOnLock(c, label)
  PROVE  [LockNext]_lockVars
BY DEF WaitOnLock, LockNext, SHARED_LOCK, EXCLUSIVE_LOCK

\* Every operation of the pager makes at most one step of the locking routines: the
\* pager never touches a lock but through sqlite3OsLock and sqlite3OsUnlock.
LEMMA PagerStepLocks ==
  ASSUME NEW c \in Conn, PagerStep(c)
  PROVE  [LockNext]_lockVars
<1> USE DEF SHARED_LOCK, RESERVED_LOCK, EXCLUSIVE_LOCK, NO_LOCK
<1>1. CASE GetShared(c) \/ GotShared(c) \/ HasHotJournal(c) \/ Probed(c)
  BY <1>1 DEF GetShared, GotShared, HasHotJournal, Probed, LockNext
<1>2. CASE HotLocked(c) \/ OpenHotJournal(c)
  BY <1>2, DropLockLocks DEF HotLocked, OpenHotJournal
<1>3. CASE Begin(c) \/ GotReserved(c) \/ GotExclusive(c)
  BY <1>3 DEF Begin, GotReserved, GotExclusive, LockNext
<1>4. CASE OpenJournal(c)
  BY <1>4, DropLockLocks DEF OpenJournal
<1>5. CASE SyncJournal(c)
  BY <1>5, WaitOnLockLocks DEF SyncJournal
<1>6. CASE CloseJournal(c) \/ DeleteJournal(c)
  BY <1>6 DEF CloseJournal, DeleteJournal, LockNext
<1>7. CASE Unlocked(c)
  <2>1. CASE doing[c] \in {"reset", "leave", "shut"}
    <3>1. DropLock(c)
      BY <1>7, <2>1 DEF Unlocked
    <3> QED
      BY <3>1, DropLockLocks
  <2>2. CASE doing[c] \notin {"reset", "leave", "shut"}
    <3>1. UNCHANGED lockVars
      BY <1>7, <2>2 DEF Unlocked
    <3> QED
      BY <3>1
  <2> QED
    BY <2>1, <2>2
<1>8. CASE Reset(c) \/ Shut(c)
  BY <1>8, DropLockLocks DEF Reset, Shut, LetGo
<1>9. CASE Dropped(c)
  BY <1>9 DEF Dropped, LockNext
<1>10. CASE LateJournal(c) \/ Commit(c) \/ Stored(c) \/ PlayedBack(c) \/ Rollback(c)
  BY <1>10 DEF LateJournal, Commit, Stored, PlayedBack, Rollback
<1>11. ASSUME NEW p \in Page, Fetch(c, p) \/ Write(c, p) \/ StorePage(c, p) \/ PlaybackPage(c, p)
       PROVE  [LockNext]_lockVars
  BY <1>11 DEF Fetch, Write, StorePage, PlaybackPage
<1>12. ASSUME NEW p \in Page, Recycle(c, p)
       PROVE  [LockNext]_lockVars
  BY <1>12, WaitOnLockLocks DEF Recycle
<1> QED
  BY <1>1, <1>2, <1>3, <1>4, <1>5, <1>6, <1>7, <1>8, <1>9, <1>10, <1>11, <1>12
  DEF PagerStep

\* ... and so does every step of the system.
LEMMA PagerNextLocks ==
  ASSUME [PagerNext]_vars
  PROVE  [LockNext]_lockVars
<1>1. CASE UNCHANGED vars
  BY <1>1 DEF vars
<1>2. ASSUME NEW c \in Conn, Start(c) \/ Die1(c) \/ LockCall(c)
      PROVE  [LockNext]_lockVars
  BY <1>2 DEF Start, Die1, LockCall, LockNext
<1> QED
  BY <1>1, <1>2, PagerStepLocks DEF PagerNext

\* The pager uses the lock through the routines of LockSpec alone.
LEMMA PagerLocks == PagerSpec => LockSpec
<1>1. PagerInit => LockInit
  BY DEF PagerInit
<1> QED
  BY <1>1, PagerNextLocks, PTL DEF PagerSpec, LockSpec

------------------------------------------------------------------------------
(* The two automata stay in step. *)

\* Pager d is left alone by a step.
PagerUntouched(d) == /\ Untouched(d)
                     /\ pstate'[d] = pstate[d]
                     /\ dirty'[d] = dirty[d]
                     /\ inJournal'[d] = inJournal[d]
                     /\ at'[d] = at[d]
                     /\ doing'[d] = doing[d]
                     /\ JournalOpen(d)' = JournalOpen(d)

\* A pager that a step leaves alone stays in order.
LEMMA PagerUntouchedOK ==
  ASSUME NEW d \in Conn, StateBacked(d), JournalBacked(d), PagerUntouched(d)
  PROVE  StateBacked(d)' /\ JournalBacked(d)'
BY DEF PagerUntouched, Untouched, StateBacked, JournalBacked, Asking

\* The change counter's page is a page.
LEMMA Page1Known == Page1 \in Page
BY PagerAssumption

\* It is enough to look at the pager that moves.
LEMMA OnePagerMoves ==
  ASSUME StoreInv, NEW c \in Conn, LockInv', StepTypeOK', StateBacked(c)', JournalBacked(c)',
         \A d \in Conn \ {c} : PagerUntouched(d)
  PROVE  StoreInv'
BY PagerUntouchedOK DEF StoreInv

\* The SHARED lock is asked for.
LEMMA GetSharedKeeps ==
  ASSUME StoreInv, NEW c \in Conn, GetShared(c), LockInv'
  PROVE  StoreInv'
<1> USE PagerAssumption DEF GetShared
<1>1. LockTypeOK /\ StepTypeOK /\ StateBacked(c) /\ JournalBacked(c) /\ HandleOK(c)
  BY DEF StoreInv, LockInv
<1>2. StepTypeOK'
  BY <1>1, Page1Known DEF Lock, LegalRequest, NeedsPendingByte, Goto, Result, StepTypeOK, LockTypeOK, StateBacked, JournalBacked, Asking, JournalOpen,
      Reached, Resting, Idle, Go, Begins, Rest, State, NO_LOCK, SHARED_LOCK, RESERVED_LOCK, PENDING_LOCK, EXCLUSIVE_LOCK,
      PAGER_UNLOCK, PAGER_SHARED, PAGER_RESERVED, PAGER_EXCLUSIVE, PAGER_SYNCED,
      fileVars, cacheVars, stepVars, pagerVars, lockVars
<1>3. StateBacked(c)'
  BY <1>1 DEF Lock, LegalRequest, NeedsPendingByte, Goto, Result, StepTypeOK, LockTypeOK, StateBacked, JournalBacked, Asking, JournalOpen,
      Reached, Resting, Idle, Go, Begins, Rest, State, NO_LOCK, SHARED_LOCK, RESERVED_LOCK, PENDING_LOCK, EXCLUSIVE_LOCK,
      PAGER_UNLOCK, PAGER_SHARED, PAGER_RESERVED, PAGER_EXCLUSIVE, PAGER_SYNCED,
      fileVars, cacheVars, stepVars, pagerVars, lockVars, tableVars
<1>4. JournalBacked(c)'
  BY <1>1 DEF Lock, LegalRequest, NeedsPendingByte, Goto, Result, StepTypeOK, LockTypeOK, StateBacked, JournalBacked, Asking, JournalOpen,
      Reached, Resting, Idle, Go, Begins, Rest, State, NO_LOCK, SHARED_LOCK, RESERVED_LOCK, PENDING_LOCK, EXCLUSIVE_LOCK,
      PAGER_UNLOCK, PAGER_SHARED, PAGER_RESERVED, PAGER_EXCLUSIVE, PAGER_SYNCED,
      fileVars, cacheVars, stepVars, pagerVars, lockVars, tableVars
<1>5. \A d \in Conn \ {c} : PagerUntouched(d)
  BY <1>1 DEF Lock, LegalRequest, NeedsPendingByte, Goto, Result, StepTypeOK, LockTypeOK, StateBacked, JournalBacked, Asking, JournalOpen,
      Reached, Resting, Idle, Go, Begins, Rest, State, NO_LOCK, SHARED_LOCK, RESERVED_LOCK, PENDING_LOCK, EXCLUSIVE_LOCK,
      PAGER_UNLOCK, PAGER_SHARED, PAGER_RESERVED, PAGER_EXCLUSIVE, PAGER_SYNCED,
      fileVars, cacheVars, stepVars, pagerVars, lockVars, tableVars, PagerUntouched, Untouched
<1> QED
  BY <1>2, <1>3, <1>4, <1>5, OnePagerMoves

\* It is there, or it is not.
LEMMA GotSharedKeeps ==
  ASSUME StoreInv, NEW c \in Conn, GotShared(c), LockInv'
  PROVE  StoreInv'
<1> USE PagerAssumption DEF GotShared
<1>1. LockTypeOK /\ StepTypeOK /\ StateBacked(c) /\ JournalBacked(c) /\ HandleOK(c)
  BY DEF StoreInv, LockInv
<1>2. StepTypeOK'
  BY <1>1, Page1Known DEF Lock, LegalRequest, NeedsPendingByte, Goto, Result, StepTypeOK, LockTypeOK, StateBacked, JournalBacked, Asking, JournalOpen,
      Reached, Resting, Idle, Go, Begins, Rest, State, NO_LOCK, SHARED_LOCK, RESERVED_LOCK, PENDING_LOCK, EXCLUSIVE_LOCK,
      PAGER_UNLOCK, PAGER_SHARED, PAGER_RESERVED, PAGER_EXCLUSIVE, PAGER_SYNCED,
      fileVars, cacheVars, stepVars, pagerVars, lockVars
<1>3. StateBacked(c)'
  BY <1>1 DEF Lock, LegalRequest, NeedsPendingByte, Goto, Result, StepTypeOK, LockTypeOK, StateBacked, JournalBacked, Asking, JournalOpen,
      Reached, Resting, Idle, Go, Begins, Rest, State, NO_LOCK, SHARED_LOCK, RESERVED_LOCK, PENDING_LOCK, EXCLUSIVE_LOCK,
      PAGER_UNLOCK, PAGER_SHARED, PAGER_RESERVED, PAGER_EXCLUSIVE, PAGER_SYNCED,
      fileVars, cacheVars, stepVars, pagerVars, lockVars, tableVars
<1>4. JournalBacked(c)'
  BY <1>1 DEF Lock, LegalRequest, NeedsPendingByte, Goto, Result, StepTypeOK, LockTypeOK, StateBacked, JournalBacked, Asking, JournalOpen,
      Reached, Resting, Idle, Go, Begins, Rest, State, NO_LOCK, SHARED_LOCK, RESERVED_LOCK, PENDING_LOCK, EXCLUSIVE_LOCK,
      PAGER_UNLOCK, PAGER_SHARED, PAGER_RESERVED, PAGER_EXCLUSIVE, PAGER_SYNCED,
      fileVars, cacheVars, stepVars, pagerVars, lockVars, tableVars
<1>5. \A d \in Conn \ {c} : PagerUntouched(d)
  BY <1>1 DEF Lock, LegalRequest, NeedsPendingByte, Goto, Result, StepTypeOK, LockTypeOK, StateBacked, JournalBacked, Asking, JournalOpen,
      Reached, Resting, Idle, Go, Begins, Rest, State, NO_LOCK, SHARED_LOCK, RESERVED_LOCK, PENDING_LOCK, EXCLUSIVE_LOCK,
      PAGER_UNLOCK, PAGER_SHARED, PAGER_RESERVED, PAGER_EXCLUSIVE, PAGER_SYNCED,
      fileVars, cacheVars, stepVars, pagerVars, lockVars, tableVars, PagerUntouched, Untouched
<1> QED
  BY <1>2, <1>3, <1>4, <1>5, OnePagerMoves

\* The search for a hot journal.
LEMMA HasHotJournalKeeps ==
  ASSUME StoreInv, NEW c \in Conn, HasHotJournal(c), LockInv'
  PROVE  StoreInv'
<1> USE PagerAssumption DEF HasHotJournal
<1>1. LockTypeOK /\ StepTypeOK /\ StateBacked(c) /\ JournalBacked(c) /\ HandleOK(c)
  BY DEF StoreInv, LockInv
<1>2. StepTypeOK'
  BY <1>1, Page1Known DEF CheckReserved, Goto, StepTypeOK, LockTypeOK, StateBacked, JournalBacked, Asking, JournalOpen,
      Reached, Resting, Idle, Go, Begins, Rest, State, NO_LOCK, SHARED_LOCK, RESERVED_LOCK, PENDING_LOCK, EXCLUSIVE_LOCK,
      PAGER_UNLOCK, PAGER_SHARED, PAGER_RESERVED, PAGER_EXCLUSIVE, PAGER_SYNCED,
      fileVars, cacheVars, stepVars, pagerVars, lockVars
<1>3. StateBacked(c)'
  BY <1>1 DEF CheckReserved, Goto, StepTypeOK, LockTypeOK, StateBacked, JournalBacked, Asking, JournalOpen,
      Reached, Resting, Idle, Go, Begins, Rest, State, NO_LOCK, SHARED_LOCK, RESERVED_LOCK, PENDING_LOCK, EXCLUSIVE_LOCK,
      PAGER_UNLOCK, PAGER_SHARED, PAGER_RESERVED, PAGER_EXCLUSIVE, PAGER_SYNCED,
      fileVars, cacheVars, stepVars, pagerVars, lockVars, tableVars
<1>4. JournalBacked(c)'
  BY <1>1 DEF CheckReserved, Goto, StepTypeOK, LockTypeOK, StateBacked, JournalBacked, Asking, JournalOpen,
      Reached, Resting, Idle, Go, Begins, Rest, State, NO_LOCK, SHARED_LOCK, RESERVED_LOCK, PENDING_LOCK, EXCLUSIVE_LOCK,
      PAGER_UNLOCK, PAGER_SHARED, PAGER_RESERVED, PAGER_EXCLUSIVE, PAGER_SYNCED,
      fileVars, cacheVars, stepVars, pagerVars, lockVars, tableVars
<1>5. \A d \in Conn \ {c} : PagerUntouched(d)
  BY <1>1 DEF CheckReserved, Goto, StepTypeOK, LockTypeOK, StateBacked, JournalBacked, Asking, JournalOpen,
      Reached, Resting, Idle, Go, Begins, Rest, State, NO_LOCK, SHARED_LOCK, RESERVED_LOCK, PENDING_LOCK, EXCLUSIVE_LOCK,
      PAGER_UNLOCK, PAGER_SHARED, PAGER_RESERVED, PAGER_EXCLUSIVE, PAGER_SYNCED,
      fileVars, cacheVars, stepVars, pagerVars, lockVars, tableVars, PagerUntouched, Untouched
<1> QED
  BY <1>2, <1>3, <1>4, <1>5, OnePagerMoves

\* The search ends; a hot journal asks for EXCLUSIVE.
LEMMA ProbedKeeps ==
  ASSUME StoreInv, NEW c \in Conn, Probed(c), LockInv'
  PROVE  StoreInv'
<1> USE PagerAssumption DEF Probed
<1>1. LockTypeOK /\ StepTypeOK /\ StateBacked(c) /\ JournalBacked(c) /\ HandleOK(c)
  BY DEF StoreInv, LockInv
<1>2. StepTypeOK'
  BY <1>1, Page1Known DEF Lock, LegalRequest, NeedsPendingByte, Goto, Result, StepTypeOK, LockTypeOK, StateBacked, JournalBacked, Asking, JournalOpen,
      Reached, Resting, Idle, Go, Begins, Rest, State, NO_LOCK, SHARED_LOCK, RESERVED_LOCK, PENDING_LOCK, EXCLUSIVE_LOCK,
      PAGER_UNLOCK, PAGER_SHARED, PAGER_RESERVED, PAGER_EXCLUSIVE, PAGER_SYNCED,
      fileVars, cacheVars, stepVars, pagerVars, lockVars
<1>3. StateBacked(c)'
  BY <1>1 DEF Lock, LegalRequest, NeedsPendingByte, Goto, Result, StepTypeOK, LockTypeOK, StateBacked, JournalBacked, Asking, JournalOpen,
      Reached, Resting, Idle, Go, Begins, Rest, State, NO_LOCK, SHARED_LOCK, RESERVED_LOCK, PENDING_LOCK, EXCLUSIVE_LOCK,
      PAGER_UNLOCK, PAGER_SHARED, PAGER_RESERVED, PAGER_EXCLUSIVE, PAGER_SYNCED,
      fileVars, cacheVars, stepVars, pagerVars, lockVars, tableVars
<1>4. JournalBacked(c)'
  BY <1>1 DEF Lock, LegalRequest, NeedsPendingByte, Goto, Result, StepTypeOK, LockTypeOK, StateBacked, JournalBacked, Asking, JournalOpen,
      Reached, Resting, Idle, Go, Begins, Rest, State, NO_LOCK, SHARED_LOCK, RESERVED_LOCK, PENDING_LOCK, EXCLUSIVE_LOCK,
      PAGER_UNLOCK, PAGER_SHARED, PAGER_RESERVED, PAGER_EXCLUSIVE, PAGER_SYNCED,
      fileVars, cacheVars, stepVars, pagerVars, lockVars, tableVars
<1>5. \A d \in Conn \ {c} : PagerUntouched(d)
  BY <1>1 DEF Lock, LegalRequest, NeedsPendingByte, Goto, Result, StepTypeOK, LockTypeOK, StateBacked, JournalBacked, Asking, JournalOpen,
      Reached, Resting, Idle, Go, Begins, Rest, State, NO_LOCK, SHARED_LOCK, RESERVED_LOCK, PENDING_LOCK, EXCLUSIVE_LOCK,
      PAGER_UNLOCK, PAGER_SHARED, PAGER_RESERVED, PAGER_EXCLUSIVE, PAGER_SYNCED,
      fileVars, cacheVars, stepVars, pagerVars, lockVars, tableVars, PagerUntouched, Untouched
<1> QED
  BY <1>2, <1>3, <1>4, <1>5, OnePagerMoves

\* EXCLUSIVE is there for the playback, or every lock is dropped.
LEMMA HotLockedKeeps ==
  ASSUME StoreInv, NEW c \in Conn, HotLocked(c), LockInv'
  PROVE  StoreInv'
<1> USE PagerAssumption DEF HotLocked
<1>1. LockTypeOK /\ StepTypeOK /\ StateBacked(c) /\ JournalBacked(c) /\ HandleOK(c)
  BY DEF StoreInv, LockInv
<1>2. StepTypeOK'
  BY <1>1, Page1Known DEF DropLock, Unlock, Goto, Result, StepTypeOK, LockTypeOK, StateBacked, JournalBacked, Asking, JournalOpen,
      Reached, Resting, Idle, Go, Begins, Rest, State, NO_LOCK, SHARED_LOCK, RESERVED_LOCK, PENDING_LOCK, EXCLUSIVE_LOCK,
      PAGER_UNLOCK, PAGER_SHARED, PAGER_RESERVED, PAGER_EXCLUSIVE, PAGER_SYNCED,
      fileVars, cacheVars, stepVars, pagerVars, lockVars
<1>3. StateBacked(c)'
  BY <1>1 DEF DropLock, Unlock, Goto, Result, StepTypeOK, LockTypeOK, StateBacked, JournalBacked, Asking, JournalOpen,
      Reached, Resting, Idle, Go, Begins, Rest, State, NO_LOCK, SHARED_LOCK, RESERVED_LOCK, PENDING_LOCK, EXCLUSIVE_LOCK,
      PAGER_UNLOCK, PAGER_SHARED, PAGER_RESERVED, PAGER_EXCLUSIVE, PAGER_SYNCED,
      fileVars, cacheVars, stepVars, pagerVars, lockVars, tableVars
<1>4. JournalBacked(c)'
  BY <1>1 DEF DropLock, Unlock, Goto, Result, StepTypeOK, LockTypeOK, StateBacked, JournalBacked, Asking, JournalOpen,
      Reached, Resting, Idle, Go, Begins, Rest, State, NO_LOCK, SHARED_LOCK, RESERVED_LOCK, PENDING_LOCK, EXCLUSIVE_LOCK,
      PAGER_UNLOCK, PAGER_SHARED, PAGER_RESERVED, PAGER_EXCLUSIVE, PAGER_SYNCED,
      fileVars, cacheVars, stepVars, pagerVars, lockVars, tableVars
<1>5. \A d \in Conn \ {c} : PagerUntouched(d)
  BY <1>1 DEF DropLock, Unlock, Goto, Result, StepTypeOK, LockTypeOK, StateBacked, JournalBacked, Asking, JournalOpen,
      Reached, Resting, Idle, Go, Begins, Rest, State, NO_LOCK, SHARED_LOCK, RESERVED_LOCK, PENDING_LOCK, EXCLUSIVE_LOCK,
      PAGER_UNLOCK, PAGER_SHARED, PAGER_RESERVED, PAGER_EXCLUSIVE, PAGER_SYNCED,
      fileVars, cacheVars, stepVars, pagerVars, lockVars, tableVars, PagerUntouched, Untouched
<1> QED
  BY <1>2, <1>3, <1>4, <1>5, OnePagerMoves

\* The hot journal is opened, or every lock is dropped.
LEMMA OpenHotJournalKeeps ==
  ASSUME StoreInv, NEW c \in Conn, OpenHotJournal(c), LockInv'
  PROVE  StoreInv'
<1> USE PagerAssumption DEF OpenHotJournal
<1>1. LockTypeOK /\ StepTypeOK /\ StateBacked(c) /\ JournalBacked(c) /\ HandleOK(c)
  BY DEF StoreInv, LockInv
<1>2. StepTypeOK'
  BY <1>1, Page1Known DEF DropLock, Unlock, Goto, Result, StepTypeOK, LockTypeOK, StateBacked, JournalBacked, Asking, JournalOpen,
      Reached, Resting, Idle, Go, Begins, Rest, State, NO_LOCK, SHARED_LOCK, RESERVED_LOCK, PENDING_LOCK, EXCLUSIVE_LOCK,
      PAGER_UNLOCK, PAGER_SHARED, PAGER_RESERVED, PAGER_EXCLUSIVE, PAGER_SYNCED,
      fileVars, cacheVars, stepVars, pagerVars, lockVars
<1>3. StateBacked(c)'
  BY <1>1 DEF DropLock, Unlock, Goto, Result, StepTypeOK, LockTypeOK, StateBacked, JournalBacked, Asking, JournalOpen,
      Reached, Resting, Idle, Go, Begins, Rest, State, NO_LOCK, SHARED_LOCK, RESERVED_LOCK, PENDING_LOCK, EXCLUSIVE_LOCK,
      PAGER_UNLOCK, PAGER_SHARED, PAGER_RESERVED, PAGER_EXCLUSIVE, PAGER_SYNCED,
      fileVars, cacheVars, stepVars, pagerVars, lockVars, tableVars
<1>4. JournalBacked(c)'
  BY <1>1 DEF DropLock, Unlock, Goto, Result, StepTypeOK, LockTypeOK, StateBacked, JournalBacked, Asking, JournalOpen,
      Reached, Resting, Idle, Go, Begins, Rest, State, NO_LOCK, SHARED_LOCK, RESERVED_LOCK, PENDING_LOCK, EXCLUSIVE_LOCK,
      PAGER_UNLOCK, PAGER_SHARED, PAGER_RESERVED, PAGER_EXCLUSIVE, PAGER_SYNCED,
      fileVars, cacheVars, stepVars, pagerVars, lockVars, tableVars
<1>5. \A d \in Conn \ {c} : PagerUntouched(d)
  BY <1>1 DEF DropLock, Unlock, Goto, Result, StepTypeOK, LockTypeOK, StateBacked, JournalBacked, Asking, JournalOpen,
      Reached, Resting, Idle, Go, Begins, Rest, State, NO_LOCK, SHARED_LOCK, RESERVED_LOCK, PENDING_LOCK, EXCLUSIVE_LOCK,
      PAGER_UNLOCK, PAGER_SHARED, PAGER_RESERVED, PAGER_EXCLUSIVE, PAGER_SYNCED,
      fileVars, cacheVars, stepVars, pagerVars, lockVars, tableVars, PagerUntouched, Untouched
<1> QED
  BY <1>2, <1>3, <1>4, <1>5, OnePagerMoves

\* RESERVED is asked for.
LEMMA BeginKeeps ==
  ASSUME StoreInv, NEW c \in Conn, Begin(c), LockInv'
  PROVE  StoreInv'
<1> USE PagerAssumption DEF Begin
<1>1. LockTypeOK /\ StepTypeOK /\ StateBacked(c) /\ JournalBacked(c) /\ HandleOK(c)
  BY DEF StoreInv, LockInv
<1>2. StepTypeOK'
  BY <1>1, Page1Known DEF Lock, LegalRequest, NeedsPendingByte, Goto, Result, StepTypeOK, LockTypeOK, StateBacked, JournalBacked, Asking, JournalOpen,
      Reached, Resting, Idle, Go, Begins, Rest, State, NO_LOCK, SHARED_LOCK, RESERVED_LOCK, PENDING_LOCK, EXCLUSIVE_LOCK,
      PAGER_UNLOCK, PAGER_SHARED, PAGER_RESERVED, PAGER_EXCLUSIVE, PAGER_SYNCED,
      fileVars, cacheVars, stepVars, pagerVars, lockVars
<1>3. StateBacked(c)'
  BY <1>1 DEF Lock, LegalRequest, NeedsPendingByte, Goto, Result, StepTypeOK, LockTypeOK, StateBacked, JournalBacked, Asking, JournalOpen,
      Reached, Resting, Idle, Go, Begins, Rest, State, NO_LOCK, SHARED_LOCK, RESERVED_LOCK, PENDING_LOCK, EXCLUSIVE_LOCK,
      PAGER_UNLOCK, PAGER_SHARED, PAGER_RESERVED, PAGER_EXCLUSIVE, PAGER_SYNCED,
      fileVars, cacheVars, stepVars, pagerVars, lockVars, tableVars
<1>4. JournalBacked(c)'
  BY <1>1 DEF Lock, LegalRequest, NeedsPendingByte, Goto, Result, StepTypeOK, LockTypeOK, StateBacked, JournalBacked, Asking, JournalOpen,
      Reached, Resting, Idle, Go, Begins, Rest, State, NO_LOCK, SHARED_LOCK, RESERVED_LOCK, PENDING_LOCK, EXCLUSIVE_LOCK,
      PAGER_UNLOCK, PAGER_SHARED, PAGER_RESERVED, PAGER_EXCLUSIVE, PAGER_SYNCED,
      fileVars, cacheVars, stepVars, pagerVars, lockVars, tableVars
<1>5. \A d \in Conn \ {c} : PagerUntouched(d)
  BY <1>1 DEF Lock, LegalRequest, NeedsPendingByte, Goto, Result, StepTypeOK, LockTypeOK, StateBacked, JournalBacked, Asking, JournalOpen,
      Reached, Resting, Idle, Go, Begins, Rest, State, NO_LOCK, SHARED_LOCK, RESERVED_LOCK, PENDING_LOCK, EXCLUSIVE_LOCK,
      PAGER_UNLOCK, PAGER_SHARED, PAGER_RESERVED, PAGER_EXCLUSIVE, PAGER_SYNCED,
      fileVars, cacheVars, stepVars, pagerVars, lockVars, tableVars, PagerUntouched, Untouched
<1> QED
  BY <1>2, <1>3, <1>4, <1>5, OnePagerMoves

\* It is there, or it is not.
LEMMA GotReservedKeeps ==
  ASSUME StoreInv, NEW c \in Conn, GotReserved(c), LockInv'
  PROVE  StoreInv'
<1> USE PagerAssumption DEF GotReserved
<1>1. LockTypeOK /\ StepTypeOK /\ StateBacked(c) /\ JournalBacked(c) /\ HandleOK(c)
  BY DEF StoreInv, LockInv
<1>2. StepTypeOK'
  BY <1>1, Page1Known DEF Lock, LegalRequest, NeedsPendingByte, Goto, Result, StepTypeOK, LockTypeOK, StateBacked, JournalBacked, Asking, JournalOpen,
      Reached, Resting, Idle, Go, Begins, Rest, State, NO_LOCK, SHARED_LOCK, RESERVED_LOCK, PENDING_LOCK, EXCLUSIVE_LOCK,
      PAGER_UNLOCK, PAGER_SHARED, PAGER_RESERVED, PAGER_EXCLUSIVE, PAGER_SYNCED,
      fileVars, cacheVars, stepVars, pagerVars, lockVars
<1>3. StateBacked(c)'
  BY <1>1 DEF Lock, LegalRequest, NeedsPendingByte, Goto, Result, StepTypeOK, LockTypeOK, StateBacked, JournalBacked, Asking, JournalOpen,
      Reached, Resting, Idle, Go, Begins, Rest, State, NO_LOCK, SHARED_LOCK, RESERVED_LOCK, PENDING_LOCK, EXCLUSIVE_LOCK,
      PAGER_UNLOCK, PAGER_SHARED, PAGER_RESERVED, PAGER_EXCLUSIVE, PAGER_SYNCED,
      fileVars, cacheVars, stepVars, pagerVars, lockVars, tableVars
<1>4. JournalBacked(c)'
  BY <1>1 DEF Lock, LegalRequest, NeedsPendingByte, Goto, Result, StepTypeOK, LockTypeOK, StateBacked, JournalBacked, Asking, JournalOpen,
      Reached, Resting, Idle, Go, Begins, Rest, State, NO_LOCK, SHARED_LOCK, RESERVED_LOCK, PENDING_LOCK, EXCLUSIVE_LOCK,
      PAGER_UNLOCK, PAGER_SHARED, PAGER_RESERVED, PAGER_EXCLUSIVE, PAGER_SYNCED,
      fileVars, cacheVars, stepVars, pagerVars, lockVars, tableVars
<1>5. \A d \in Conn \ {c} : PagerUntouched(d)
  BY <1>1 DEF Lock, LegalRequest, NeedsPendingByte, Goto, Result, StepTypeOK, LockTypeOK, StateBacked, JournalBacked, Asking, JournalOpen,
      Reached, Resting, Idle, Go, Begins, Rest, State, NO_LOCK, SHARED_LOCK, RESERVED_LOCK, PENDING_LOCK, EXCLUSIVE_LOCK,
      PAGER_UNLOCK, PAGER_SHARED, PAGER_RESERVED, PAGER_EXCLUSIVE, PAGER_SYNCED,
      fileVars, cacheVars, stepVars, pagerVars, lockVars, tableVars, PagerUntouched, Untouched
<1> QED
  BY <1>2, <1>3, <1>4, <1>5, OnePagerMoves

\* EXCLUSIVE is there, is asked for again, or is not.
LEMMA GotExclusiveKeeps ==
  ASSUME StoreInv, NEW c \in Conn, GotExclusive(c), LockInv'
  PROVE  StoreInv'
<1> USE PagerAssumption DEF GotExclusive
<1>1. LockTypeOK /\ StepTypeOK /\ StateBacked(c) /\ JournalBacked(c) /\ HandleOK(c)
  BY DEF StoreInv, LockInv
<1>2. StepTypeOK'
  BY <1>1, Page1Known DEF Lock, LegalRequest, NeedsPendingByte, Goto, Result, StepTypeOK, LockTypeOK, StateBacked, JournalBacked, Asking, JournalOpen,
      Reached, Resting, Idle, Go, Begins, Rest, State, NO_LOCK, SHARED_LOCK, RESERVED_LOCK, PENDING_LOCK, EXCLUSIVE_LOCK,
      PAGER_UNLOCK, PAGER_SHARED, PAGER_RESERVED, PAGER_EXCLUSIVE, PAGER_SYNCED,
      fileVars, cacheVars, stepVars, pagerVars, lockVars
<1>3. StateBacked(c)'
  BY <1>1 DEF Lock, LegalRequest, NeedsPendingByte, Goto, Result, StepTypeOK, LockTypeOK, StateBacked, JournalBacked, Asking, JournalOpen,
      Reached, Resting, Idle, Go, Begins, Rest, State, NO_LOCK, SHARED_LOCK, RESERVED_LOCK, PENDING_LOCK, EXCLUSIVE_LOCK,
      PAGER_UNLOCK, PAGER_SHARED, PAGER_RESERVED, PAGER_EXCLUSIVE, PAGER_SYNCED,
      fileVars, cacheVars, stepVars, pagerVars, lockVars, tableVars
<1>4. JournalBacked(c)'
  BY <1>1 DEF Lock, LegalRequest, NeedsPendingByte, Goto, Result, StepTypeOK, LockTypeOK, StateBacked, JournalBacked, Asking, JournalOpen,
      Reached, Resting, Idle, Go, Begins, Rest, State, NO_LOCK, SHARED_LOCK, RESERVED_LOCK, PENDING_LOCK, EXCLUSIVE_LOCK,
      PAGER_UNLOCK, PAGER_SHARED, PAGER_RESERVED, PAGER_EXCLUSIVE, PAGER_SYNCED,
      fileVars, cacheVars, stepVars, pagerVars, lockVars, tableVars
<1>5. \A d \in Conn \ {c} : PagerUntouched(d)
  BY <1>1 DEF Lock, LegalRequest, NeedsPendingByte, Goto, Result, StepTypeOK, LockTypeOK, StateBacked, JournalBacked, Asking, JournalOpen,
      Reached, Resting, Idle, Go, Begins, Rest, State, NO_LOCK, SHARED_LOCK, RESERVED_LOCK, PENDING_LOCK, EXCLUSIVE_LOCK,
      PAGER_UNLOCK, PAGER_SHARED, PAGER_RESERVED, PAGER_EXCLUSIVE, PAGER_SYNCED,
      fileVars, cacheVars, stepVars, pagerVars, lockVars, tableVars, PagerUntouched, Untouched
<1> QED
  BY <1>2, <1>3, <1>4, <1>5, OnePagerMoves

\* The journal is made, or every lock is dropped.
LEMMA OpenJournalKeeps ==
  ASSUME StoreInv, NEW c \in Conn, OpenJournal(c), LockInv'
  PROVE  StoreInv'
<1> USE PagerAssumption DEF OpenJournal
<1>1. LockTypeOK /\ StepTypeOK /\ StateBacked(c) /\ JournalBacked(c) /\ HandleOK(c)
  BY DEF StoreInv, LockInv
<1>2. StepTypeOK'
  BY <1>1, Page1Known DEF DropLock, Unlock, Goto, Result, StepTypeOK, LockTypeOK, StateBacked, JournalBacked, Asking, JournalOpen,
      Reached, Resting, Idle, Go, Begins, Rest, State, NO_LOCK, SHARED_LOCK, RESERVED_LOCK, PENDING_LOCK, EXCLUSIVE_LOCK,
      PAGER_UNLOCK, PAGER_SHARED, PAGER_RESERVED, PAGER_EXCLUSIVE, PAGER_SYNCED,
      fileVars, cacheVars, stepVars, pagerVars, lockVars
<1>3. StateBacked(c)'
  BY <1>1 DEF DropLock, Unlock, Goto, Result, StepTypeOK, LockTypeOK, StateBacked, JournalBacked, Asking, JournalOpen,
      Reached, Resting, Idle, Go, Begins, Rest, State, NO_LOCK, SHARED_LOCK, RESERVED_LOCK, PENDING_LOCK, EXCLUSIVE_LOCK,
      PAGER_UNLOCK, PAGER_SHARED, PAGER_RESERVED, PAGER_EXCLUSIVE, PAGER_SYNCED,
      fileVars, cacheVars, stepVars, pagerVars, lockVars, tableVars
<1>4. JournalBacked(c)'
  BY <1>1 DEF DropLock, Unlock, Goto, Result, StepTypeOK, LockTypeOK, StateBacked, JournalBacked, Asking, JournalOpen,
      Reached, Resting, Idle, Go, Begins, Rest, State, NO_LOCK, SHARED_LOCK, RESERVED_LOCK, PENDING_LOCK, EXCLUSIVE_LOCK,
      PAGER_UNLOCK, PAGER_SHARED, PAGER_RESERVED, PAGER_EXCLUSIVE, PAGER_SYNCED,
      fileVars, cacheVars, stepVars, pagerVars, lockVars, tableVars
<1>5. \A d \in Conn \ {c} : PagerUntouched(d)
  BY <1>1 DEF DropLock, Unlock, Goto, Result, StepTypeOK, LockTypeOK, StateBacked, JournalBacked, Asking, JournalOpen,
      Reached, Resting, Idle, Go, Begins, Rest, State, NO_LOCK, SHARED_LOCK, RESERVED_LOCK, PENDING_LOCK, EXCLUSIVE_LOCK,
      PAGER_UNLOCK, PAGER_SHARED, PAGER_RESERVED, PAGER_EXCLUSIVE, PAGER_SYNCED,
      fileVars, cacheVars, stepVars, pagerVars, lockVars, tableVars, PagerUntouched, Untouched
<1> QED
  BY <1>2, <1>3, <1>4, <1>5, OnePagerMoves

\* The journal of a transaction that has none yet.
LEMMA LateJournalKeeps ==
  ASSUME StoreInv, NEW c \in Conn, LateJournal(c), LockInv'
  PROVE  StoreInv'
<1> USE PagerAssumption DEF LateJournal
<1>1. LockTypeOK /\ StepTypeOK /\ StateBacked(c) /\ JournalBacked(c) /\ HandleOK(c)
  BY DEF StoreInv, LockInv
<1>2. StepTypeOK'
  BY <1>1, Page1Known DEF StepTypeOK, LockTypeOK, StateBacked, JournalBacked, Asking, JournalOpen,
      Reached, Resting, Idle, Go, Begins, Rest, State, NO_LOCK, SHARED_LOCK, RESERVED_LOCK, PENDING_LOCK, EXCLUSIVE_LOCK,
      PAGER_UNLOCK, PAGER_SHARED, PAGER_RESERVED, PAGER_EXCLUSIVE, PAGER_SYNCED,
      fileVars, cacheVars, stepVars, pagerVars, lockVars
<1>3. StateBacked(c)'
  BY <1>1 DEF StepTypeOK, LockTypeOK, StateBacked, JournalBacked, Asking, JournalOpen,
      Reached, Resting, Idle, Go, Begins, Rest, State, NO_LOCK, SHARED_LOCK, RESERVED_LOCK, PENDING_LOCK, EXCLUSIVE_LOCK,
      PAGER_UNLOCK, PAGER_SHARED, PAGER_RESERVED, PAGER_EXCLUSIVE, PAGER_SYNCED,
      fileVars, cacheVars, stepVars, pagerVars, lockVars, tableVars
<1>4. JournalBacked(c)'
  BY <1>1 DEF StepTypeOK, LockTypeOK, StateBacked, JournalBacked, Asking, JournalOpen,
      Reached, Resting, Idle, Go, Begins, Rest, State, NO_LOCK, SHARED_LOCK, RESERVED_LOCK, PENDING_LOCK, EXCLUSIVE_LOCK,
      PAGER_UNLOCK, PAGER_SHARED, PAGER_RESERVED, PAGER_EXCLUSIVE, PAGER_SYNCED,
      fileVars, cacheVars, stepVars, pagerVars, lockVars, tableVars
<1>5. \A d \in Conn \ {c} : PagerUntouched(d)
  BY <1>1 DEF StepTypeOK, LockTypeOK, StateBacked, JournalBacked, Asking, JournalOpen,
      Reached, Resting, Idle, Go, Begins, Rest, State, NO_LOCK, SHARED_LOCK, RESERVED_LOCK, PENDING_LOCK, EXCLUSIVE_LOCK,
      PAGER_UNLOCK, PAGER_SHARED, PAGER_RESERVED, PAGER_EXCLUSIVE, PAGER_SYNCED,
      fileVars, cacheVars, stepVars, pagerVars, lockVars, tableVars, PagerUntouched, Untouched
<1> QED
  BY <1>2, <1>3, <1>4, <1>5, OnePagerMoves

\* A commit begins.
LEMMA CommitKeeps ==
  ASSUME StoreInv, NEW c \in Conn, Commit(c), LockInv'
  PROVE  StoreInv'
<1> USE PagerAssumption DEF Commit
<1>1. LockTypeOK /\ StepTypeOK /\ StateBacked(c) /\ JournalBacked(c) /\ HandleOK(c)
  BY DEF StoreInv, LockInv
<1>2. StepTypeOK'
  BY <1>1, Page1Known DEF Change, DirtyCache, StepTypeOK, LockTypeOK, StateBacked, JournalBacked, Asking, JournalOpen,
      Reached, Resting, Idle, Go, Begins, Rest, State, NO_LOCK, SHARED_LOCK, RESERVED_LOCK, PENDING_LOCK, EXCLUSIVE_LOCK,
      PAGER_UNLOCK, PAGER_SHARED, PAGER_RESERVED, PAGER_EXCLUSIVE, PAGER_SYNCED,
      fileVars, cacheVars, stepVars, pagerVars, lockVars
<1>3. StateBacked(c)'
  BY <1>1 DEF Change, DirtyCache, StepTypeOK, LockTypeOK, StateBacked, JournalBacked, Asking, JournalOpen,
      Reached, Resting, Idle, Go, Begins, Rest, State, NO_LOCK, SHARED_LOCK, RESERVED_LOCK, PENDING_LOCK, EXCLUSIVE_LOCK,
      PAGER_UNLOCK, PAGER_SHARED, PAGER_RESERVED, PAGER_EXCLUSIVE, PAGER_SYNCED,
      fileVars, cacheVars, stepVars, pagerVars, lockVars, tableVars
<1>4. JournalBacked(c)'
  BY <1>1 DEF Change, DirtyCache, StepTypeOK, LockTypeOK, StateBacked, JournalBacked, Asking, JournalOpen,
      Reached, Resting, Idle, Go, Begins, Rest, State, NO_LOCK, SHARED_LOCK, RESERVED_LOCK, PENDING_LOCK, EXCLUSIVE_LOCK,
      PAGER_UNLOCK, PAGER_SHARED, PAGER_RESERVED, PAGER_EXCLUSIVE, PAGER_SYNCED,
      fileVars, cacheVars, stepVars, pagerVars, lockVars, tableVars
<1>5. \A d \in Conn \ {c} : PagerUntouched(d)
  BY <1>1 DEF Change, DirtyCache, StepTypeOK, LockTypeOK, StateBacked, JournalBacked, Asking, JournalOpen,
      Reached, Resting, Idle, Go, Begins, Rest, State, NO_LOCK, SHARED_LOCK, RESERVED_LOCK, PENDING_LOCK, EXCLUSIVE_LOCK,
      PAGER_UNLOCK, PAGER_SHARED, PAGER_RESERVED, PAGER_EXCLUSIVE, PAGER_SYNCED,
      fileVars, cacheVars, stepVars, pagerVars, lockVars, tableVars, PagerUntouched, Untouched
<1> QED
  BY <1>2, <1>3, <1>4, <1>5, OnePagerMoves

\* The journal is synced, then EXCLUSIVE is asked for.
LEMMA SyncJournalKeeps ==
  ASSUME StoreInv, NEW c \in Conn, SyncJournal(c), LockInv'
  PROVE  StoreInv'
<1> USE PagerAssumption DEF SyncJournal
<1>1. LockTypeOK /\ StepTypeOK /\ StateBacked(c) /\ JournalBacked(c) /\ HandleOK(c)
  BY DEF StoreInv, LockInv
<1>2. StepTypeOK'
  BY <1>1, Page1Known DEF WaitOnLock, Lock, LegalRequest, NeedsPendingByte, Goto, Result, StepTypeOK, LockTypeOK, StateBacked, JournalBacked, Asking, JournalOpen,
      Reached, Resting, Idle, Go, Begins, Rest, State, NO_LOCK, SHARED_LOCK, RESERVED_LOCK, PENDING_LOCK, EXCLUSIVE_LOCK,
      PAGER_UNLOCK, PAGER_SHARED, PAGER_RESERVED, PAGER_EXCLUSIVE, PAGER_SYNCED,
      fileVars, cacheVars, stepVars, pagerVars, lockVars
<1>3. StateBacked(c)'
  BY <1>1 DEF WaitOnLock, Lock, LegalRequest, NeedsPendingByte, Goto, Result, StepTypeOK, LockTypeOK, StateBacked, JournalBacked, Asking, JournalOpen,
      Reached, Resting, Idle, Go, Begins, Rest, State, NO_LOCK, SHARED_LOCK, RESERVED_LOCK, PENDING_LOCK, EXCLUSIVE_LOCK,
      PAGER_UNLOCK, PAGER_SHARED, PAGER_RESERVED, PAGER_EXCLUSIVE, PAGER_SYNCED,
      fileVars, cacheVars, stepVars, pagerVars, lockVars, tableVars
<1>4. JournalBacked(c)'
  BY <1>1 DEF WaitOnLock, Lock, LegalRequest, NeedsPendingByte, Goto, Result, StepTypeOK, LockTypeOK, StateBacked, JournalBacked, Asking, JournalOpen,
      Reached, Resting, Idle, Go, Begins, Rest, State, NO_LOCK, SHARED_LOCK, RESERVED_LOCK, PENDING_LOCK, EXCLUSIVE_LOCK,
      PAGER_UNLOCK, PAGER_SHARED, PAGER_RESERVED, PAGER_EXCLUSIVE, PAGER_SYNCED,
      fileVars, cacheVars, stepVars, pagerVars, lockVars, tableVars
<1>5. \A d \in Conn \ {c} : PagerUntouched(d)
  BY <1>1 DEF WaitOnLock, Lock, LegalRequest, NeedsPendingByte, Goto, Result, StepTypeOK, LockTypeOK, StateBacked, JournalBacked, Asking, JournalOpen,
      Reached, Resting, Idle, Go, Begins, Rest, State, NO_LOCK, SHARED_LOCK, RESERVED_LOCK, PENDING_LOCK, EXCLUSIVE_LOCK,
      PAGER_UNLOCK, PAGER_SHARED, PAGER_RESERVED, PAGER_EXCLUSIVE, PAGER_SYNCED,
      fileVars, cacheVars, stepVars, pagerVars, lockVars, tableVars, PagerUntouched, Untouched
<1> QED
  BY <1>2, <1>3, <1>4, <1>5, OnePagerMoves

\* The pages are stored.
LEMMA StoredKeeps ==
  ASSUME StoreInv, NEW c \in Conn, Stored(c), LockInv'
  PROVE  StoreInv'
<1> USE PagerAssumption DEF Stored
<1>1. LockTypeOK /\ StepTypeOK /\ StateBacked(c) /\ JournalBacked(c) /\ HandleOK(c)
  BY DEF StoreInv, LockInv
<1>2. StepTypeOK'
  BY <1>1, Page1Known DEF StepTypeOK, LockTypeOK, StateBacked, JournalBacked, Asking, JournalOpen,
      Reached, Resting, Idle, Go, Begins, Rest, State, NO_LOCK, SHARED_LOCK, RESERVED_LOCK, PENDING_LOCK, EXCLUSIVE_LOCK,
      PAGER_UNLOCK, PAGER_SHARED, PAGER_RESERVED, PAGER_EXCLUSIVE, PAGER_SYNCED,
      fileVars, cacheVars, stepVars, pagerVars, lockVars
<1>3. StateBacked(c)'
  BY <1>1 DEF StepTypeOK, LockTypeOK, StateBacked, JournalBacked, Asking, JournalOpen,
      Reached, Resting, Idle, Go, Begins, Rest, State, NO_LOCK, SHARED_LOCK, RESERVED_LOCK, PENDING_LOCK, EXCLUSIVE_LOCK,
      PAGER_UNLOCK, PAGER_SHARED, PAGER_RESERVED, PAGER_EXCLUSIVE, PAGER_SYNCED,
      fileVars, cacheVars, stepVars, pagerVars, lockVars, tableVars
<1>4. JournalBacked(c)'
  BY <1>1 DEF StepTypeOK, LockTypeOK, StateBacked, JournalBacked, Asking, JournalOpen,
      Reached, Resting, Idle, Go, Begins, Rest, State, NO_LOCK, SHARED_LOCK, RESERVED_LOCK, PENDING_LOCK, EXCLUSIVE_LOCK,
      PAGER_UNLOCK, PAGER_SHARED, PAGER_RESERVED, PAGER_EXCLUSIVE, PAGER_SYNCED,
      fileVars, cacheVars, stepVars, pagerVars, lockVars, tableVars
<1>5. \A d \in Conn \ {c} : PagerUntouched(d)
  BY <1>1 DEF StepTypeOK, LockTypeOK, StateBacked, JournalBacked, Asking, JournalOpen,
      Reached, Resting, Idle, Go, Begins, Rest, State, NO_LOCK, SHARED_LOCK, RESERVED_LOCK, PENDING_LOCK, EXCLUSIVE_LOCK,
      PAGER_UNLOCK, PAGER_SHARED, PAGER_RESERVED, PAGER_EXCLUSIVE, PAGER_SYNCED,
      fileVars, cacheVars, stepVars, pagerVars, lockVars, tableVars, PagerUntouched, Untouched
<1> QED
  BY <1>2, <1>3, <1>4, <1>5, OnePagerMoves

\* The pages are played back.
LEMMA PlayedBackKeeps ==
  ASSUME StoreInv, NEW c \in Conn, PlayedBack(c), LockInv'
  PROVE  StoreInv'
<1> USE PagerAssumption DEF PlayedBack
<1>1. LockTypeOK /\ StepTypeOK /\ StateBacked(c) /\ JournalBacked(c) /\ HandleOK(c)
  BY DEF StoreInv, LockInv
<1>2. StepTypeOK'
  BY <1>1, Page1Known DEF StepTypeOK, LockTypeOK, StateBacked, JournalBacked, Asking, JournalOpen,
      Reached, Resting, Idle, Go, Begins, Rest, State, NO_LOCK, SHARED_LOCK, RESERVED_LOCK, PENDING_LOCK, EXCLUSIVE_LOCK,
      PAGER_UNLOCK, PAGER_SHARED, PAGER_RESERVED, PAGER_EXCLUSIVE, PAGER_SYNCED,
      fileVars, cacheVars, stepVars, pagerVars, lockVars
<1>3. StateBacked(c)'
  BY <1>1 DEF StepTypeOK, LockTypeOK, StateBacked, JournalBacked, Asking, JournalOpen,
      Reached, Resting, Idle, Go, Begins, Rest, State, NO_LOCK, SHARED_LOCK, RESERVED_LOCK, PENDING_LOCK, EXCLUSIVE_LOCK,
      PAGER_UNLOCK, PAGER_SHARED, PAGER_RESERVED, PAGER_EXCLUSIVE, PAGER_SYNCED,
      fileVars, cacheVars, stepVars, pagerVars, lockVars, tableVars
<1>4. JournalBacked(c)'
  BY <1>1 DEF StepTypeOK, LockTypeOK, StateBacked, JournalBacked, Asking, JournalOpen,
      Reached, Resting, Idle, Go, Begins, Rest, State, NO_LOCK, SHARED_LOCK, RESERVED_LOCK, PENDING_LOCK, EXCLUSIVE_LOCK,
      PAGER_UNLOCK, PAGER_SHARED, PAGER_RESERVED, PAGER_EXCLUSIVE, PAGER_SYNCED,
      fileVars, cacheVars, stepVars, pagerVars, lockVars, tableVars
<1>5. \A d \in Conn \ {c} : PagerUntouched(d)
  BY <1>1 DEF StepTypeOK, LockTypeOK, StateBacked, JournalBacked, Asking, JournalOpen,
      Reached, Resting, Idle, Go, Begins, Rest, State, NO_LOCK, SHARED_LOCK, RESERVED_LOCK, PENDING_LOCK, EXCLUSIVE_LOCK,
      PAGER_UNLOCK, PAGER_SHARED, PAGER_RESERVED, PAGER_EXCLUSIVE, PAGER_SYNCED,
      fileVars, cacheVars, stepVars, pagerVars, lockVars, tableVars, PagerUntouched, Untouched
<1> QED
  BY <1>2, <1>3, <1>4, <1>5, OnePagerMoves

\* The journal is closed.
LEMMA CloseJournalKeeps ==
  ASSUME StoreInv, NEW c \in Conn, CloseJournal(c), LockInv'
  PROVE  StoreInv'
<1> USE PagerAssumption DEF CloseJournal
<1>1. LockTypeOK /\ StepTypeOK /\ StateBacked(c) /\ JournalBacked(c) /\ HandleOK(c)
  BY DEF StoreInv, LockInv
<1>2. StepTypeOK'
  BY <1>1, Page1Known DEF Unlock, Goto, Result, StepTypeOK, LockTypeOK, StateBacked, JournalBacked, Asking, JournalOpen,
      Reached, Resting, Idle, Go, Begins, Rest, State, NO_LOCK, SHARED_LOCK, RESERVED_LOCK, PENDING_LOCK, EXCLUSIVE_LOCK,
      PAGER_UNLOCK, PAGER_SHARED, PAGER_RESERVED, PAGER_EXCLUSIVE, PAGER_SYNCED,
      fileVars, cacheVars, stepVars, pagerVars, lockVars
<1>3. StateBacked(c)'
  BY <1>1 DEF Unlock, Goto, Result, StepTypeOK, LockTypeOK, StateBacked, JournalBacked, Asking, JournalOpen,
      Reached, Resting, Idle, Go, Begins, Rest, State, NO_LOCK, SHARED_LOCK, RESERVED_LOCK, PENDING_LOCK, EXCLUSIVE_LOCK,
      PAGER_UNLOCK, PAGER_SHARED, PAGER_RESERVED, PAGER_EXCLUSIVE, PAGER_SYNCED,
      fileVars, cacheVars, stepVars, pagerVars, lockVars, tableVars
<1>4. JournalBacked(c)'
  BY <1>1 DEF Unlock, Goto, Result, StepTypeOK, LockTypeOK, StateBacked, JournalBacked, Asking, JournalOpen,
      Reached, Resting, Idle, Go, Begins, Rest, State, NO_LOCK, SHARED_LOCK, RESERVED_LOCK, PENDING_LOCK, EXCLUSIVE_LOCK,
      PAGER_UNLOCK, PAGER_SHARED, PAGER_RESERVED, PAGER_EXCLUSIVE, PAGER_SYNCED,
      fileVars, cacheVars, stepVars, pagerVars, lockVars, tableVars
<1>5. \A d \in Conn \ {c} : PagerUntouched(d)
  BY <1>1 DEF Unlock, Goto, Result, StepTypeOK, LockTypeOK, StateBacked, JournalBacked, Asking, JournalOpen,
      Reached, Resting, Idle, Go, Begins, Rest, State, NO_LOCK, SHARED_LOCK, RESERVED_LOCK, PENDING_LOCK, EXCLUSIVE_LOCK,
      PAGER_UNLOCK, PAGER_SHARED, PAGER_RESERVED, PAGER_EXCLUSIVE, PAGER_SYNCED,
      fileVars, cacheVars, stepVars, pagerVars, lockVars, tableVars, PagerUntouched, Untouched
<1> QED
  BY <1>2, <1>3, <1>4, <1>5, OnePagerMoves

\* The journal is deleted.
LEMMA DeleteJournalKeeps ==
  ASSUME StoreInv, NEW c \in Conn, DeleteJournal(c), LockInv'
  PROVE  StoreInv'
<1> USE PagerAssumption DEF DeleteJournal
<1>1. LockTypeOK /\ StepTypeOK /\ StateBacked(c) /\ JournalBacked(c) /\ HandleOK(c)
  BY DEF StoreInv, LockInv
<1>2. StepTypeOK'
  BY <1>1, Page1Known DEF Unlock, Goto, Result, StepTypeOK, LockTypeOK, StateBacked, JournalBacked, Asking, JournalOpen,
      Reached, Resting, Idle, Go, Begins, Rest, State, NO_LOCK, SHARED_LOCK, RESERVED_LOCK, PENDING_LOCK, EXCLUSIVE_LOCK,
      PAGER_UNLOCK, PAGER_SHARED, PAGER_RESERVED, PAGER_EXCLUSIVE, PAGER_SYNCED,
      fileVars, cacheVars, stepVars, pagerVars, lockVars
<1>3. StateBacked(c)'
  BY <1>1 DEF Unlock, Goto, Result, StepTypeOK, LockTypeOK, StateBacked, JournalBacked, Asking, JournalOpen,
      Reached, Resting, Idle, Go, Begins, Rest, State, NO_LOCK, SHARED_LOCK, RESERVED_LOCK, PENDING_LOCK, EXCLUSIVE_LOCK,
      PAGER_UNLOCK, PAGER_SHARED, PAGER_RESERVED, PAGER_EXCLUSIVE, PAGER_SYNCED,
      fileVars, cacheVars, stepVars, pagerVars, lockVars, tableVars
<1>4. JournalBacked(c)'
  BY <1>1 DEF Unlock, Goto, Result, StepTypeOK, LockTypeOK, StateBacked, JournalBacked, Asking, JournalOpen,
      Reached, Resting, Idle, Go, Begins, Rest, State, NO_LOCK, SHARED_LOCK, RESERVED_LOCK, PENDING_LOCK, EXCLUSIVE_LOCK,
      PAGER_UNLOCK, PAGER_SHARED, PAGER_RESERVED, PAGER_EXCLUSIVE, PAGER_SYNCED,
      fileVars, cacheVars, stepVars, pagerVars, lockVars, tableVars
<1>5. \A d \in Conn \ {c} : PagerUntouched(d)
  BY <1>1 DEF Unlock, Goto, Result, StepTypeOK, LockTypeOK, StateBacked, JournalBacked, Asking, JournalOpen,
      Reached, Resting, Idle, Go, Begins, Rest, State, NO_LOCK, SHARED_LOCK, RESERVED_LOCK, PENDING_LOCK, EXCLUSIVE_LOCK,
      PAGER_UNLOCK, PAGER_SHARED, PAGER_RESERVED, PAGER_EXCLUSIVE, PAGER_SYNCED,
      fileVars, cacheVars, stepVars, pagerVars, lockVars, tableVars, PagerUntouched, Untouched
<1> QED
  BY <1>2, <1>3, <1>4, <1>5, OnePagerMoves

\* The pager is back at SHARED, or on its way to nothing.
LEMMA UnlockedKeeps ==
  ASSUME StoreInv, NEW c \in Conn, Unlocked(c), LockInv'
  PROVE  StoreInv'
<1> USE PagerAssumption DEF Unlocked
<1>1. LockTypeOK /\ StepTypeOK /\ StateBacked(c) /\ JournalBacked(c) /\ HandleOK(c)
  BY DEF StoreInv, LockInv
<1>2. StepTypeOK'
  BY <1>1, Page1Known DEF DropLock, Unlock, Goto, Result, StepTypeOK, LockTypeOK, StateBacked, JournalBacked, Asking, JournalOpen,
      Reached, Resting, Idle, Go, Begins, Rest, State, NO_LOCK, SHARED_LOCK, RESERVED_LOCK, PENDING_LOCK, EXCLUSIVE_LOCK,
      PAGER_UNLOCK, PAGER_SHARED, PAGER_RESERVED, PAGER_EXCLUSIVE, PAGER_SYNCED,
      fileVars, cacheVars, stepVars, pagerVars, lockVars
<1>3. StateBacked(c)'
  BY <1>1 DEF DropLock, Unlock, Goto, Result, StepTypeOK, LockTypeOK, StateBacked, JournalBacked, Asking, JournalOpen,
      Reached, Resting, Idle, Go, Begins, Rest, State, NO_LOCK, SHARED_LOCK, RESERVED_LOCK, PENDING_LOCK, EXCLUSIVE_LOCK,
      PAGER_UNLOCK, PAGER_SHARED, PAGER_RESERVED, PAGER_EXCLUSIVE, PAGER_SYNCED,
      fileVars, cacheVars, stepVars, pagerVars, lockVars, tableVars
<1>4. JournalBacked(c)'
  BY <1>1 DEF DropLock, Unlock, Goto, Result, StepTypeOK, LockTypeOK, StateBacked, JournalBacked, Asking, JournalOpen,
      Reached, Resting, Idle, Go, Begins, Rest, State, NO_LOCK, SHARED_LOCK, RESERVED_LOCK, PENDING_LOCK, EXCLUSIVE_LOCK,
      PAGER_UNLOCK, PAGER_SHARED, PAGER_RESERVED, PAGER_EXCLUSIVE, PAGER_SYNCED,
      fileVars, cacheVars, stepVars, pagerVars, lockVars, tableVars
<1>5. \A d \in Conn \ {c} : PagerUntouched(d)
  BY <1>1 DEF DropLock, Unlock, Goto, Result, StepTypeOK, LockTypeOK, StateBacked, JournalBacked, Asking, JournalOpen,
      Reached, Resting, Idle, Go, Begins, Rest, State, NO_LOCK, SHARED_LOCK, RESERVED_LOCK, PENDING_LOCK, EXCLUSIVE_LOCK,
      PAGER_UNLOCK, PAGER_SHARED, PAGER_RESERVED, PAGER_EXCLUSIVE, PAGER_SYNCED,
      fileVars, cacheVars, stepVars, pagerVars, lockVars, tableVars, PagerUntouched, Untouched
<1> QED
  BY <1>2, <1>3, <1>4, <1>5, OnePagerMoves

\* A rollback begins.
LEMMA RollbackKeeps ==
  ASSUME StoreInv, NEW c \in Conn, Rollback(c), LockInv'
  PROVE  StoreInv'
<1> USE PagerAssumption DEF Rollback
<1>1. LockTypeOK /\ StepTypeOK /\ StateBacked(c) /\ JournalBacked(c) /\ HandleOK(c)
  BY DEF StoreInv, LockInv
<1>2. StepTypeOK'
  BY <1>1, Page1Known DEF Strays, Undo, Unchanged, DirtyCache, StepTypeOK, LockTypeOK, StateBacked, JournalBacked, Asking, JournalOpen,
      Reached, Resting, Idle, Go, Begins, Rest, State, NO_LOCK, SHARED_LOCK, RESERVED_LOCK, PENDING_LOCK, EXCLUSIVE_LOCK,
      PAGER_UNLOCK, PAGER_SHARED, PAGER_RESERVED, PAGER_EXCLUSIVE, PAGER_SYNCED,
      fileVars, cacheVars, stepVars, pagerVars, lockVars
<1>3. StateBacked(c)'
  BY <1>1 DEF Strays, Undo, Unchanged, DirtyCache, StepTypeOK, LockTypeOK, StateBacked, JournalBacked, Asking, JournalOpen,
      Reached, Resting, Idle, Go, Begins, Rest, State, NO_LOCK, SHARED_LOCK, RESERVED_LOCK, PENDING_LOCK, EXCLUSIVE_LOCK,
      PAGER_UNLOCK, PAGER_SHARED, PAGER_RESERVED, PAGER_EXCLUSIVE, PAGER_SYNCED,
      fileVars, cacheVars, stepVars, pagerVars, lockVars, tableVars
<1>4. JournalBacked(c)'
  BY <1>1 DEF Strays, Undo, Unchanged, DirtyCache, StepTypeOK, LockTypeOK, StateBacked, JournalBacked, Asking, JournalOpen,
      Reached, Resting, Idle, Go, Begins, Rest, State, NO_LOCK, SHARED_LOCK, RESERVED_LOCK, PENDING_LOCK, EXCLUSIVE_LOCK,
      PAGER_UNLOCK, PAGER_SHARED, PAGER_RESERVED, PAGER_EXCLUSIVE, PAGER_SYNCED,
      fileVars, cacheVars, stepVars, pagerVars, lockVars, tableVars
<1>5. \A d \in Conn \ {c} : PagerUntouched(d)
  BY <1>1 DEF Strays, Undo, Unchanged, DirtyCache, StepTypeOK, LockTypeOK, StateBacked, JournalBacked, Asking, JournalOpen,
      Reached, Resting, Idle, Go, Begins, Rest, State, NO_LOCK, SHARED_LOCK, RESERVED_LOCK, PENDING_LOCK, EXCLUSIVE_LOCK,
      PAGER_UNLOCK, PAGER_SHARED, PAGER_RESERVED, PAGER_EXCLUSIVE, PAGER_SYNCED,
      fileVars, cacheVars, stepVars, pagerVars, lockVars, tableVars, PagerUntouched, Untouched
<1> QED
  BY <1>2, <1>3, <1>4, <1>5, OnePagerMoves

\* The client lets go of its last page.
LEMMA ResetKeeps ==
  ASSUME StoreInv, NEW c \in Conn, Reset(c), LockInv'
  PROVE  StoreInv'
<1> USE PagerAssumption DEF Reset
<1>1. LockTypeOK /\ StepTypeOK /\ StateBacked(c) /\ JournalBacked(c) /\ HandleOK(c)
  BY DEF StoreInv, LockInv
<1>2. StepTypeOK'
  BY <1>1, Page1Known DEF LetGo, Undo, Unchanged, DirtyCache, DropLock, Unlock, Goto, Result, StepTypeOK, LockTypeOK, StateBacked, JournalBacked, Asking, JournalOpen,
      Reached, Resting, Idle, Go, Begins, Rest, State, NO_LOCK, SHARED_LOCK, RESERVED_LOCK, PENDING_LOCK, EXCLUSIVE_LOCK,
      PAGER_UNLOCK, PAGER_SHARED, PAGER_RESERVED, PAGER_EXCLUSIVE, PAGER_SYNCED,
      fileVars, cacheVars, stepVars, pagerVars, lockVars
<1>3. StateBacked(c)'
  BY <1>1 DEF LetGo, Undo, Unchanged, DirtyCache, DropLock, Unlock, Goto, Result, StepTypeOK, LockTypeOK, StateBacked, JournalBacked, Asking, JournalOpen,
      Reached, Resting, Idle, Go, Begins, Rest, State, NO_LOCK, SHARED_LOCK, RESERVED_LOCK, PENDING_LOCK, EXCLUSIVE_LOCK,
      PAGER_UNLOCK, PAGER_SHARED, PAGER_RESERVED, PAGER_EXCLUSIVE, PAGER_SYNCED,
      fileVars, cacheVars, stepVars, pagerVars, lockVars, tableVars
<1>4. JournalBacked(c)'
  BY <1>1 DEF LetGo, Undo, Unchanged, DirtyCache, DropLock, Unlock, Goto, Result, StepTypeOK, LockTypeOK, StateBacked, JournalBacked, Asking, JournalOpen,
      Reached, Resting, Idle, Go, Begins, Rest, State, NO_LOCK, SHARED_LOCK, RESERVED_LOCK, PENDING_LOCK, EXCLUSIVE_LOCK,
      PAGER_UNLOCK, PAGER_SHARED, PAGER_RESERVED, PAGER_EXCLUSIVE, PAGER_SYNCED,
      fileVars, cacheVars, stepVars, pagerVars, lockVars, tableVars
<1>5. \A d \in Conn \ {c} : PagerUntouched(d)
  BY <1>1 DEF LetGo, Undo, Unchanged, DirtyCache, DropLock, Unlock, Goto, Result, StepTypeOK, LockTypeOK, StateBacked, JournalBacked, Asking, JournalOpen,
      Reached, Resting, Idle, Go, Begins, Rest, State, NO_LOCK, SHARED_LOCK, RESERVED_LOCK, PENDING_LOCK, EXCLUSIVE_LOCK,
      PAGER_UNLOCK, PAGER_SHARED, PAGER_RESERVED, PAGER_EXCLUSIVE, PAGER_SYNCED,
      fileVars, cacheVars, stepVars, pagerVars, lockVars, tableVars, PagerUntouched, Untouched
<1> QED
  BY <1>2, <1>3, <1>4, <1>5, OnePagerMoves

\* The client closes the pager.
LEMMA ShutKeeps ==
  ASSUME StoreInv, NEW c \in Conn, Shut(c), LockInv'
  PROVE  StoreInv'
<1> USE PagerAssumption DEF Shut
<1>1. LockTypeOK /\ StepTypeOK /\ StateBacked(c) /\ JournalBacked(c) /\ HandleOK(c)
  BY DEF StoreInv, LockInv
<1>2. StepTypeOK'
  BY <1>1, Page1Known DEF LetGo, Undo, Unchanged, DirtyCache, DropLock, Unlock, Goto, Result, StepTypeOK, LockTypeOK, StateBacked, JournalBacked, Asking, JournalOpen,
      Reached, Resting, Idle, Go, Begins, Rest, State, NO_LOCK, SHARED_LOCK, RESERVED_LOCK, PENDING_LOCK, EXCLUSIVE_LOCK,
      PAGER_UNLOCK, PAGER_SHARED, PAGER_RESERVED, PAGER_EXCLUSIVE, PAGER_SYNCED,
      fileVars, cacheVars, stepVars, pagerVars, lockVars
<1>3. StateBacked(c)'
  BY <1>1 DEF LetGo, Undo, Unchanged, DirtyCache, DropLock, Unlock, Goto, Result, StepTypeOK, LockTypeOK, StateBacked, JournalBacked, Asking, JournalOpen,
      Reached, Resting, Idle, Go, Begins, Rest, State, NO_LOCK, SHARED_LOCK, RESERVED_LOCK, PENDING_LOCK, EXCLUSIVE_LOCK,
      PAGER_UNLOCK, PAGER_SHARED, PAGER_RESERVED, PAGER_EXCLUSIVE, PAGER_SYNCED,
      fileVars, cacheVars, stepVars, pagerVars, lockVars, tableVars
<1>4. JournalBacked(c)'
  BY <1>1 DEF LetGo, Undo, Unchanged, DirtyCache, DropLock, Unlock, Goto, Result, StepTypeOK, LockTypeOK, StateBacked, JournalBacked, Asking, JournalOpen,
      Reached, Resting, Idle, Go, Begins, Rest, State, NO_LOCK, SHARED_LOCK, RESERVED_LOCK, PENDING_LOCK, EXCLUSIVE_LOCK,
      PAGER_UNLOCK, PAGER_SHARED, PAGER_RESERVED, PAGER_EXCLUSIVE, PAGER_SYNCED,
      fileVars, cacheVars, stepVars, pagerVars, lockVars, tableVars
<1>5. \A d \in Conn \ {c} : PagerUntouched(d)
  BY <1>1 DEF LetGo, Undo, Unchanged, DirtyCache, DropLock, Unlock, Goto, Result, StepTypeOK, LockTypeOK, StateBacked, JournalBacked, Asking, JournalOpen,
      Reached, Resting, Idle, Go, Begins, Rest, State, NO_LOCK, SHARED_LOCK, RESERVED_LOCK, PENDING_LOCK, EXCLUSIVE_LOCK,
      PAGER_UNLOCK, PAGER_SHARED, PAGER_RESERVED, PAGER_EXCLUSIVE, PAGER_SYNCED,
      fileVars, cacheVars, stepVars, pagerVars, lockVars, tableVars, PagerUntouched, Untouched
<1> QED
  BY <1>2, <1>3, <1>4, <1>5, OnePagerMoves

\* The lock is dropped.
LEMMA DroppedKeeps ==
  ASSUME StoreInv, NEW c \in Conn, Dropped(c), LockInv'
  PROVE  StoreInv'
<1> USE PagerAssumption DEF Dropped
<1>1. LockTypeOK /\ StepTypeOK /\ StateBacked(c) /\ JournalBacked(c) /\ HandleOK(c)
  BY DEF StoreInv, LockInv
<1>2. StepTypeOK'
  BY <1>1, Page1Known DEF Forget, Close, DestroyLock, TableInv, TableTypeOK, StepTypeOK, LockTypeOK, StateBacked, JournalBacked, Asking, JournalOpen,
      Reached, Resting, Idle, Go, Begins, Rest, State, NO_LOCK, SHARED_LOCK, RESERVED_LOCK, PENDING_LOCK, EXCLUSIVE_LOCK,
      PAGER_UNLOCK, PAGER_SHARED, PAGER_RESERVED, PAGER_EXCLUSIVE, PAGER_SYNCED,
      fileVars, cacheVars, stepVars, pagerVars, lockVars
<1>3. StateBacked(c)'
  BY <1>1 DEF Forget, Close, DestroyLock, TableInv, TableTypeOK, StepTypeOK, LockTypeOK, StateBacked, JournalBacked, Asking, JournalOpen,
      Reached, Resting, Idle, Go, Begins, Rest, State, NO_LOCK, SHARED_LOCK, RESERVED_LOCK, PENDING_LOCK, EXCLUSIVE_LOCK,
      PAGER_UNLOCK, PAGER_SHARED, PAGER_RESERVED, PAGER_EXCLUSIVE, PAGER_SYNCED,
      fileVars, cacheVars, stepVars, pagerVars, lockVars, tableVars
<1>4. JournalBacked(c)'
  BY <1>1 DEF Forget, Close, DestroyLock, TableInv, TableTypeOK, StepTypeOK, LockTypeOK, StateBacked, JournalBacked, Asking, JournalOpen,
      Reached, Resting, Idle, Go, Begins, Rest, State, NO_LOCK, SHARED_LOCK, RESERVED_LOCK, PENDING_LOCK, EXCLUSIVE_LOCK,
      PAGER_UNLOCK, PAGER_SHARED, PAGER_RESERVED, PAGER_EXCLUSIVE, PAGER_SYNCED,
      fileVars, cacheVars, stepVars, pagerVars, lockVars, tableVars
<1>5. \A d \in Conn \ {c} : PagerUntouched(d)
  BY <1>1 DEF Forget, Close, DestroyLock, TableInv, TableTypeOK, StepTypeOK, LockTypeOK, StateBacked, JournalBacked, Asking, JournalOpen,
      Reached, Resting, Idle, Go, Begins, Rest, State, NO_LOCK, SHARED_LOCK, RESERVED_LOCK, PENDING_LOCK, EXCLUSIVE_LOCK,
      PAGER_UNLOCK, PAGER_SHARED, PAGER_RESERVED, PAGER_EXCLUSIVE, PAGER_SYNCED,
      fileVars, cacheVars, stepVars, pagerVars, lockVars, tableVars, PagerUntouched, Untouched
<1> QED
  BY <1>2, <1>3, <1>4, <1>5, OnePagerMoves

\* A handle is opened.
LEMMA StartKeeps ==
  ASSUME StoreInv, NEW c \in Conn, Start(c), LockInv'
  PROVE  StoreInv'
<1> USE PagerAssumption DEF Start
<1>1. LockTypeOK /\ StepTypeOK /\ StateBacked(c) /\ JournalBacked(c) /\ HandleOK(c)
  BY DEF StoreInv, LockInv
<1>2. StepTypeOK'
  BY <1>1, Page1Known DEF Open, CreateLock, Result, TableTypeOK, TableInv, StepTypeOK, LockTypeOK, StateBacked, JournalBacked, Asking, JournalOpen,
      Reached, Resting, Idle, Go, Begins, Rest, State, NO_LOCK, SHARED_LOCK, RESERVED_LOCK, PENDING_LOCK, EXCLUSIVE_LOCK,
      PAGER_UNLOCK, PAGER_SHARED, PAGER_RESERVED, PAGER_EXCLUSIVE, PAGER_SYNCED,
      fileVars, cacheVars, stepVars, pagerVars, lockVars
<1>3. StateBacked(c)'
  BY <1>1 DEF Open, CreateLock, Result, TableTypeOK, TableInv, StepTypeOK, LockTypeOK, StateBacked, JournalBacked, Asking, JournalOpen,
      Reached, Resting, Idle, Go, Begins, Rest, State, NO_LOCK, SHARED_LOCK, RESERVED_LOCK, PENDING_LOCK, EXCLUSIVE_LOCK,
      PAGER_UNLOCK, PAGER_SHARED, PAGER_RESERVED, PAGER_EXCLUSIVE, PAGER_SYNCED,
      fileVars, cacheVars, stepVars, pagerVars, lockVars, tableVars
<1>4. JournalBacked(c)'
  BY <1>1 DEF Open, CreateLock, Result, TableTypeOK, TableInv, StepTypeOK, LockTypeOK, StateBacked, JournalBacked, Asking, JournalOpen,
      Reached, Resting, Idle, Go, Begins, Rest, State, NO_LOCK, SHARED_LOCK, RESERVED_LOCK, PENDING_LOCK, EXCLUSIVE_LOCK,
      PAGER_UNLOCK, PAGER_SHARED, PAGER_RESERVED, PAGER_EXCLUSIVE, PAGER_SYNCED,
      fileVars, cacheVars, stepVars, pagerVars, lockVars, tableVars
<1>5. \A d \in Conn \ {c} : PagerUntouched(d)
  BY <1>1 DEF Open, CreateLock, Result, TableTypeOK, TableInv, StepTypeOK, LockTypeOK, StateBacked, JournalBacked, Asking, JournalOpen,
      Reached, Resting, Idle, Go, Begins, Rest, State, NO_LOCK, SHARED_LOCK, RESERVED_LOCK, PENDING_LOCK, EXCLUSIVE_LOCK,
      PAGER_UNLOCK, PAGER_SHARED, PAGER_RESERVED, PAGER_EXCLUSIVE, PAGER_SYNCED,
      fileVars, cacheVars, stepVars, pagerVars, lockVars, tableVars, PagerUntouched, Untouched
<1> QED
  BY <1>2, <1>3, <1>4, <1>5, OnePagerMoves

\* A process dies.
LEMMA Die1Keeps ==
  ASSUME StoreInv, NEW c \in Conn, Die1(c), LockInv'
  PROVE  StoreInv'
<1> USE PagerAssumption DEF Die1
<1>1. LockTypeOK /\ StepTypeOK /\ StateBacked(c) /\ JournalBacked(c) /\ HandleOK(c)
  BY DEF StoreInv, LockInv
<1>2. StepTypeOK'
  BY <1>1, Page1Known DEF Die, Crash, Forget, Goto, Result, TableTypeOK, TableInv, StepTypeOK, LockTypeOK, StateBacked, JournalBacked, Asking, JournalOpen,
      Reached, Resting, Idle, Go, Begins, Rest, State, NO_LOCK, SHARED_LOCK, RESERVED_LOCK, PENDING_LOCK, EXCLUSIVE_LOCK,
      PAGER_UNLOCK, PAGER_SHARED, PAGER_RESERVED, PAGER_EXCLUSIVE, PAGER_SYNCED,
      fileVars, cacheVars, stepVars, pagerVars, lockVars
<1>3. StateBacked(c)'
  BY <1>1 DEF Die, Crash, Forget, Goto, Result, TableTypeOK, TableInv, StepTypeOK, LockTypeOK, StateBacked, JournalBacked, Asking, JournalOpen,
      Reached, Resting, Idle, Go, Begins, Rest, State, NO_LOCK, SHARED_LOCK, RESERVED_LOCK, PENDING_LOCK, EXCLUSIVE_LOCK,
      PAGER_UNLOCK, PAGER_SHARED, PAGER_RESERVED, PAGER_EXCLUSIVE, PAGER_SYNCED,
      fileVars, cacheVars, stepVars, pagerVars, lockVars, tableVars
<1>4. JournalBacked(c)'
  BY <1>1 DEF Die, Crash, Forget, Goto, Result, TableTypeOK, TableInv, StepTypeOK, LockTypeOK, StateBacked, JournalBacked, Asking, JournalOpen,
      Reached, Resting, Idle, Go, Begins, Rest, State, NO_LOCK, SHARED_LOCK, RESERVED_LOCK, PENDING_LOCK, EXCLUSIVE_LOCK,
      PAGER_UNLOCK, PAGER_SHARED, PAGER_RESERVED, PAGER_EXCLUSIVE, PAGER_SYNCED,
      fileVars, cacheVars, stepVars, pagerVars, lockVars, tableVars
<1>5. \A d \in Conn \ {c} : PagerUntouched(d)
  BY <1>1 DEF Die, Crash, Forget, Goto, Result, TableTypeOK, TableInv, StepTypeOK, LockTypeOK, StateBacked, JournalBacked, Asking, JournalOpen,
      Reached, Resting, Idle, Go, Begins, Rest, State, NO_LOCK, SHARED_LOCK, RESERVED_LOCK, PENDING_LOCK, EXCLUSIVE_LOCK,
      PAGER_UNLOCK, PAGER_SHARED, PAGER_RESERVED, PAGER_EXCLUSIVE, PAGER_SYNCED,
      fileVars, cacheVars, stepVars, pagerVars, lockVars, tableVars, PagerUntouched, Untouched
<1> QED
  BY <1>2, <1>3, <1>4, <1>5, OnePagerMoves

\* A page is read.
LEMMA FetchKeeps ==
  ASSUME StoreInv, NEW c \in Conn, NEW p \in Page, Fetch(c, p), LockInv'
  PROVE  StoreInv'
<1> USE PagerAssumption DEF Fetch
<1>1. LockTypeOK /\ StepTypeOK /\ StateBacked(c) /\ JournalBacked(c) /\ HandleOK(c)
  BY DEF StoreInv, LockInv
<1>2. StepTypeOK'
  BY <1>1, Page1Known DEF StepTypeOK, LockTypeOK, StateBacked, JournalBacked, Asking, JournalOpen,
      Reached, Resting, Idle, Go, Begins, Rest, State, NO_LOCK, SHARED_LOCK, RESERVED_LOCK, PENDING_LOCK, EXCLUSIVE_LOCK,
      PAGER_UNLOCK, PAGER_SHARED, PAGER_RESERVED, PAGER_EXCLUSIVE, PAGER_SYNCED,
      fileVars, cacheVars, stepVars, pagerVars, lockVars
<1>3. StateBacked(c)'
  BY <1>1 DEF StepTypeOK, LockTypeOK, StateBacked, JournalBacked, Asking, JournalOpen,
      Reached, Resting, Idle, Go, Begins, Rest, State, NO_LOCK, SHARED_LOCK, RESERVED_LOCK, PENDING_LOCK, EXCLUSIVE_LOCK,
      PAGER_UNLOCK, PAGER_SHARED, PAGER_RESERVED, PAGER_EXCLUSIVE, PAGER_SYNCED,
      fileVars, cacheVars, stepVars, pagerVars, lockVars, tableVars
<1>4. JournalBacked(c)'
  BY <1>1 DEF StepTypeOK, LockTypeOK, StateBacked, JournalBacked, Asking, JournalOpen,
      Reached, Resting, Idle, Go, Begins, Rest, State, NO_LOCK, SHARED_LOCK, RESERVED_LOCK, PENDING_LOCK, EXCLUSIVE_LOCK,
      PAGER_UNLOCK, PAGER_SHARED, PAGER_RESERVED, PAGER_EXCLUSIVE, PAGER_SYNCED,
      fileVars, cacheVars, stepVars, pagerVars, lockVars, tableVars
<1>5. \A d \in Conn \ {c} : PagerUntouched(d)
  BY <1>1 DEF StepTypeOK, LockTypeOK, StateBacked, JournalBacked, Asking, JournalOpen,
      Reached, Resting, Idle, Go, Begins, Rest, State, NO_LOCK, SHARED_LOCK, RESERVED_LOCK, PENDING_LOCK, EXCLUSIVE_LOCK,
      PAGER_UNLOCK, PAGER_SHARED, PAGER_RESERVED, PAGER_EXCLUSIVE, PAGER_SYNCED,
      fileVars, cacheVars, stepVars, pagerVars, lockVars, tableVars, PagerUntouched, Untouched
<1> QED
  BY <1>2, <1>3, <1>4, <1>5, OnePagerMoves

\* A page is changed.
LEMMA WriteKeeps ==
  ASSUME StoreInv, NEW c \in Conn, NEW p \in Page, Write(c, p), LockInv'
  PROVE  StoreInv'
<1> USE PagerAssumption DEF Write
<1>1. LockTypeOK /\ StepTypeOK /\ StateBacked(c) /\ JournalBacked(c) /\ HandleOK(c)
  BY DEF StoreInv, LockInv
<1>2. StepTypeOK'
  BY <1>1, Page1Known DEF Change, StepTypeOK, LockTypeOK, StateBacked, JournalBacked, Asking, JournalOpen,
      Reached, Resting, Idle, Go, Begins, Rest, State, NO_LOCK, SHARED_LOCK, RESERVED_LOCK, PENDING_LOCK, EXCLUSIVE_LOCK,
      PAGER_UNLOCK, PAGER_SHARED, PAGER_RESERVED, PAGER_EXCLUSIVE, PAGER_SYNCED,
      fileVars, cacheVars, stepVars, pagerVars, lockVars
<1>3. StateBacked(c)'
  BY <1>1 DEF Change, StepTypeOK, LockTypeOK, StateBacked, JournalBacked, Asking, JournalOpen,
      Reached, Resting, Idle, Go, Begins, Rest, State, NO_LOCK, SHARED_LOCK, RESERVED_LOCK, PENDING_LOCK, EXCLUSIVE_LOCK,
      PAGER_UNLOCK, PAGER_SHARED, PAGER_RESERVED, PAGER_EXCLUSIVE, PAGER_SYNCED,
      fileVars, cacheVars, stepVars, pagerVars, lockVars, tableVars
<1>4. JournalBacked(c)'
  BY <1>1 DEF Change, StepTypeOK, LockTypeOK, StateBacked, JournalBacked, Asking, JournalOpen,
      Reached, Resting, Idle, Go, Begins, Rest, State, NO_LOCK, SHARED_LOCK, RESERVED_LOCK, PENDING_LOCK, EXCLUSIVE_LOCK,
      PAGER_UNLOCK, PAGER_SHARED, PAGER_RESERVED, PAGER_EXCLUSIVE, PAGER_SYNCED,
      fileVars, cacheVars, stepVars, pagerVars, lockVars, tableVars
<1>5. \A d \in Conn \ {c} : PagerUntouched(d)
  BY <1>1 DEF Change, StepTypeOK, LockTypeOK, StateBacked, JournalBacked, Asking, JournalOpen,
      Reached, Resting, Idle, Go, Begins, Rest, State, NO_LOCK, SHARED_LOCK, RESERVED_LOCK, PENDING_LOCK, EXCLUSIVE_LOCK,
      PAGER_UNLOCK, PAGER_SHARED, PAGER_RESERVED, PAGER_EXCLUSIVE, PAGER_SYNCED,
      fileVars, cacheVars, stepVars, pagerVars, lockVars, tableVars, PagerUntouched, Untouched
<1> QED
  BY <1>2, <1>3, <1>4, <1>5, OnePagerMoves

\* A page makes room.
LEMMA RecycleKeeps ==
  ASSUME StoreInv, NEW c \in Conn, NEW p \in Page, Recycle(c, p), LockInv'
  PROVE  StoreInv'
<1> USE PagerAssumption DEF Recycle
<1>1. LockTypeOK /\ StepTypeOK /\ StateBacked(c) /\ JournalBacked(c) /\ HandleOK(c)
  BY DEF StoreInv, LockInv
<1>2. StepTypeOK'
  BY <1>1, Page1Known DEF WaitOnLock, Lock, LegalRequest, NeedsPendingByte, Goto, Result, StepTypeOK, LockTypeOK, StateBacked, JournalBacked, Asking, JournalOpen,
      Reached, Resting, Idle, Go, Begins, Rest, State, NO_LOCK, SHARED_LOCK, RESERVED_LOCK, PENDING_LOCK, EXCLUSIVE_LOCK,
      PAGER_UNLOCK, PAGER_SHARED, PAGER_RESERVED, PAGER_EXCLUSIVE, PAGER_SYNCED,
      fileVars, cacheVars, stepVars, pagerVars, lockVars
<1>3. StateBacked(c)'
  BY <1>1 DEF WaitOnLock, Lock, LegalRequest, NeedsPendingByte, Goto, Result, StepTypeOK, LockTypeOK, StateBacked, JournalBacked, Asking, JournalOpen,
      Reached, Resting, Idle, Go, Begins, Rest, State, NO_LOCK, SHARED_LOCK, RESERVED_LOCK, PENDING_LOCK, EXCLUSIVE_LOCK,
      PAGER_UNLOCK, PAGER_SHARED, PAGER_RESERVED, PAGER_EXCLUSIVE, PAGER_SYNCED,
      fileVars, cacheVars, stepVars, pagerVars, lockVars, tableVars
<1>4. JournalBacked(c)'
  BY <1>1 DEF WaitOnLock, Lock, LegalRequest, NeedsPendingByte, Goto, Result, StepTypeOK, LockTypeOK, StateBacked, JournalBacked, Asking, JournalOpen,
      Reached, Resting, Idle, Go, Begins, Rest, State, NO_LOCK, SHARED_LOCK, RESERVED_LOCK, PENDING_LOCK, EXCLUSIVE_LOCK,
      PAGER_UNLOCK, PAGER_SHARED, PAGER_RESERVED, PAGER_EXCLUSIVE, PAGER_SYNCED,
      fileVars, cacheVars, stepVars, pagerVars, lockVars, tableVars
<1>5. \A d \in Conn \ {c} : PagerUntouched(d)
  BY <1>1 DEF WaitOnLock, Lock, LegalRequest, NeedsPendingByte, Goto, Result, StepTypeOK, LockTypeOK, StateBacked, JournalBacked, Asking, JournalOpen,
      Reached, Resting, Idle, Go, Begins, Rest, State, NO_LOCK, SHARED_LOCK, RESERVED_LOCK, PENDING_LOCK, EXCLUSIVE_LOCK,
      PAGER_UNLOCK, PAGER_SHARED, PAGER_RESERVED, PAGER_EXCLUSIVE, PAGER_SYNCED,
      fileVars, cacheVars, stepVars, pagerVars, lockVars, tableVars, PagerUntouched, Untouched
<1> QED
  BY <1>2, <1>3, <1>4, <1>5, OnePagerMoves

\* A page is stored.
LEMMA StorePageKeeps ==
  ASSUME StoreInv, NEW c \in Conn, NEW p \in Page, StorePage(c, p), LockInv'
  PROVE  StoreInv'
<1> USE PagerAssumption DEF StorePage
<1>1. LockTypeOK /\ StepTypeOK /\ StateBacked(c) /\ JournalBacked(c) /\ HandleOK(c)
  BY DEF StoreInv, LockInv
<1>2. StepTypeOK'
  BY <1>1, Page1Known DEF StepTypeOK, LockTypeOK, StateBacked, JournalBacked, Asking, JournalOpen,
      Reached, Resting, Idle, Go, Begins, Rest, State, NO_LOCK, SHARED_LOCK, RESERVED_LOCK, PENDING_LOCK, EXCLUSIVE_LOCK,
      PAGER_UNLOCK, PAGER_SHARED, PAGER_RESERVED, PAGER_EXCLUSIVE, PAGER_SYNCED,
      fileVars, cacheVars, stepVars, pagerVars, lockVars
<1>3. StateBacked(c)'
  BY <1>1 DEF StepTypeOK, LockTypeOK, StateBacked, JournalBacked, Asking, JournalOpen,
      Reached, Resting, Idle, Go, Begins, Rest, State, NO_LOCK, SHARED_LOCK, RESERVED_LOCK, PENDING_LOCK, EXCLUSIVE_LOCK,
      PAGER_UNLOCK, PAGER_SHARED, PAGER_RESERVED, PAGER_EXCLUSIVE, PAGER_SYNCED,
      fileVars, cacheVars, stepVars, pagerVars, lockVars, tableVars
<1>4. JournalBacked(c)'
  BY <1>1 DEF StepTypeOK, LockTypeOK, StateBacked, JournalBacked, Asking, JournalOpen,
      Reached, Resting, Idle, Go, Begins, Rest, State, NO_LOCK, SHARED_LOCK, RESERVED_LOCK, PENDING_LOCK, EXCLUSIVE_LOCK,
      PAGER_UNLOCK, PAGER_SHARED, PAGER_RESERVED, PAGER_EXCLUSIVE, PAGER_SYNCED,
      fileVars, cacheVars, stepVars, pagerVars, lockVars, tableVars
<1>5. \A d \in Conn \ {c} : PagerUntouched(d)
  BY <1>1 DEF StepTypeOK, LockTypeOK, StateBacked, JournalBacked, Asking, JournalOpen,
      Reached, Resting, Idle, Go, Begins, Rest, State, NO_LOCK, SHARED_LOCK, RESERVED_LOCK, PENDING_LOCK, EXCLUSIVE_LOCK,
      PAGER_UNLOCK, PAGER_SHARED, PAGER_RESERVED, PAGER_EXCLUSIVE, PAGER_SYNCED,
      fileVars, cacheVars, stepVars, pagerVars, lockVars, tableVars, PagerUntouched, Untouched
<1> QED
  BY <1>2, <1>3, <1>4, <1>5, OnePagerMoves

\* A page is played back.
LEMMA PlaybackPageKeeps ==
  ASSUME StoreInv, NEW c \in Conn, NEW p \in Page, PlaybackPage(c, p), LockInv'
  PROVE  StoreInv'
<1> USE PagerAssumption DEF PlaybackPage
<1>1. LockTypeOK /\ StepTypeOK /\ StateBacked(c) /\ JournalBacked(c) /\ HandleOK(c)
  BY DEF StoreInv, LockInv
<1>2. StepTypeOK'
  BY <1>1, Page1Known DEF StepTypeOK, LockTypeOK, StateBacked, JournalBacked, Asking, JournalOpen,
      Reached, Resting, Idle, Go, Begins, Rest, State, NO_LOCK, SHARED_LOCK, RESERVED_LOCK, PENDING_LOCK, EXCLUSIVE_LOCK,
      PAGER_UNLOCK, PAGER_SHARED, PAGER_RESERVED, PAGER_EXCLUSIVE, PAGER_SYNCED,
      fileVars, cacheVars, stepVars, pagerVars, lockVars
<1>3. StateBacked(c)'
  BY <1>1 DEF StepTypeOK, LockTypeOK, StateBacked, JournalBacked, Asking, JournalOpen,
      Reached, Resting, Idle, Go, Begins, Rest, State, NO_LOCK, SHARED_LOCK, RESERVED_LOCK, PENDING_LOCK, EXCLUSIVE_LOCK,
      PAGER_UNLOCK, PAGER_SHARED, PAGER_RESERVED, PAGER_EXCLUSIVE, PAGER_SYNCED,
      fileVars, cacheVars, stepVars, pagerVars, lockVars, tableVars
<1>4. JournalBacked(c)'
  BY <1>1 DEF StepTypeOK, LockTypeOK, StateBacked, JournalBacked, Asking, JournalOpen,
      Reached, Resting, Idle, Go, Begins, Rest, State, NO_LOCK, SHARED_LOCK, RESERVED_LOCK, PENDING_LOCK, EXCLUSIVE_LOCK,
      PAGER_UNLOCK, PAGER_SHARED, PAGER_RESERVED, PAGER_EXCLUSIVE, PAGER_SYNCED,
      fileVars, cacheVars, stepVars, pagerVars, lockVars, tableVars
<1>5. \A d \in Conn \ {c} : PagerUntouched(d)
  BY <1>1 DEF StepTypeOK, LockTypeOK, StateBacked, JournalBacked, Asking, JournalOpen,
      Reached, Resting, Idle, Go, Begins, Rest, State, NO_LOCK, SHARED_LOCK, RESERVED_LOCK, PENDING_LOCK, EXCLUSIVE_LOCK,
      PAGER_UNLOCK, PAGER_SHARED, PAGER_RESERVED, PAGER_EXCLUSIVE, PAGER_SYNCED,
      fileVars, cacheVars, stepVars, pagerVars, lockVars, tableVars, PagerUntouched, Untouched
<1> QED
  BY <1>2, <1>3, <1>4, <1>5, OnePagerMoves

------------------------------------------------------------------------------
(* The steps inside the locking routines, and the invariant. *)

\* One byte-lock call of one handle, seen from the pagers.
LEMMA LockCallKeeps ==
  ASSUME StoreInv, NEW c \in Conn, LockCall(c), LockInv'
  PROVE  StoreInv'
<1> USE PagerAssumption DEF LockCall
<1>1. LockTypeOK /\ StepTypeOK /\ StateBacked(c) /\ JournalBacked(c) /\ HandleOK(c)
  BY DEF StoreInv, LockInv
<1>2. StepTypeOK'
  BY <1>1 DEF StepTypeOK, fileVars, cacheVars, stepVars
<1>3. /\ pc[c] # "idle" /\ mapped' = mapped
      /\ \A d \in Conn \ {c} : Untouched(d)
      /\ Asking(c) => Asking(c)'
  <2> USE <1>1 DEF LockTypeOK, TableTypeOK, Return, Continue, Goto, Result, Untouched, Asking,
      tableVars
  <2>1. CASE TryPending(c)
    BY <2>1 DEF TryPending, LockPending, SHARED_LOCK, EXCLUSIVE_LOCK
  <2>2. CASE TryRead(c) \/ RelockRead(c)
    BY <2>2 DEF TryRead, RelockRead, LockRead
  <2>3. CASE TryReserved(c) \/ Probe(c)
    BY <2>3 DEF TryReserved, Probe, LockReserved
  <2>4. CASE TryExclusive(c)
    BY <2>4 DEF TryExclusive, LockExclusive
  <2>5. CASE DropRead(c) \/ GiveExclusive(c) \/ GiveRead(c)
    BY <2>5 DEF DropRead, GiveExclusive, GiveRead, UnlockRange
  <2>6. CASE ReleasePending(c) \/ GivePending(c)
    BY <2>6 DEF ReleasePending, GivePending, UnlockPending
  <2>7. CASE GiveReserved(c) \/ Unprobe(c)
    BY <2>7 DEF GiveReserved, Unprobe, UnlockReserved
  <2> QED
    BY <2>1, <2>2, <2>3, <2>4, <2>5, <2>6, <2>7 DEF LockStep
<1>4. StateBacked(c)' /\ JournalBacked(c)'
  BY <1>1, <1>3 DEF StateBacked, JournalBacked, JournalOpen, fileVars, cacheVars, stepVars
<1>5. \A d \in Conn \ {c} : PagerUntouched(d)
  BY <1>3 DEF PagerUntouched, JournalOpen, fileVars, cacheVars, stepVars
<1> QED
  BY <1>2, <1>4, <1>5, OnePagerMoves

\* Every step of the system keeps the two automata in step.
LEMMA StoreInvStep ==
  ASSUME StoreInv, [PagerNext]_vars
  PROVE  StoreInv'
<1>1. LockInv'
  BY PagerNextLocks, LockInvStep DEF StoreInv
<1>2. CASE UNCHANGED vars
  <2>1. StepTypeOK'
    BY <1>2 DEF StoreInv, StepTypeOK, vars, pagerVars, fileVars, cacheVars, stepVars
  <2>2. \A d \in Conn : PagerUntouched(d)
    BY <1>2 DEF PagerUntouched, Untouched, JournalOpen, vars, lockVars, pagerVars, fileVars,
       cacheVars, stepVars
  <2> QED
    BY <1>1, <2>1, <2>2, PagerUntouchedOK DEF StoreInv
<1>3. ASSUME NEW c \in Conn, Start(c) \/ Die1(c) \/ LockCall(c)
      PROVE  StoreInv'
  BY <1>1, <1>3, StartKeeps, Die1Keeps, LockCallKeeps
<1>4. ASSUME NEW c \in Conn, PagerStep(c)
      PROVE  StoreInv'
  BY <1>1, <1>4, GetSharedKeeps, GotSharedKeeps, HasHotJournalKeeps, ProbedKeeps, HotLockedKeeps, OpenHotJournalKeeps,
     BeginKeeps, GotReservedKeeps, GotExclusiveKeeps, OpenJournalKeeps, LateJournalKeeps, CommitKeeps,
     SyncJournalKeeps, StoredKeeps, PlayedBackKeeps, CloseJournalKeeps, DeleteJournalKeeps,
     UnlockedKeeps, RollbackKeeps, ResetKeeps, ShutKeeps, DroppedKeeps, FetchKeeps, WriteKeeps, RecycleKeeps, StorePageKeeps, PlaybackPageKeeps
  DEF PagerStep
<1> QED
  BY <1>2, <1>3, <1>4 DEF PagerNext

\* Before anything is open, nothing is believed.
LEMMA StoreInvInit ==
  ASSUME PagerInit
  PROVE  StoreInv
<1> USE PagerAssumption DEF PagerInit
<1>1. LockInv
  BY LockInvInit
<1>2. StepTypeOK
  BY DEF StepTypeOK, PAGER_UNLOCK, PAGER_SHARED, PAGER_RESERVED, PAGER_EXCLUSIVE, PAGER_SYNCED
<1>3. \A c \in Conn : StateBacked(c) /\ JournalBacked(c)
  BY DEF StateBacked, JournalBacked, JournalOpen, LockInit, PAGER_UNLOCK, PAGER_SHARED, PAGER_RESERVED, PAGER_EXCLUSIVE, PAGER_SYNCED
<1> QED
  BY <1>1, <1>2, <1>3 DEF StoreInv

\* In any run a pager that believes in EXCLUSIVE (Pager.state) has the lock behind it,
\* and one that is about to write the database has its journal open: so too the pager that
\* lost its lock when it could not create its journal, and goes on from PAGER_UNLOCK to
\* change pages, to sync its journal and to ask for EXCLUSIVE.
THEOREM PagerKnowsItsLock == PagerSpec => []StoreInv
BY StoreInvInit, StoreInvStep, PTL DEF PagerSpec

\* The lock's invariants hold under the pager: what its calls find and leave is what
\* LockInv says.
THEOREM PagerKeepsLockInv == PagerSpec => []LockInv
BY PagerLocks, LockInvariant, PTL

\* The levels of two pagers' locks on one file: no two are at RESERVED, no two at EXCLUSIVE,
\* nobody reads beside EXCLUSIVE, and nobody is at RESERVED beside an EXCLUSIVE that has the
\* RESERVED byte; with pagers that ask for EXCLUSIVE from SHARED, to recover, and from no
\* lock at all.
THEOREM PagersExclude == PagerSpec => []LevelsExclude
BY PagerLocks, LevelsAreApart, PTL

\* Only the loops of pager_write_pagelist and pager_playback write the database.
LEMMA WhoStores ==
  ASSUME PagerNext, db' # db
  PROVE  \E c \in Conn, p \in Page : StorePage(c, p) \/ PlaybackPage(c, p)
<1>1. PICK c \in Conn : Start(c) \/ Die1(c) \/ LockCall(c) \/ PagerStep(c)
  BY DEF PagerNext
<1>2. ~(Start(c) \/ Die1(c) \/ LockCall(c))
  BY DEF Start, Die1, LockCall, pagerVars, fileVars
<1>3. ~(GetShared(c) \/ GotShared(c) \/ HasHotJournal(c) \/ Probed(c) \/ HotLocked(c)
        \/ OpenHotJournal(c) \/ Begin(c) \/ GotReserved(c) \/ GotExclusive(c)
        \/ OpenJournal(c) \/ LateJournal(c))
  BY DEF GetShared, GotShared, HasHotJournal, Probed, HotLocked, OpenHotJournal, Begin,
     GotReserved, GotExclusive, OpenJournal, LateJournal, fileVars
<1>4. ~(Commit(c) \/ SyncJournal(c) \/ Stored(c) \/ PlayedBack(c) \/ CloseJournal(c)
        \/ DeleteJournal(c) \/ Unlocked(c) \/ Rollback(c) \/ Reset(c) \/ Shut(c) \/ Dropped(c))
  BY DEF Commit, SyncJournal, Stored, PlayedBack, CloseJournal, DeleteJournal, Unlocked,
     Rollback, Reset, Shut, Dropped, fileVars
<1>5. \A p \in Page : ~(Fetch(c, p) \/ Write(c, p) \/ Recycle(c, p))
  BY DEF Fetch, Write, Recycle, fileVars
<1> QED
  BY <1>1, <1>2, <1>3, <1>4, <1>5 DEF PagerStep

\* The database file is written by the holder of the whole lock range, with its journal
\* open, while no other handle has a read lock or the range.
THEOREM StoresAreExclusive == PagerSpec => OnlyExclusiveStores
<1>1. ASSUME StoreInv, PagerNext, db' # db
      PROVE  \E c \in mapped : /\ local[c].bExclusive
                              /\ pstate[c] >= PAGER_EXCLUSIVE /\ JournalOpen(c)
                              /\ \A d \in mapped \ {c} : ~Reading(d) /\ ~local[d].bExclusive
  <2>1. PICK c \in Conn, p \in Page : StorePage(c, p) \/ PlaybackPage(c, p)
    BY <1>1, WhoStores
  <2>2. c \in mapped /\ pc[c] = "idle" /\ at[c] \in {"store", "playback"}
    BY <2>1 DEF StorePage, PlaybackPage, Reached, Idle
  <2>3. StateBacked(c) /\ JournalBacked(c) /\ HandleOK(c) /\ ByteExclusion
        /\ mapped \subseteq Conn
    BY <1>1 DEF StoreInv, LockInv, LockTypeOK, TableInv, TableTypeOK
  <2>4. pstate[c] >= PAGER_EXCLUSIVE /\ JournalOpen(c) /\ locktype[c] = EXCLUSIVE_LOCK
    <3>1. pstate[c] >= PAGER_EXCLUSIVE
      <4>1. CASE StorePage(c, p)
        BY <4>1, <2>3 DEF StateBacked, StorePage, Reached
      <4>2. CASE PlaybackPage(c, p)
        BY <4>2, <1>1 DEF PlaybackPage
      <4> QED
        BY <2>1, <4>1, <4>2
    <3> QED
      BY <2>2, <2>3, <3>1 DEF StateBacked, JournalBacked
  <2>5. local[c].bExclusive
    BY <2>2, <2>3, <2>4 DEF HandleOK, ExclusiveBacked
  <2>6. \A d \in mapped \ {c} : ~Reading(d) /\ ~local[d].bExclusive
    BY <2>2, <2>3, <2>5 DEF ByteExclusion
  <2> QED
    BY <2>2, <2>4, <2>5, <2>6
<1>2. StoreInv /\ [PagerNext]_vars =>
        [db' # db =>
           \E c \in mapped : /\ local[c].bExclusive
                            /\ pstate[c] >= PAGER_EXCLUSIVE /\ JournalOpen(c)
                            /\ \A d \in mapped \ {c} : ~Reading(d) /\ ~local[d].bExclusive]_vars
  BY <1>1
<1> QED
  BY <1>2, PagerKnowsItsLock, PTL DEF PagerSpec, OnlyExclusiveStores

----------------------------------------------------------------------------
\* What a pager is doing at each label.

USE DEF NO_LOCK, SHARED_LOCK, RESERVED_LOCK, PENDING_LOCK, EXCLUSIVE_LOCK,
        PAGER_UNLOCK, PAGER_SHARED, PAGER_RESERVED, PAGER_EXCLUSIVE, PAGER_SYNCED,
        fileVars, cacheVars, stepVars, history, pagerVars, lockVars, tableVars, NoPage

\* Which routine a pager is in, and what it believes of its lock, at every label.
LabelOK(c) ==
  /\ at[c] = "rest" <=> doing[c] = "none"
  /\ at[c] \in {"share", "look", "probed", "hotlock", "hotopen", "fetch"} => doing[c] = "get"
  /\ at[c] \in {"reserve", "create"} => doing[c] = "begin"
  /\ at[c] \in {"sync", "store"} => doing[c] \in {"commit", "recycle"}
  /\ at[c] = "exclusive" => doing[c] \in {"begin", "commit", "recycle"}
  /\ at[c] = "playback" => doing[c] \in {"get", "rollback", "reset", "shut"}
  /\ at[c] \in {"close", "delete", "unlock"} =>
       doing[c] \in {"get", "commit", "rollback", "quit", "reset", "leave", "shut"}
  /\ at[c] = "drop" => doing[c] \in {"get", "begin", "reset", "leave", "shut"} /\ pstate[c] = PAGER_UNLOCK
  /\ at[c] \in {"look", "probed", "hotlock", "fetch", "reserve"} => pstate[c] = PAGER_SHARED
  /\ at[c] = "share" => pstate[c] = PAGER_UNLOCK
  /\ at[c] = "exclusive" => pstate[c] < PAGER_EXCLUSIVE
  /\ at[c] \in {"create", "exclusive", "sync"} => pstate[c] # PAGER_SHARED
  /\ at[c] \in {"store", "playback", "close", "delete"} => pstate[c] >= PAGER_RESERVED
  /\ doing[c] = "get" /\ at[c] \in {"close", "delete"} => pstate[c] >= PAGER_EXCLUSIVE
  /\ doing[c] = "get" => ~held[c] /\ ~errored[c]
  /\ doing[c] \in {"begin", "commit", "recycle", "rollback", "quit"} => held[c]
  /\ doing[c] \in {"commit", "recycle"} => ~errored[c]
  /\ doing[c] \in {"reset", "leave", "shut"} => ~held[c]
  /\ at[c] \in {"share", "hotopen", "create", "delete", "unlock"} => ~JournalOpen(c)
  /\ at[c] = "drop" /\ doing[c] \in {"get", "reset", "leave"} => ~JournalOpen(c)
  /\ at[c] = "rest" /\ ~held[c] /\ ~errored[c] => ~JournalOpen(c)
  /\ at[c] = "exclusive" /\ doing[c] = "begin" => ~JournalOpen(c)
  /\ pstate[c] = PAGER_SHARED => ~JournalOpen(c)

\* The level that fits what the pager believes of its lock.
Level(c) ==
  /\ pstate[c] = PAGER_UNLOCK => locktype[c] \in {NO_LOCK, PENDING_LOCK}
  /\ pstate[c] = PAGER_SHARED => locktype[c] = SHARED_LOCK
  /\ pstate[c] = PAGER_RESERVED => locktype[c] \in {RESERVED_LOCK, PENDING_LOCK}
  /\ pstate[c] >= PAGER_EXCLUSIVE => locktype[c] = EXCLUSIVE_LOCK

\* The lock behind a pager at every label: between two requests its level is the one that
\* the pager believes in, and within a request it is on the way there.
LockBacked(c) ==
  /\ at[c] \in {"look", "probed", "fetch"} => Reading(c)
  /\ at[c] = "share" =>
       /\ pc[c] \in {"lockPending", "lockRead", "unlockPending", "idle"}
       /\ pc[c] # "idle" => want[c] = SHARED_LOCK
       /\ pc[c] # "idle" \/ rc[c] # "ok" => locktype[c] = NO_LOCK
       /\ pc[c] = "idle" /\ rc[c] = "ok" => locktype[c] = SHARED_LOCK
       /\ pc[c] \in {"unlockPending", "idle"} /\ rc[c] = "ok" => Reading(c)
  /\ at[c] = "probed" => pc[c] \in {"probe", "unprobe", "idle"}
  /\ pc[c] = "lockReserved" => at[c] = "reserve"
  /\ at[c] = "reserve" =>
       /\ pc[c] \in {"lockReserved", "idle"}
       /\ pc[c] = "idle" /\ rc[c] = "ok" => locktype[c] = RESERVED_LOCK
       /\ pc[c] # "idle" \/ rc[c] # "ok" => locktype[c] = SHARED_LOCK
  /\ at[c] \notin {"share", "hotlock", "reserve", "exclusive", "unlock", "drop"} => Level(c)
  /\ at[c] = "exclusive" /\ (pc[c] # "idle" \/ rc[c] # "ok") => Level(c)
  /\ at[c] = "unlock" =>
       /\ pc[c] \in {"giveExclusive", "relockRead", "giveReserved", "givePending", "idle"}
       /\ pc[c] # "idle" => want[c] = SHARED_LOCK
       /\ pc[c] # "idle" /\ doing[c] = "get" => locktype[c] = EXCLUSIVE_LOCK
       /\ pc[c] = "idle" => locktype[c] = SHARED_LOCK
       /\ doing[c] = "get" /\ pc[c] \in {"giveReserved", "givePending", "idle"} /\ rc[c] # "ioerr" =>
            Reading(c)
  /\ at[c] = "drop" =>
       /\ pc[c] \in {"giveExclusive", "giveReserved", "giveRead", "givePending", "idle"}
       /\ pc[c] # "idle" => want[c] = NO_LOCK
       /\ pc[c] = "idle" /\ doing[c] # "shut" => locktype[c] = NO_LOCK
  /\ at[c] = "rest" /\ ~held[c] /\ ~errored[c] => pstate[c] = PAGER_UNLOCK /\ locktype[c] = NO_LOCK

\* The pages: what is to be stored is dirty, what is dirty is journalled and in the
\* cache, and what is journalled has an original.
PagesOK(c) ==
  /\ dirty[c] \subseteq inJournal[c]
  /\ \A p \in dirty[c] : cache[c][p] # NoPage
  /\ at[c] \in {"sync", "exclusive", "store"} /\ doing[c] \in {"commit", "recycle"} =>
       todo[c] \subseteq dirty[c]
  /\ at[c] = "playback" => todo[c] \subseteq journal.counted
  /\ JournalOpen(c) => \A p \in inJournal[c] : journal.orig[p] # NoPage
  /\ inJournal[c] # {} => pstate[c] # PAGER_SHARED
  /\ \/ doing[c] \in {"get", "begin", "quit", "leave"} \/ at[c] = "unlock"
     \/ at[c] = "drop" /\ doing[c] # "shut"
     \/ errored[c] \/ (doing[c] = "none" /\ ~held[c])
     => inJournal[c] = {}

\* An open journal exists, and what the header counts is in it.
CountedOK == /\ opener # Nobody => journal.exists
             /\ \A p \in journal.counted : journal.exists /\ journal.orig[p] # NoPage

ControlInv ==
  /\ StoreInv
  /\ PagerTypeOK
  /\ CountedOK
  /\ \A c \in Conn : LabelOK(c) /\ LockBacked(c) /\ PagesOK(c)

\* Pager d is left alone by a step.
Apart(d) == /\ Untouched(d)
            /\ pstate'[d] = pstate[d] /\ held'[d] = held[d]
            /\ cache'[d] = cache[d] /\ dirty'[d] = dirty[d] /\ inJournal'[d] = inJournal[d]
            /\ errored'[d] = errored[d]
            /\ at'[d] = at[d] /\ doing'[d] = doing[d] /\ todo'[d] = todo[d]
            /\ JournalOpen(d)' = JournalOpen(d)
            /\ JournalOpen(d) => journal' = journal

Others(c) == \A d \in Conn \ {c} : Apart(d)

\* A pager that a step leaves alone stays in order.
LEMMA ApartControl ==
  ASSUME NEW d \in Conn, Apart(d), LabelOK(d), LockBacked(d), PagesOK(d), JournalBacked(d)
  PROVE  LabelOK(d)' /\ LockBacked(d)' /\ PagesOK(d)'
<1> USE DEF Apart, Untouched
<1>1. LabelOK(d)'
  BY DEF LabelOK
<1>2. LockBacked(d)'
  BY DEF LockBacked, Level, Reading
<1>3. PagesOK(d)'
  BY DEF PagesOK, JournalBacked
<1>. QED  BY <1>1, <1>2, <1>3

\* It is enough to look at the pager that moves.
LEMMA OneMovesControl ==
  ASSUME ControlInv, NEW c \in Conn, StoreInv', PagerTypeOK',
         CountedOK',
         LabelOK(c)', LockBacked(c)', PagesOK(c)', Others(c)
  PROVE  ControlInv'
BY ApartControl DEF ControlInv, StoreInv, Others

\* What is journalled, dirtied and cached when a page changes.
LEMMA ChangeFacts ==
  ASSUME PagerTypeOK, NEW c \in Conn, NEW p \in Page, Change(c, p)
  PROVE  /\ cache[c][p] \in 0..MaxVersion - 1
         /\ cache' \in [Conn -> [Page -> Version \cup {NoPage}]]
         /\ cache'[c][p] = cache[c][p] + 1
         /\ \A q \in Page : q # p => cache'[c][q] = cache[c][q]
         /\ \A d \in Conn : d # c => cache'[d] = cache[d]
         /\ dirty'[c] = dirty[c] \cup {p} /\ inJournal'[c] = inJournal[c] \cup {p}
         /\ \A d \in Conn : d # c => dirty'[d] = dirty[d] /\ inJournal'[d] = inJournal[d]
         /\ journal' \in [exists : BOOLEAN, orig : [Page -> Version \cup {NoPage}], counted : SUBSET Page]
         /\ journal'.counted = journal.counted /\ journal'.exists = journal.exists
         /\ p \in inJournal[c] => journal' = journal
         /\ p \notin inJournal[c] => journal'.orig[p] = cache[c][p]
         /\ \A q \in Page : q # p => journal'.orig[q] = journal.orig[q]
<1> USE PagerAssumption DEF Change, PagerTypeOK, StepTypeOK, Version
<1>1. cache[c][p] \in 0..MaxVersion - 1 /\ cache[c][p] + 1 \in Version
  OBVIOUS
<1>2. /\ cache' \in [Conn -> [Page -> Version \cup {NoPage}]]
      /\ cache'[c][p] = cache[c][p] + 1
      /\ \A q \in Page : q # p => cache'[c][q] = cache[c][q]
      /\ \A d \in Conn : d # c => cache'[d] = cache[d]
  OBVIOUS
<1>3. /\ dirty'[c] = dirty[c] \cup {p} /\ inJournal'[c] = inJournal[c] \cup {p}
      /\ \A d \in Conn : d # c => dirty'[d] = dirty[d] /\ inJournal'[d] = inJournal[d]
  OBVIOUS
<1>4. CASE p \in inJournal[c]
  BY <1>4
<1>5. CASE p \notin inJournal[c]
  <2>1. journal' = [journal EXCEPT !.orig[p] = cache[c][p]]
    BY <1>5
  <2>2. journal' = [journal EXCEPT !.orig = [journal.orig EXCEPT ![p] = cache[c][p]]]
    BY <2>1
  <2>3. [journal.orig EXCEPT ![p] = cache[c][p]] \in [Page -> Version \cup {NoPage}]
    OBVIOUS
  <2>4. journal' \in [exists : BOOLEAN, orig : [Page -> Version \cup {NoPage}], counted : SUBSET Page]
    BY <2>3
  <2>5. /\ journal'.counted = journal.counted /\ journal'.exists = journal.exists
        /\ journal'.orig[p] = cache[c][p]
        /\ \A q \in Page : q # p => journal'.orig[q] = journal.orig[q]
    BY <2>2
  <2>. QED  BY <1>2, <1>3, <2>4
<1>. QED  BY <1>4, <1>5

\* An empty journal, and an empty cache.
LEMMA EmptyFacts ==
  /\ EmptyJournal.counted = {} /\ NoJournal.counted = {} /\ EmptyJournal.exists
  /\ EmptyJournal \in [exists : BOOLEAN, orig : [Page -> Version \cup {NoPage}], counted : SUBSET Page]
  /\ NoJournal \in [exists : BOOLEAN, orig : [Page -> Version \cup {NoPage}], counted : SUBSET Page]
  /\ EmptyCache \in [Page -> Version \cup {NoPage}]
BY DEF EmptyJournal, NoJournal, EmptyCache

\* What the calls of the lock routines leave behind.
LEMMA DropLockFacts ==
  ASSUME LockTypeOK, StepTypeOK, NEW c \in Conn, Idle(c), DropLock(c)
  PROVE  /\ pstate'[c] = PAGER_UNLOCK /\ local' = local /\ locktype' = locktype
         /\ \/ pc'[c] = "idle" /\ locktype'[c] = NO_LOCK
            \/ pc'[c] \in {"giveExclusive", "giveReserved", "giveRead"} /\ want'[c] = NO_LOCK
BY DEF DropLock, State, Unlock, Goto, Result, LockTypeOK, StepTypeOK, Idle

LEMMA UnlockFacts ==
  ASSUME LockTypeOK, NEW c \in Conn, Unlock(c, SHARED_LOCK)
  PROVE  /\ local' = local /\ locktype' = locktype /\ want'[c] = SHARED_LOCK /\ rc'[c] = "ok"
         /\ locktype[c] = EXCLUSIVE_LOCK => pc'[c] = "giveExclusive"
         /\ pc'[c] \in {"giveExclusive", "giveReserved"}
BY DEF Unlock, Goto, Result, LockTypeOK

LEMMA LockExclusiveFacts ==
  ASSUME LockTypeOK, NEW c \in Conn, Lock(c, EXCLUSIVE_LOCK)
  PROVE  /\ local' = local /\ locktype' = locktype /\ want'[c] = EXCLUSIVE_LOCK /\ rc'[c] = "ok"
         /\ pc'[c] \in {"lockPending", "dropRead"}
BY DEF Lock, NeedsPendingByte, Goto, Result, LockTypeOK

LEMMA WaitOnLockFacts ==
  ASSUME LockTypeOK, StepTypeOK, NEW c \in Conn, NEW label, WaitOnLock(c, label)
  PROVE  /\ local' = local /\ locktype' = locktype
         /\ \/ /\ pstate[c] >= PAGER_EXCLUSIVE
               /\ at' = [at EXCEPT ![c] = label] /\ UNCHANGED lockVars
            \/ /\ pstate[c] < PAGER_EXCLUSIVE
               /\ at' = [at EXCEPT ![c] = "exclusive"] /\ Lock(c, EXCLUSIVE_LOCK)
               /\ pc'[c] \in {"lockPending", "dropRead"} /\ want'[c] = EXCLUSIVE_LOCK /\ rc'[c] = "ok"
BY LockExclusiveFacts DEF WaitOnLock, Go, StepTypeOK

LEMMA LetGoFacts ==
  ASSUME StepTypeOK, NEW c \in Conn, NEW routine \in {"reset", "shut"}, LetGo(c, routine)
  PROVE  \/ /\ pstate[c] >= PAGER_RESERVED /\ UNCHANGED <<lockVars, pstate>>
            /\ \/ at'[c] = "close" /\ doing'[c] \in {"reset", "leave", "shut"}
               \/ at'[c] = "playback" /\ doing'[c] \in {"reset", "shut"} /\ JournalOpen(c)
         \/ /\ pstate[c] < PAGER_RESERVED /\ DropLock(c)
            /\ at'[c] = "drop" /\ doing'[c] = routine
         \/ /\ pstate[c] = PAGER_UNLOCK /\ routine = "shut" /\ UNCHANGED <<lockVars, pstate>>
            /\ at'[c] = "drop" /\ doing'[c] = routine
BY DEF LetGo, Undo, Unchanged, Begins, Go, StepTypeOK

\* A pager is opened.
LEMMA StartControl ==
  ASSUME ControlInv, NEW c \in Conn, Start(c), StoreInv'
  PROVE  ControlInv' /\ Others(c)
<1> USE PagerAssumption
<1>0. /\ LockTypeOK /\ StepTypeOK /\ PagerTypeOK /\ StepTypeOK'
      /\ HandleOK(c) /\ StateBacked(c) /\ JournalBacked(c)
      /\ LabelOK(c) /\ LockBacked(c) /\ PagesOK(c)
      /\ CountedOK
  BY DEF ControlInv, StoreInv, LockInv
<1>1. PagerTypeOK'
  <2>1. db' \in [Page -> Version]
    BY <1>0 DEF Start, PagerTypeOK
  <2>2. journal' \in [exists : BOOLEAN, orig : [Page -> Version \cup {NoPage}], counted : SUBSET Page]
    BY <1>0 DEF Start, PagerTypeOK
  <2>3. held' \in [Conn -> BOOLEAN] /\ errored' \in [Conn -> BOOLEAN]
    BY <1>0 DEF Start, PagerTypeOK
  <2>4. cache' \in [Conn -> [Page -> Version \cup {NoPage}]]
    BY <1>0 DEF Start, PagerTypeOK
  <2>5. todo' \in [Conn -> SUBSET Page]
    BY <1>0 DEF Start, PagerTypeOK
  <2>6. committed' \in [Page -> Version] /\ broken' \in {"none", "misled", "uncovered", "unreverted", "unlocked", "stray"}
    BY <1>0 DEF Start, PagerTypeOK
  <2>. QED  BY <1>0, <2>1, <2>2, <2>3, <2>4, <2>5, <2>6 DEF PagerTypeOK
<1>2. CountedOK'
  BY <1>0 DEF Start, CountedOK
<1>3. LabelOK(c)'
  BY <1>0 DEF Start, JournalOpen, LabelOK
<1>4. LockBacked(c)'
  BY <1>0 DEF Start, Open, CreateLock, StateBacked, LockBacked, Level, LabelOK, StepTypeOK,
      LockTypeOK
<1>5. PagesOK(c)'
  BY <1>0 DEF Start, JournalOpen, PagesOK
<1>6. Others(c)
  BY DEF Start, Open, CreateLock, Result, JournalOpen, Others, Apart, Untouched
<1>. QED  BY <1>1, <1>2, <1>3, <1>4, <1>5, <1>6, OneMovesControl

\* A process dies.
LEMMA Die1Control ==
  ASSUME ControlInv, NEW c \in Conn, Die1(c), StoreInv'
  PROVE  ControlInv' /\ Others(c)
<1> USE PagerAssumption
<1>0. /\ LockTypeOK /\ StepTypeOK /\ PagerTypeOK /\ StepTypeOK'
      /\ HandleOK(c) /\ StateBacked(c) /\ JournalBacked(c)
      /\ LabelOK(c) /\ LockBacked(c) /\ PagesOK(c)
      /\ CountedOK
  BY DEF ControlInv, StoreInv, LockInv
<1>1. PagerTypeOK'
  <2>1. db' \in [Page -> Version]
    BY <1>0 DEF Die1, PagerTypeOK
  <2>2. journal' \in [exists : BOOLEAN, orig : [Page -> Version \cup {NoPage}], counted : SUBSET Page]
    BY <1>0 DEF Die1, PagerTypeOK
  <2>3. held' \in [Conn -> BOOLEAN] /\ errored' \in [Conn -> BOOLEAN]
    BY <1>0 DEF Die1, Forget, PagerTypeOK
  <2>4. cache' \in [Conn -> [Page -> Version \cup {NoPage}]]
    BY <1>0 DEF Die1, Forget, EmptyCache, PagerTypeOK
  <2>5. todo' \in [Conn -> SUBSET Page]
    BY <1>0 DEF Die1, Forget, PagerTypeOK
  <2>6. committed' \in [Page -> Version] /\ broken' \in {"none", "misled", "uncovered", "unreverted", "unlocked", "stray"}
    BY <1>0 DEF Die1, PagerTypeOK
  <2>. QED  BY <1>0, <2>1, <2>2, <2>3, <2>4, <2>5, <2>6 DEF PagerTypeOK
<1>2. CountedOK'
  BY <1>0 DEF Die1, Forget, CountedOK
<1>3. LabelOK(c)'
  BY <1>0 DEF Die1, Forget, Go, Begins, Rest, JournalOpen, LabelOK, StepTypeOK
<1>4. LockBacked(c)'
  BY <1>0 DEF Die1, Forget, Die, Goto, Go, Begins, Rest, LockTypeOK, StepTypeOK, LockBacked,
      Level, StateBacked, LabelOK
<1>5. PagesOK(c)'
  BY <1>0 DEF Die1, Forget, StepTypeOK, PagerTypeOK, PagesOK
<1>6. Others(c)
  BY DEF Die1, Forget, Die, Crash, Goto, Result, Go, Begins, Rest, JournalOpen, Others, Apart,
      Untouched
<1>. QED  BY <1>1, <1>2, <1>3, <1>4, <1>5, <1>6, OneMovesControl

\* The SHARED lock is asked for.
LEMMA GetSharedControl ==
  ASSUME ControlInv, NEW c \in Conn, GetShared(c), StoreInv'
  PROVE  ControlInv' /\ Others(c)
<1> USE PagerAssumption
<1>0. /\ LockTypeOK /\ StepTypeOK /\ PagerTypeOK /\ StepTypeOK'
      /\ HandleOK(c) /\ StateBacked(c) /\ JournalBacked(c)
      /\ LabelOK(c) /\ LockBacked(c) /\ PagesOK(c)
      /\ CountedOK
  BY DEF ControlInv, StoreInv, LockInv
<1>1. PagerTypeOK'
  <2>1. db' \in [Page -> Version]
    BY <1>0 DEF GetShared, PagerTypeOK
  <2>2. journal' \in [exists : BOOLEAN, orig : [Page -> Version \cup {NoPage}], counted : SUBSET Page]
    BY <1>0 DEF GetShared, PagerTypeOK
  <2>3. held' \in [Conn -> BOOLEAN] /\ errored' \in [Conn -> BOOLEAN]
    BY <1>0 DEF GetShared, PagerTypeOK
  <2>4. cache' \in [Conn -> [Page -> Version \cup {NoPage}]]
    BY <1>0 DEF GetShared, PagerTypeOK
  <2>5. todo' \in [Conn -> SUBSET Page]
    BY <1>0 DEF GetShared, PagerTypeOK
  <2>6. committed' \in [Page -> Version] /\ broken' \in {"none", "misled", "uncovered", "unreverted", "unlocked", "stray"}
    BY <1>0 DEF GetShared, PagerTypeOK
  <2>. QED  BY <1>0, <2>1, <2>2, <2>3, <2>4, <2>5, <2>6 DEF PagerTypeOK
<1>2. CountedOK'
  BY <1>0 DEF GetShared, CountedOK
<1>3. LabelOK(c)'
  <2>1. at'[c] = "share" /\ doing'[c] = "get" /\ UNCHANGED <<pstate, held, errored, opener>>
    BY <1>0 DEF GetShared, Go, Begins, StepTypeOK
  <2>2. pstate[c] = PAGER_UNLOCK /\ at[c] = "rest"
    BY <1>0 DEF GetShared, Resting, LockBacked
  <2>3. ~held[c] /\ ~errored[c]
    BY DEF GetShared
  <2>. QED  BY <2>1, <2>2, <2>3, <1>0 DEF LabelOK, JournalOpen
<1>4. LockBacked(c)'
  BY <1>0 DEF GetShared, Lock, NeedsPendingByte, Goto, Resting, Go, Begins, LockTypeOK,
      LockBacked, Level, StateBacked, LabelOK, StepTypeOK
<1>5. PagesOK(c)'
  BY <1>0 DEF GetShared, Resting, Go, Begins, LabelOK, PagesOK
<1>6. Others(c)
  BY DEF GetShared, Lock, Goto, Result, Go, Begins, JournalOpen, Others, Apart, Untouched
<1>. QED  BY <1>1, <1>2, <1>3, <1>4, <1>5, <1>6, OneMovesControl

\* The SHARED lock is there, or the busy handler decides.
LEMMA GotSharedControl ==
  ASSUME ControlInv, NEW c \in Conn, GotShared(c), StoreInv'
  PROVE  ControlInv' /\ Others(c)
<1> USE PagerAssumption
<1>0. /\ LockTypeOK /\ StepTypeOK /\ PagerTypeOK /\ StepTypeOK'
      /\ HandleOK(c) /\ StateBacked(c) /\ JournalBacked(c)
      /\ LabelOK(c) /\ LockBacked(c) /\ PagesOK(c)
      /\ CountedOK
  BY DEF ControlInv, StoreInv, LockInv
<1>1. PagerTypeOK'
  <2>1. db' \in [Page -> Version]
    BY <1>0 DEF GotShared, PagerTypeOK
  <2>2. journal' \in [exists : BOOLEAN, orig : [Page -> Version \cup {NoPage}], counted : SUBSET Page]
    BY <1>0 DEF GotShared, PagerTypeOK
  <2>3. held' \in [Conn -> BOOLEAN] /\ errored' \in [Conn -> BOOLEAN]
    BY <1>0 DEF GotShared, PagerTypeOK
  <2>4. cache' \in [Conn -> [Page -> Version \cup {NoPage}]]
    BY <1>0 DEF GotShared, PagerTypeOK
  <2>5. todo' \in [Conn -> SUBSET Page]
    BY <1>0 DEF GotShared, PagerTypeOK
  <2>6. committed' \in [Page -> Version] /\ broken' \in {"none", "misled", "uncovered", "unreverted", "unlocked", "stray"}
    BY <1>0 DEF GotShared, PagerTypeOK
  <2>. QED  BY <1>0, <2>1, <2>2, <2>3, <2>4, <2>5, <2>6 DEF PagerTypeOK
<1>2. CountedOK'
  BY <1>0 DEF GotShared, CountedOK
<1>3. LabelOK(c)'
  <2>1. /\ at[c] = "share" /\ UNCHANGED <<held, errored, opener>>
        /\ \/ at'[c] = "look" /\ pstate'[c] = PAGER_SHARED /\ doing' = doing
           \/ at'[c] = "rest" /\ doing'[c] = "none" /\ pstate' = pstate
           \/ UNCHANGED <<pstate, at, doing>>
    BY <1>0 DEF GotShared, Reached, Go, Begins, Rest, State, StepTypeOK
  <2>. QED  BY <2>1, <1>0 DEF LabelOK, StepTypeOK, JournalOpen
<1>4. LockBacked(c)'
  <2>1. /\ at[c] = "share" /\ pc[c] = "idle" /\ UNCHANGED <<held, errored>>
        /\ \/ /\ at'[c] = "look" /\ pstate'[c] = PAGER_SHARED /\ rc[c] = "ok"
              /\ UNCHANGED <<lockVars, doing>>
           \/ at'[c] = "rest" /\ rc[c] = "busy" /\ UNCHANGED <<lockVars, pstate>>
           \/ /\ at'[c] = "share" /\ rc[c] = "busy"
              /\ pc'[c] = "lockPending" /\ rc'[c] = "ok" /\ want'[c] = SHARED_LOCK
              /\ UNCHANGED <<local, locktype, pstate, doing>>
    BY <1>0 DEF GotShared, Reached, Idle, Go, Begins, Rest, State, StepTypeOK, Lock,
        NeedsPendingByte, Goto, Result, LockTypeOK, LockBacked
  <2>. QED  BY <2>1, <1>0 DEF LockBacked, LabelOK, Reading, Level, StepTypeOK
<1>5. PagesOK(c)'
  BY <1>0 DEF GotShared, Reached, Go, Begins, Rest, LabelOK, StepTypeOK, PagesOK
<1>6. Others(c)
  BY <1>0 DEF GotShared, Lock, Goto, Result, Go, Begins, Rest, State, JournalOpen, LockTypeOK,
      StepTypeOK, Others, Apart, Untouched
<1>. QED  BY <1>1, <1>2, <1>3, <1>4, <1>5, <1>6, OneMovesControl

\* The journal is looked for.
LEMMA HasHotJournalControl ==
  ASSUME ControlInv, NEW c \in Conn, HasHotJournal(c), StoreInv'
  PROVE  ControlInv' /\ Others(c)
<1> USE PagerAssumption
<1>0. /\ LockTypeOK /\ StepTypeOK /\ PagerTypeOK /\ StepTypeOK'
      /\ HandleOK(c) /\ StateBacked(c) /\ JournalBacked(c)
      /\ LabelOK(c) /\ LockBacked(c) /\ PagesOK(c)
      /\ CountedOK
  BY DEF ControlInv, StoreInv, LockInv
<1>1. PagerTypeOK'
  <2>1. db' \in [Page -> Version]
    BY <1>0 DEF HasHotJournal, PagerTypeOK
  <2>2. journal' \in [exists : BOOLEAN, orig : [Page -> Version \cup {NoPage}], counted : SUBSET Page]
    BY <1>0 DEF HasHotJournal, PagerTypeOK
  <2>3. held' \in [Conn -> BOOLEAN] /\ errored' \in [Conn -> BOOLEAN]
    BY <1>0 DEF HasHotJournal, PagerTypeOK
  <2>4. cache' \in [Conn -> [Page -> Version \cup {NoPage}]]
    BY <1>0 DEF HasHotJournal, PagerTypeOK
  <2>5. todo' \in [Conn -> SUBSET Page]
    BY <1>0 DEF HasHotJournal, PagerTypeOK
  <2>6. committed' \in [Page -> Version] /\ broken' \in {"none", "misled", "uncovered", "unreverted", "unlocked", "stray"}
    BY <1>0 DEF HasHotJournal, PagerTypeOK
  <2>. QED  BY <1>0, <2>1, <2>2, <2>3, <2>4, <2>5, <2>6 DEF PagerTypeOK
<1>2. CountedOK'
  BY <1>0 DEF HasHotJournal, CountedOK
<1>3. LabelOK(c)'
  BY <1>0 DEF HasHotJournal, Reached, Go, JournalOpen, LabelOK, StepTypeOK
<1>4. LockBacked(c)'
  BY <1>0 DEF HasHotJournal, CheckReserved, Goto, Reached, Go, LockTypeOK, StepTypeOK,
      LockBacked, Reading, Level, StateBacked, LabelOK
<1>5. PagesOK(c)'
  BY <1>0 DEF HasHotJournal, Go, JournalOpen, StepTypeOK, PagesOK
<1>6. Others(c)
  BY <1>0 DEF HasHotJournal, CheckReserved, Goto, Go, JournalOpen, LockTypeOK, StepTypeOK, Others,
      Apart, Untouched
<1>. QED  BY <1>1, <1>2, <1>3, <1>4, <1>5, <1>6, OneMovesControl

\* The RESERVED byte was looked at.
LEMMA ProbedControl ==
  ASSUME ControlInv, NEW c \in Conn, Probed(c), StoreInv'
  PROVE  ControlInv' /\ Others(c)
<1> USE PagerAssumption
<1>0. /\ LockTypeOK /\ StepTypeOK /\ PagerTypeOK /\ StepTypeOK'
      /\ HandleOK(c) /\ StateBacked(c) /\ JournalBacked(c)
      /\ LabelOK(c) /\ LockBacked(c) /\ PagesOK(c)
      /\ CountedOK
  BY DEF ControlInv, StoreInv, LockInv
<1>1. PagerTypeOK'
  <2>1. db' \in [Page -> Version]
    BY <1>0 DEF Probed, PagerTypeOK
  <2>2. journal' \in [exists : BOOLEAN, orig : [Page -> Version \cup {NoPage}], counted : SUBSET Page]
    BY <1>0 DEF Probed, PagerTypeOK
  <2>3. held' \in [Conn -> BOOLEAN] /\ errored' \in [Conn -> BOOLEAN]
    BY <1>0 DEF Probed, PagerTypeOK
  <2>4. cache' \in [Conn -> [Page -> Version \cup {NoPage}]]
    BY <1>0 DEF Probed, PagerTypeOK
  <2>5. todo' \in [Conn -> SUBSET Page]
    BY <1>0 DEF Probed, PagerTypeOK
  <2>6. committed' \in [Page -> Version] /\ broken' \in {"none", "misled", "uncovered", "unreverted", "unlocked", "stray"}
    BY <1>0 DEF Probed, PagerTypeOK
  <2>. QED  BY <1>0, <2>1, <2>2, <2>3, <2>4, <2>5, <2>6 DEF PagerTypeOK
<1>2. CountedOK'
  BY <1>0 DEF Probed, CountedOK
<1>3. LabelOK(c)'
  BY <1>0 DEF Probed, Reached, Go, JournalOpen, LabelOK, StepTypeOK
<1>4. LockBacked(c)'
  BY <1>0 DEF Probed, Lock, Goto, Reached, Go, LockTypeOK, StepTypeOK, LockBacked, Reading,
      Level, StateBacked, LabelOK
<1>5. PagesOK(c)'
  BY <1>0 DEF Probed, Go, JournalOpen, StepTypeOK, PagesOK
<1>6. Others(c)
  BY <1>0 DEF Probed, Lock, Goto, Result, Go, JournalOpen, LockTypeOK, StepTypeOK, Others, Apart,
      Untouched
<1>. QED  BY <1>1, <1>2, <1>3, <1>4, <1>5, <1>6, OneMovesControl

\* The lock of a recovery is there, or not.
LEMMA HotLockedControl ==
  ASSUME ControlInv, NEW c \in Conn, HotLocked(c), StoreInv'
  PROVE  ControlInv' /\ Others(c)
<1> USE PagerAssumption
<1>0. /\ LockTypeOK /\ StepTypeOK /\ PagerTypeOK /\ StepTypeOK'
      /\ HandleOK(c) /\ StateBacked(c) /\ JournalBacked(c)
      /\ LabelOK(c) /\ LockBacked(c) /\ PagesOK(c)
      /\ CountedOK
  BY DEF ControlInv, StoreInv, LockInv
<1>1. PagerTypeOK'
  <2>1. db' \in [Page -> Version]
    BY <1>0 DEF HotLocked, PagerTypeOK
  <2>2. journal' \in [exists : BOOLEAN, orig : [Page -> Version \cup {NoPage}], counted : SUBSET Page]
    BY <1>0 DEF HotLocked, PagerTypeOK
  <2>3. held' \in [Conn -> BOOLEAN] /\ errored' \in [Conn -> BOOLEAN]
    BY <1>0 DEF HotLocked, PagerTypeOK
  <2>4. cache' \in [Conn -> [Page -> Version \cup {NoPage}]]
    BY <1>0 DEF HotLocked, PagerTypeOK
  <2>5. todo' \in [Conn -> SUBSET Page]
    BY <1>0 DEF HotLocked, PagerTypeOK
  <2>6. committed' \in [Page -> Version] /\ broken' \in {"none", "misled", "uncovered", "unreverted", "unlocked", "stray"}
    BY <1>0 DEF HotLocked, PagerTypeOK
  <2>. QED  BY <1>0, <2>1, <2>2, <2>3, <2>4, <2>5, <2>6 DEF PagerTypeOK
<1>2. CountedOK'
  BY <1>0 DEF HotLocked, CountedOK
<1>3. LabelOK(c)'
  BY <1>0 DEF HotLocked, DropLock, Reached, Go, State, JournalOpen, LabelOK, StepTypeOK
<1>4. LockBacked(c)'
  <2>1. at[c] = "hotlock" /\ Idle(c) /\ pc[c] = "idle" /\ doing' = doing /\ doing[c] = "get"
    BY <1>0 DEF HotLocked, Reached, Idle, LabelOK
  <2>2. CASE rc[c] = "ok" /\ State(c, PAGER_EXCLUSIVE) /\ Go(c, "hotopen") /\ UNCHANGED lockVars
    <3>1. pstate'[c] = PAGER_EXCLUSIVE /\ at'[c] = "hotopen" /\ locktype'[c] = EXCLUSIVE_LOCK
          /\ pc'[c] = "idle"
      BY <1>0, <2>1, <2>2 DEF State, Go, StateBacked, Asking, StepTypeOK
    <3>. QED  BY <3>1 DEF LockBacked, Level
  <2>3. CASE DropLock(c) /\ Go(c, "drop")
    <3>1. at'[c] = "drop"
      BY <1>0, <2>3 DEF Go, StepTypeOK
    <3>. QED  BY <1>0, <2>1, <2>3, <3>1, DropLockFacts DEF LockBacked
  <2>. QED  BY <2>2, <2>3 DEF HotLocked
<1>5. PagesOK(c)'
  BY <1>0 DEF HotLocked, Reached, Go, LabelOK, StepTypeOK, PagesOK
<1>6. Others(c)
  BY <1>0 DEF HotLocked, DropLock, Unlock, Goto, Result, Go, State, JournalOpen, LockTypeOK,
      StepTypeOK, Others, Apart, Untouched
<1>. QED  BY <1>1, <1>2, <1>3, <1>4, <1>5, <1>6, OneMovesControl

\* A hot journal is opened.
LEMMA OpenHotJournalControl ==
  ASSUME ControlInv, NEW c \in Conn, OpenHotJournal(c), StoreInv'
  PROVE  ControlInv' /\ Others(c)
<1> USE PagerAssumption
<1>0. /\ LockTypeOK /\ StepTypeOK /\ PagerTypeOK /\ StepTypeOK'
      /\ HandleOK(c) /\ StateBacked(c) /\ JournalBacked(c)
      /\ LabelOK(c) /\ LockBacked(c) /\ PagesOK(c)
      /\ CountedOK
  BY DEF ControlInv, StoreInv, LockInv
<1>1. PagerTypeOK'
  <2>1. db' \in [Page -> Version]
    BY <1>0 DEF OpenHotJournal, PagerTypeOK
  <2>2. journal' \in [exists : BOOLEAN, orig : [Page -> Version \cup {NoPage}], counted : SUBSET Page]
    BY <1>0 DEF OpenHotJournal, PagerTypeOK
  <2>3. held' \in [Conn -> BOOLEAN] /\ errored' \in [Conn -> BOOLEAN]
    BY <1>0 DEF OpenHotJournal, PagerTypeOK
  <2>4. cache' \in [Conn -> [Page -> Version \cup {NoPage}]]
    BY <1>0 DEF OpenHotJournal, PagerTypeOK
  <2>5. todo' \in [Conn -> SUBSET Page]
    BY <1>0 DEF OpenHotJournal, LockTypeOK, PagerTypeOK
  <2>6. committed' \in [Page -> Version] /\ broken' \in {"none", "misled", "uncovered", "unreverted", "unlocked", "stray"}
    BY <1>0 DEF OpenHotJournal, PagerTypeOK
  <2>. QED  BY <1>0, <2>1, <2>2, <2>3, <2>4, <2>5, <2>6 DEF PagerTypeOK
<1>2. CountedOK'
  BY <1>0 DEF OpenHotJournal, CountedOK
<1>3. LabelOK(c)'
  <2>1. /\ at[c] = "hotopen" /\ UNCHANGED <<doing, held, errored>>
        /\ \/ at'[c] = "playback" /\ pstate' = pstate
           \/ at'[c] = "drop" /\ pstate'[c] = PAGER_UNLOCK /\ opener' = opener
    BY <1>0 DEF OpenHotJournal, Reached, Go, State, StepTypeOK, DropLock
  <2>. QED  BY <2>1, <1>0 DEF LabelOK, StateBacked, StepTypeOK, JournalOpen
<1>4. LockBacked(c)'
  BY <1>0 DEF OpenHotJournal, DropLock, Unlock, Goto, Reached, Go, State, LockTypeOK,
      StepTypeOK, LockBacked, Level, StateBacked, LabelOK
<1>5. PagesOK(c)'
  BY <1>0 DEF OpenHotJournal, Reached, Go, LabelOK, StepTypeOK, PagerTypeOK, PagesOK
<1>6. Others(c)
  BY <1>0 DEF OpenHotJournal, DropLock, Unlock, Goto, Result, Go, State, JournalOpen, LockTypeOK,
      StepTypeOK, PagerTypeOK, Others, Apart, Untouched
<1>. QED  BY <1>1, <1>2, <1>3, <1>4, <1>5, <1>6, OneMovesControl

\* The RESERVED lock is asked for.
LEMMA BeginControl ==
  ASSUME ControlInv, NEW c \in Conn, Begin(c), StoreInv'
  PROVE  ControlInv' /\ Others(c)
<1> USE PagerAssumption
<1>0. /\ LockTypeOK /\ StepTypeOK /\ PagerTypeOK /\ StepTypeOK'
      /\ HandleOK(c) /\ StateBacked(c) /\ JournalBacked(c)
      /\ LabelOK(c) /\ LockBacked(c) /\ PagesOK(c)
      /\ CountedOK
  BY DEF ControlInv, StoreInv, LockInv
<1>1. PagerTypeOK'
  <2>1. db' \in [Page -> Version]
    BY <1>0 DEF Begin, PagerTypeOK
  <2>2. journal' \in [exists : BOOLEAN, orig : [Page -> Version \cup {NoPage}], counted : SUBSET Page]
    BY <1>0 DEF Begin, PagerTypeOK
  <2>3. held' \in [Conn -> BOOLEAN] /\ errored' \in [Conn -> BOOLEAN]
    BY <1>0 DEF Begin, PagerTypeOK
  <2>4. cache' \in [Conn -> [Page -> Version \cup {NoPage}]]
    BY <1>0 DEF Begin, PagerTypeOK
  <2>5. todo' \in [Conn -> SUBSET Page]
    BY <1>0 DEF Begin, PagerTypeOK
  <2>6. committed' \in [Page -> Version] /\ broken' \in {"none", "misled", "uncovered", "unreverted", "unlocked", "stray"}
    BY <1>0 DEF Begin, PagerTypeOK
  <2>. QED  BY <1>0, <2>1, <2>2, <2>3, <2>4, <2>5, <2>6 DEF PagerTypeOK
<1>2. CountedOK'
  BY <1>0 DEF Begin, CountedOK
<1>3. LabelOK(c)'
  BY <1>0 DEF Begin, Go, Begins, JournalOpen, LabelOK, StepTypeOK
<1>4. LockBacked(c)'
  BY <1>0 DEF Begin, Lock, LegalRequest, NeedsPendingByte, Goto, Go, Begins, LockTypeOK,
      StepTypeOK, LockBacked, Level, StateBacked, LabelOK
<1>5. PagesOK(c)'
  BY <1>0 DEF Begin, Go, Begins, PagesOK
<1>6. Others(c)
  BY DEF Begin, Lock, Goto, Result, Go, Begins, JournalOpen, Others, Apart, Untouched
<1>. QED  BY <1>1, <1>2, <1>3, <1>4, <1>5, <1>6, OneMovesControl

\* The RESERVED lock is there, or not.
LEMMA GotReservedControl ==
  ASSUME ControlInv, NEW c \in Conn, GotReserved(c), StoreInv'
  PROVE  ControlInv' /\ Others(c)
<1> USE PagerAssumption
<1>0. /\ LockTypeOK /\ StepTypeOK /\ PagerTypeOK /\ StepTypeOK'
      /\ HandleOK(c) /\ StateBacked(c) /\ JournalBacked(c)
      /\ LabelOK(c) /\ LockBacked(c) /\ PagesOK(c)
      /\ CountedOK
  BY DEF ControlInv, StoreInv, LockInv
<1>1. PagerTypeOK'
  <2>1. db' \in [Page -> Version]
    BY <1>0 DEF GotReserved, PagerTypeOK
  <2>2. journal' \in [exists : BOOLEAN, orig : [Page -> Version \cup {NoPage}], counted : SUBSET Page]
    BY <1>0 DEF GotReserved, PagerTypeOK
  <2>3. held' \in [Conn -> BOOLEAN] /\ errored' \in [Conn -> BOOLEAN]
    BY <1>0 DEF GotReserved, PagerTypeOK
  <2>4. cache' \in [Conn -> [Page -> Version \cup {NoPage}]]
    BY <1>0 DEF GotReserved, PagerTypeOK
  <2>5. todo' \in [Conn -> SUBSET Page]
    BY <1>0 DEF GotReserved, PagerTypeOK
  <2>6. committed' \in [Page -> Version] /\ broken' \in {"none", "misled", "uncovered", "unreverted", "unlocked", "stray"}
    BY <1>0 DEF GotReserved, PagerTypeOK
  <2>. QED  BY <1>0, <2>1, <2>2, <2>3, <2>4, <2>5, <2>6 DEF PagerTypeOK
<1>2. CountedOK'
  BY <1>0 DEF GotReserved, CountedOK
<1>3. LabelOK(c)'
  BY <1>0 DEF GotReserved, Reached, Go, Begins, Rest, State, JournalOpen, LabelOK, StepTypeOK
<1>4. LockBacked(c)'
  <2>1. at[c] = "reserve" /\ pc[c] = "idle" /\ UNCHANGED <<held, errored>> /\ held[c]
        /\ pstate[c] = PAGER_SHARED
    BY <1>0 DEF GotReserved, Reached, Idle, LabelOK
  <2>2. CASE rc[c] = "busy" /\ Rest(c) /\ UNCHANGED <<lockVars, pstate>>
    <3>1. at'[c] = "rest" /\ locktype'[c] = SHARED_LOCK
      BY <1>0, <2>1, <2>2 DEF Rest, Begins, Go, StepTypeOK, LockBacked
    <3>. QED  BY <2>1, <2>2, <3>1 DEF LockBacked, Level
  <2>3. CASE rc[c] = "ok" /\ State(c, PAGER_RESERVED) /\ Go(c, "create") /\ UNCHANGED lockVars
    <3>1. at'[c] = "create" /\ pstate'[c] = PAGER_RESERVED /\ locktype'[c] = RESERVED_LOCK
      BY <1>0, <2>1, <2>3 DEF State, Go, StepTypeOK, LockBacked
    <3>. QED  BY <2>1, <2>3, <3>1 DEF LockBacked, Level
  <2>4. CASE rc[c] = "ok" /\ State(c, PAGER_RESERVED) /\ Go(c, "exclusive") /\ Lock(c, EXCLUSIVE_LOCK)
    <3>1. at'[c] = "exclusive" /\ pstate'[c] = PAGER_RESERVED /\ locktype[c] = RESERVED_LOCK
      BY <1>0, <2>1, <2>4 DEF State, Go, StepTypeOK, LockBacked
    <3>. QED  BY <1>0, <2>4, <3>1, LockExclusiveFacts DEF LockBacked, Level
  <2>. QED  BY <2>2, <2>3, <2>4 DEF GotReserved
<1>5. PagesOK(c)'
  BY <1>0 DEF GotReserved, Reached, Go, Begins, Rest, LabelOK, StepTypeOK, PagesOK
<1>6. Others(c)
  BY <1>0 DEF GotReserved, Lock, Goto, Result, Go, Begins, Rest, State, JournalOpen, LockTypeOK,
      StepTypeOK, Others, Apart, Untouched
<1>. QED  BY <1>1, <1>2, <1>3, <1>4, <1>5, <1>6, OneMovesControl

\* The EXCLUSIVE lock is there, or not.
LEMMA GotExclusiveControl ==
  ASSUME ControlInv, NEW c \in Conn, GotExclusive(c), StoreInv'
  PROVE  ControlInv' /\ Others(c)
<1> USE PagerAssumption
<1>0. /\ LockTypeOK /\ StepTypeOK /\ PagerTypeOK /\ StepTypeOK'
      /\ HandleOK(c) /\ StateBacked(c) /\ JournalBacked(c)
      /\ LabelOK(c) /\ LockBacked(c) /\ PagesOK(c)
      /\ CountedOK
  BY DEF ControlInv, StoreInv, LockInv
<1>1. PagerTypeOK'
  <2>1. db' \in [Page -> Version]
    BY <1>0 DEF GotExclusive, PagerTypeOK
  <2>2. journal' \in [exists : BOOLEAN, orig : [Page -> Version \cup {NoPage}], counted : SUBSET Page]
    BY <1>0 DEF GotExclusive, PagerTypeOK
  <2>3. held' \in [Conn -> BOOLEAN] /\ errored' \in [Conn -> BOOLEAN]
    BY <1>0 DEF GotExclusive, PagerTypeOK
  <2>4. cache' \in [Conn -> [Page -> Version \cup {NoPage}]]
    BY <1>0 DEF GotExclusive, PagerTypeOK
  <2>5. todo' \in [Conn -> SUBSET Page]
    BY <1>0 DEF GotExclusive, PagerTypeOK
  <2>6. committed' \in [Page -> Version] /\ broken' \in {"none", "misled", "uncovered", "unreverted", "unlocked", "stray"}
    BY <1>0 DEF GotExclusive, PagerTypeOK
  <2>. QED  BY <1>0, <2>1, <2>2, <2>3, <2>4, <2>5, <2>6 DEF PagerTypeOK
<1>2. CountedOK'
  BY <1>0 DEF GotExclusive, CountedOK
<1>3. LabelOK(c)'
  BY <1>0 DEF GotExclusive, Reached, Go, Begins, Rest, State, JournalOpen, LabelOK, StepTypeOK
<1>4. LockBacked(c)'
  <2>1. at[c] = "exclusive" /\ pc[c] = "idle" /\ UNCHANGED <<held, errored>> /\ held[c]
    BY <1>0 DEF GotExclusive, Reached, Idle, LabelOK
  <2>2. CASE rc[c] = "ok" /\ State(c, PAGER_EXCLUSIVE) /\ UNCHANGED lockVars
              /\ Go(c, IF doing[c] = "begin" THEN "create" ELSE "store")
    <3>1. /\ at'[c] \in {"create", "store"} /\ pstate'[c] = PAGER_EXCLUSIVE
          /\ locktype'[c] = EXCLUSIVE_LOCK
      BY <1>0, <2>1, <2>2 DEF State, Go, StepTypeOK, StateBacked, Asking
    <3>. QED  BY <2>1, <2>2, <3>1 DEF LockBacked, Level
  <2>3. CASE rc[c] = "busy" /\ Lock(c, EXCLUSIVE_LOCK) /\ UNCHANGED <<pstate, at, doing>>
    <3>1. Level(c)
      BY <1>0, <2>1, <2>3 DEF LockBacked
    <3>. QED  BY <1>0, <2>1, <2>3, <3>1, LockExclusiveFacts DEF LockBacked, Level
  <2>4. CASE rc[c] = "busy" /\ Rest(c) /\ UNCHANGED <<lockVars, pstate>>
    <3>1. Level(c) /\ at'[c] = "rest"
      BY <1>0, <2>1, <2>4 DEF LockBacked, Rest, Begins, Go, StepTypeOK
    <3>. QED  BY <2>1, <2>4, <3>1 DEF LockBacked, Level
  <2>. QED  BY <2>2, <2>3, <2>4 DEF GotExclusive
<1>5. PagesOK(c)'
  <2>1. /\ at[c] = "exclusive" /\ UNCHANGED <<journal, opener, held, errored, cache, dirty, inJournal>>
        /\ \/ at'[c] \in {"create", "store"} /\ pstate'[c] = PAGER_EXCLUSIVE /\ UNCHANGED <<doing, todo>>
           \/ at'[c] = "exclusive" /\ UNCHANGED <<doing, todo, pstate>>
           \/ at'[c] = "rest" /\ doing'[c] = "none" /\ pstate' = pstate
    BY <1>0 DEF GotExclusive, Reached, Go, Begins, Rest, State, StepTypeOK
  <2>. QED  BY <2>1, <1>0 DEF PagesOK, LabelOK, JournalOpen
<1>6. Others(c)
  BY <1>0 DEF GotExclusive, Lock, Goto, Result, Go, Begins, Rest, State, JournalOpen, LockTypeOK,
      StepTypeOK, PagerTypeOK, Others, Apart, Untouched
<1>. QED  BY <1>1, <1>2, <1>3, <1>4, <1>5, <1>6, OneMovesControl

\* A journal is made.
LEMMA OpenJournalControl ==
  ASSUME ControlInv, NEW c \in Conn, OpenJournal(c), StoreInv'
  PROVE  ControlInv' /\ Others(c)
<1> USE PagerAssumption
<1>0. /\ LockTypeOK /\ StepTypeOK /\ PagerTypeOK /\ StepTypeOK'
      /\ HandleOK(c) /\ StateBacked(c) /\ JournalBacked(c)
      /\ LabelOK(c) /\ LockBacked(c) /\ PagesOK(c)
      /\ CountedOK
  BY DEF ControlInv, StoreInv, LockInv
<1>1. PagerTypeOK'
  <2>1. db' \in [Page -> Version]
    BY <1>0 DEF OpenJournal, PagerTypeOK
  <2>2. journal' \in [exists : BOOLEAN, orig : [Page -> Version \cup {NoPage}], counted : SUBSET Page]
    BY <1>0, EmptyFacts DEF OpenJournal, PagerTypeOK
  <2>3. held' \in [Conn -> BOOLEAN] /\ errored' \in [Conn -> BOOLEAN]
    BY <1>0 DEF OpenJournal, PagerTypeOK
  <2>4. cache' \in [Conn -> [Page -> Version \cup {NoPage}]]
    BY <1>0 DEF OpenJournal, PagerTypeOK
  <2>5. todo' \in [Conn -> SUBSET Page]
    BY <1>0 DEF OpenJournal, PagerTypeOK
  <2>6. committed' \in [Page -> Version] /\ broken' \in {"none", "misled", "uncovered", "unreverted", "unlocked", "stray"}
    BY <1>0 DEF OpenJournal, PagerTypeOK
  <2>. QED  BY <1>0, <2>1, <2>2, <2>3, <2>4, <2>5, <2>6 DEF PagerTypeOK
<1>2. CountedOK'
  BY <1>0, EmptyFacts DEF OpenJournal, CountedOK
<1>3. LabelOK(c)'
  BY <1>0 DEF OpenJournal, DropLock, Reached, Go, Begins, Rest, State, JournalOpen, LabelOK,
      StepTypeOK
<1>4. LockBacked(c)'
  BY <1>0 DEF OpenJournal, DropLock, Unlock, Goto, Reached, Go, Begins, Rest, LabelOK,
      LockTypeOK, StepTypeOK, LockBacked, Level, StateBacked
<1>5. PagesOK(c)'
  <2>1. /\ at[c] = "create" /\ UNCHANGED <<held, errored, cache, dirty, inJournal, todo>>
        /\ at'[c] \in {"rest", "drop"} /\ (at'[c] = "rest" => doing'[c] = "none")
    BY <1>0 DEF OpenJournal, Reached, Go, Begins, Rest, StepTypeOK
  <2>. QED  BY <2>1, <1>0 DEF PagesOK, LabelOK
<1>6. Others(c)
  BY <1>0 DEF OpenJournal, DropLock, Unlock, Goto, Result, Go, Begins, Rest, State, JournalOpen,
      LockTypeOK, StepTypeOK, Others, Apart, Untouched
<1>. QED  BY <1>1, <1>2, <1>3, <1>4, <1>5, <1>6, OneMovesControl

\* A journal is about to be made.
LEMMA LateJournalControl ==
  ASSUME ControlInv, NEW c \in Conn, LateJournal(c), StoreInv'
  PROVE  ControlInv' /\ Others(c)
<1> USE PagerAssumption
<1>0. /\ LockTypeOK /\ StepTypeOK /\ PagerTypeOK /\ StepTypeOK'
      /\ HandleOK(c) /\ StateBacked(c) /\ JournalBacked(c)
      /\ LabelOK(c) /\ LockBacked(c) /\ PagesOK(c)
      /\ CountedOK
  BY DEF ControlInv, StoreInv, LockInv
<1>1. PagerTypeOK'
  <2>1. db' \in [Page -> Version]
    BY <1>0 DEF LateJournal, PagerTypeOK
  <2>2. journal' \in [exists : BOOLEAN, orig : [Page -> Version \cup {NoPage}], counted : SUBSET Page]
    BY <1>0 DEF LateJournal, PagerTypeOK
  <2>3. held' \in [Conn -> BOOLEAN] /\ errored' \in [Conn -> BOOLEAN]
    BY <1>0 DEF LateJournal, PagerTypeOK
  <2>4. cache' \in [Conn -> [Page -> Version \cup {NoPage}]]
    BY <1>0 DEF LateJournal, PagerTypeOK
  <2>5. todo' \in [Conn -> SUBSET Page]
    BY <1>0 DEF LateJournal, PagerTypeOK
  <2>6. committed' \in [Page -> Version] /\ broken' \in {"none", "misled", "uncovered", "unreverted", "unlocked", "stray"}
    BY <1>0 DEF LateJournal, PagerTypeOK
  <2>. QED  BY <1>0, <2>1, <2>2, <2>3, <2>4, <2>5, <2>6 DEF PagerTypeOK
<1>2. CountedOK'
  BY <1>0 DEF LateJournal, CountedOK
<1>3. LabelOK(c)'
  BY <1>0 DEF LateJournal, Go, Begins, JournalOpen, LabelOK, StepTypeOK
<1>4. LockBacked(c)'
  BY <1>0 DEF LateJournal, Resting, Go, Begins, LabelOK, LockBacked, Level, StateBacked,
      StepTypeOK, LockTypeOK
<1>5. PagesOK(c)'
  BY <1>0 DEF LateJournal, Resting, Go, Begins, JournalOpen, JournalBacked, PagesOK
<1>6. Others(c)
  BY DEF LateJournal, Go, Begins, JournalOpen, Others, Apart, Untouched
<1>. QED  BY <1>1, <1>2, <1>3, <1>4, <1>5, <1>6, OneMovesControl

\* A commit begins.
LEMMA CommitControl ==
  ASSUME ControlInv, NEW c \in Conn, Commit(c), StoreInv'
  PROVE  ControlInv' /\ Others(c)
<1> USE PagerAssumption
<1>0. /\ LockTypeOK /\ StepTypeOK /\ PagerTypeOK /\ StepTypeOK'
      /\ HandleOK(c) /\ StateBacked(c) /\ JournalBacked(c)
      /\ LabelOK(c) /\ LockBacked(c) /\ PagesOK(c)
      /\ CountedOK
  BY DEF ControlInv, StoreInv, LockInv
<1>1. PagerTypeOK'
  <2>1. db' \in [Page -> Version]
    BY <1>0 DEF Commit, PagerTypeOK
  <2>2. journal' \in [exists : BOOLEAN, orig : [Page -> Version \cup {NoPage}], counted : SUBSET Page]
    BY <1>0, ChangeFacts DEF Commit, PagerTypeOK
  <2>3. held' \in [Conn -> BOOLEAN] /\ errored' \in [Conn -> BOOLEAN]
    BY <1>0 DEF Commit, PagerTypeOK
  <2>4. cache' \in [Conn -> [Page -> Version \cup {NoPage}]]
    BY <1>0, ChangeFacts DEF Commit, PagerTypeOK
  <2>5. todo' \in [Conn -> SUBSET Page]
    <3>1. dirty[c] \cup {Page1} \in SUBSET Page
      BY <1>0 DEF StepTypeOK
    <3>. QED  BY <1>0, <3>1 DEF Commit, PagerTypeOK
  <2>6. committed' \in [Page -> Version] /\ broken' \in {"none", "misled", "uncovered", "unreverted", "unlocked", "stray"}
    BY <1>0 DEF Commit, PagerTypeOK
  <2>. QED  BY <1>0, <2>1, <2>2, <2>3, <2>4, <2>5, <2>6 DEF PagerTypeOK
<1>2. CountedOK'
  <2>1. opener' = opener /\ journal'.counted = journal.counted
    BY <1>0, ChangeFacts DEF Commit
  <2>2. journal' = journal \/ Change(c, Page1)
    BY DEF Commit
  <2>3. /\ journal'.exists = journal.exists
        /\ \A q \in Page : journal'.orig[q] = journal.orig[q] \/ journal'.orig[q] # NoPage
    BY <1>0, <2>2, ChangeFacts
  <2>. QED  BY <1>0, <2>1, <2>3 DEF CountedOK, PagerTypeOK
<1>3. LabelOK(c)'
  BY <1>0 DEF Commit, Go, Begins, LabelOK, StepTypeOK
<1>4. LockBacked(c)'
  BY <1>0 DEF Commit, Resting, Go, Begins, LabelOK, StepTypeOK, LockBacked, Level, StateBacked,
      LockTypeOK
<1>5. PagesOK(c)'
  <2>1. CASE ~DirtyCache(c) /\ UNCHANGED <<cache, dirty, inJournal, journal, todo>>
    <3>1. at'[c] = "close" /\ doing'[c] = "quit" /\ inJournal[c] = {}
      BY <2>1, <1>0 DEF Commit, Go, Begins, StepTypeOK, DirtyCache
    <3>. QED  BY <2>1, <3>1, <1>0 DEF PagesOK
  <2>2. CASE DirtyCache(c) /\ Change(c, Page1)
    <3>1. /\ at'[c] = "sync" /\ doing'[c] = "commit" /\ todo'[c] = dirty[c] \cup {Page1}
          /\ pstate[c] # PAGER_SHARED /\ held[c] /\ ~errored[c]
          /\ UNCHANGED <<opener, pstate, errored, held>>
      BY <2>2, <1>0 DEF Commit, Go, Begins, StepTypeOK, PagerTypeOK
    <3>2. JournalOpen(c)
      BY <2>2, <1>0 DEF Commit, DirtyCache, Resting, JournalBacked
    <3>3. \A q \in inJournal[c] : journal.orig[q] # NoPage
      BY <3>2, <1>0 DEF PagesOK
    <3>c. /\ cache[c][Page1] \in 0..MaxVersion - 1 /\ cache'[c][Page1] = cache[c][Page1] + 1
          /\ \A q \in Page : q # Page1 => cache'[c][q] = cache[c][q]
          /\ dirty'[c] = dirty[c] \cup {Page1} /\ inJournal'[c] = inJournal[c] \cup {Page1}
          /\ Page1 \in inJournal[c] => journal' = journal
          /\ Page1 \notin inJournal[c] => journal'.orig[Page1] = cache[c][Page1]
          /\ \A q \in Page : q # Page1 => journal'.orig[q] = journal.orig[q]
      BY <2>2, <1>0, ChangeFacts
    <3>d. dirty[c] \subseteq inJournal[c] /\ \A q \in dirty[c] : cache[c][q] # NoPage
      BY <1>0 DEF PagesOK
    <3>e. inJournal[c] \subseteq Page
      BY <1>0 DEF StepTypeOK
    <3>4. /\ \A q \in dirty'[c] : cache'[c][q] # NoPage
          /\ \A q \in inJournal'[c] : journal'.orig[q] # NoPage
          /\ dirty'[c] \subseteq inJournal'[c] /\ todo'[c] \subseteq dirty'[c]
      BY <3>1, <3>3, <3>c, <3>d, <3>e
    <3>. QED  BY <3>1, <3>4 DEF PagesOK
  <2>. QED  BY <2>1, <2>2 DEF Commit
<1>6. Others(c)
  BY <1>0 DEF Commit, Change, DirtyCache, Resting, Go, Begins, JournalOpen, JournalBacked,
      StepTypeOK, PagerTypeOK, Others, Apart, Untouched
<1>. QED  BY <1>1, <1>2, <1>3, <1>4, <1>5, <1>6, OneMovesControl

\* The journal is synced.
LEMMA SyncJournalControl ==
  ASSUME ControlInv, NEW c \in Conn, SyncJournal(c), StoreInv'
  PROVE  ControlInv' /\ Others(c)
<1> USE PagerAssumption
<1>0. /\ LockTypeOK /\ StepTypeOK /\ PagerTypeOK /\ StepTypeOK'
      /\ HandleOK(c) /\ StateBacked(c) /\ JournalBacked(c)
      /\ LabelOK(c) /\ LockBacked(c) /\ PagesOK(c)
      /\ CountedOK
  BY DEF ControlInv, StoreInv, LockInv
<1>1. PagerTypeOK'
  <2>1. db' \in [Page -> Version]
    BY <1>0 DEF SyncJournal, PagerTypeOK
  <2>2. journal' \in [exists : BOOLEAN, orig : [Page -> Version \cup {NoPage}], counted : SUBSET Page]
    BY <1>0 DEF SyncJournal, StepTypeOK, PagerTypeOK
  <2>3. held' \in [Conn -> BOOLEAN] /\ errored' \in [Conn -> BOOLEAN]
    BY <1>0 DEF SyncJournal, PagerTypeOK
  <2>4. cache' \in [Conn -> [Page -> Version \cup {NoPage}]]
    BY <1>0 DEF SyncJournal, PagerTypeOK
  <2>5. todo' \in [Conn -> SUBSET Page]
    BY <1>0 DEF SyncJournal, PagerTypeOK
  <2>6. committed' \in [Page -> Version] /\ broken' \in {"none", "misled", "uncovered", "unreverted", "unlocked", "stray"}
    BY <1>0 DEF SyncJournal, PagerTypeOK
  <2>. QED  BY <1>0, <2>1, <2>2, <2>3, <2>4, <2>5, <2>6 DEF PagerTypeOK
<1>2. CountedOK'
  <2>1. /\ journal' = [journal EXCEPT !.counted = inJournal[c]] /\ opener' = opener
        /\ JournalOpen(c)
    BY <1>0 DEF SyncJournal, Reached, JournalBacked
  <2>. QED  BY <1>0, <2>1 DEF CountedOK, PagesOK, JournalOpen
<1>3. LabelOK(c)'
  <2>1. /\ at[c] = "sync" /\ UNCHANGED <<doing, held, errored, pstate, opener>>
        /\ \/ at'[c] = "store" /\ pstate[c] >= PAGER_EXCLUSIVE
           \/ at'[c] = "exclusive" /\ pstate[c] < PAGER_EXCLUSIVE
    BY <1>0, WaitOnLockFacts DEF SyncJournal, Reached, StepTypeOK
  <2>2. JournalOpen(c)
    BY <2>1, <1>0 DEF JournalBacked
  <2>. QED  BY <2>1, <2>2, <1>0 DEF LabelOK, JournalOpen, StepTypeOK
<1>4. LockBacked(c)'
  BY <1>0 DEF SyncJournal, WaitOnLock, Lock, Goto, Reached, Go, LockTypeOK, StepTypeOK,
      LockBacked, Level, StateBacked, LabelOK
<1>5. PagesOK(c)'
  BY <1>0 DEF SyncJournal, WaitOnLock, Reached, Go, JournalOpen, StepTypeOK, PagesOK
<1>6. Others(c)
  BY <1>0 DEF SyncJournal, WaitOnLock, Lock, Goto, Result, Reached, Go, JournalOpen, JournalBacked,
      LockTypeOK, StepTypeOK, Others, Apart, Untouched
<1>. QED  BY <1>1, <1>2, <1>3, <1>4, <1>5, <1>6, OneMovesControl

\* All pages are stored.
LEMMA StoredControl ==
  ASSUME ControlInv, NEW c \in Conn, Stored(c), StoreInv'
  PROVE  ControlInv' /\ Others(c)
<1> USE PagerAssumption
<1>0. /\ LockTypeOK /\ StepTypeOK /\ PagerTypeOK /\ StepTypeOK'
      /\ HandleOK(c) /\ StateBacked(c) /\ JournalBacked(c)
      /\ LabelOK(c) /\ LockBacked(c) /\ PagesOK(c)
      /\ CountedOK
  BY DEF ControlInv, StoreInv, LockInv
<1>1. PagerTypeOK'
  <2>1. db' \in [Page -> Version]
    BY <1>0 DEF Stored, PagerTypeOK
  <2>2. journal' \in [exists : BOOLEAN, orig : [Page -> Version \cup {NoPage}], counted : SUBSET Page]
    BY <1>0 DEF Stored, PagerTypeOK
  <2>3. held' \in [Conn -> BOOLEAN] /\ errored' \in [Conn -> BOOLEAN]
    BY <1>0 DEF Stored, PagerTypeOK
  <2>4. cache' \in [Conn -> [Page -> Version \cup {NoPage}]]
    BY <1>0 DEF Stored, PagerTypeOK
  <2>5. todo' \in [Conn -> SUBSET Page]
    BY <1>0 DEF Stored, PagerTypeOK
  <2>6. committed' \in [Page -> Version] /\ broken' \in {"none", "misled", "uncovered", "unreverted", "unlocked", "stray"}
    BY <1>0 DEF Stored, PagerTypeOK
  <2>. QED  BY <1>0, <2>1, <2>2, <2>3, <2>4, <2>5, <2>6 DEF PagerTypeOK
<1>2. CountedOK'
  BY <1>0 DEF Stored, CountedOK
<1>3. LabelOK(c)'
  BY <1>0 DEF Stored, Reached, Go, Begins, Rest, State, LabelOK, StepTypeOK
<1>4. LockBacked(c)'
  <2>1. /\ at[c] = "store" /\ UNCHANGED <<lockVars, held>> /\ held[c]
        /\ pstate[c] >= PAGER_EXCLUSIVE /\ locktype[c] = EXCLUSIVE_LOCK /\ pc[c] = "idle"
        /\ \/ at'[c] = "rest" /\ pstate' = pstate
           \/ at'[c] = "close" /\ pstate'[c] = PAGER_SYNCED
    BY <1>0 DEF Stored, Reached, Idle, Go, Begins, Rest, State, StepTypeOK, LabelOK, StateBacked
  <2>. QED  BY <2>1 DEF LockBacked, Level
<1>5. PagesOK(c)'
  <2>1. /\ at[c] = "store" /\ UNCHANGED <<journal, opener, held, errored, cache, dirty, inJournal>>
        /\ \/ at'[c] = "rest" /\ doing'[c] = "none" /\ pstate' = pstate
           \/ at'[c] = "close" /\ doing' = doing /\ pstate'[c] = PAGER_SYNCED
    BY <1>0 DEF Stored, Reached, Go, Begins, Rest, State, StepTypeOK
  <2>. QED  BY <2>1, <1>0 DEF PagesOK, LabelOK, JournalOpen
<1>6. Others(c)
  BY <1>0 DEF Stored, Go, Begins, Rest, State, JournalOpen, StepTypeOK, Others, Apart, Untouched
<1>. QED  BY <1>1, <1>2, <1>3, <1>4, <1>5, <1>6, OneMovesControl

\* All pages are played back.
LEMMA PlayedBackControl ==
  ASSUME ControlInv, NEW c \in Conn, PlayedBack(c), StoreInv'
  PROVE  ControlInv' /\ Others(c)
<1> USE PagerAssumption
<1>0. /\ LockTypeOK /\ StepTypeOK /\ PagerTypeOK /\ StepTypeOK'
      /\ HandleOK(c) /\ StateBacked(c) /\ JournalBacked(c)
      /\ LabelOK(c) /\ LockBacked(c) /\ PagesOK(c)
      /\ CountedOK
  BY DEF ControlInv, StoreInv, LockInv
<1>1. PagerTypeOK'
  <2>1. db' \in [Page -> Version]
    BY <1>0 DEF PlayedBack, PagerTypeOK
  <2>2. journal' \in [exists : BOOLEAN, orig : [Page -> Version \cup {NoPage}], counted : SUBSET Page]
    BY <1>0 DEF PlayedBack, PagerTypeOK
  <2>3. held' \in [Conn -> BOOLEAN] /\ errored' \in [Conn -> BOOLEAN]
    BY <1>0 DEF PlayedBack, PagerTypeOK
  <2>4. cache' \in [Conn -> [Page -> Version \cup {NoPage}]]
    BY <1>0 DEF PlayedBack, PagerTypeOK
  <2>5. todo' \in [Conn -> SUBSET Page]
    BY <1>0 DEF PlayedBack, PagerTypeOK
  <2>6. committed' \in [Page -> Version] /\ broken' \in {"none", "misled", "uncovered", "unreverted", "unlocked", "stray"}
    BY <1>0 DEF PlayedBack, PagerTypeOK
  <2>. QED  BY <1>0, <2>1, <2>2, <2>3, <2>4, <2>5, <2>6 DEF PagerTypeOK
<1>2. CountedOK'
  BY <1>0 DEF PlayedBack, CountedOK
<1>a. /\ at[c] = "playback" /\ at' = [at EXCEPT ![c] = "close"]
      /\ pstate[c] >= PAGER_EXCLUSIVE /\ locktype[c] = EXCLUSIVE_LOCK
      /\ UNCHANGED <<lockVars, fileVars, cacheVars, history, pstate, errored, doing, todo>>
  BY <1>0 DEF PlayedBack, Reached, Go, LabelOK, StateBacked
<1>3. LabelOK(c)'
  BY <1>0, <1>a DEF LabelOK, JournalOpen, StepTypeOK
<1>4. LockBacked(c)'
  BY <1>0, <1>a DEF LockBacked, Level, StepTypeOK
<1>5. PagesOK(c)'
  BY <1>0, <1>a DEF JournalOpen, PagesOK, StepTypeOK
<1>6. Others(c)
  BY <1>0, <1>a DEF JournalOpen, Others, Apart, Untouched, StepTypeOK
<1>. QED  BY <1>1, <1>2, <1>3, <1>4, <1>5, <1>6, OneMovesControl

\* The journal is closed.
LEMMA CloseJournalControl ==
  ASSUME ControlInv, NEW c \in Conn, CloseJournal(c), StoreInv'
  PROVE  ControlInv' /\ Others(c)
<1> USE PagerAssumption
<1>0. /\ LockTypeOK /\ StepTypeOK /\ PagerTypeOK /\ StepTypeOK'
      /\ HandleOK(c) /\ StateBacked(c) /\ JournalBacked(c)
      /\ LabelOK(c) /\ LockBacked(c) /\ PagesOK(c)
      /\ CountedOK
  BY DEF ControlInv, StoreInv, LockInv
<1>1. PagerTypeOK'
  <2>1. db' \in [Page -> Version]
    BY <1>0 DEF CloseJournal, PagerTypeOK
  <2>2. journal' \in [exists : BOOLEAN, orig : [Page -> Version \cup {NoPage}], counted : SUBSET Page]
    BY <1>0 DEF CloseJournal, PagerTypeOK
  <2>3. held' \in [Conn -> BOOLEAN] /\ errored' \in [Conn -> BOOLEAN]
    BY <1>0 DEF CloseJournal, PagerTypeOK
  <2>4. cache' \in [Conn -> [Page -> Version \cup {NoPage}]]
    BY <1>0 DEF CloseJournal, PagerTypeOK
  <2>5. todo' \in [Conn -> SUBSET Page]
    BY <1>0 DEF CloseJournal, PagerTypeOK
  <2>6. committed' \in [Page -> Version] /\ broken' \in {"none", "misled", "uncovered", "unreverted", "unlocked", "stray"}
    BY <1>0 DEF CloseJournal, PagerTypeOK
  <2>. QED  BY <1>0, <2>1, <2>2, <2>3, <2>4, <2>5, <2>6 DEF PagerTypeOK
<1>2. CountedOK'
  BY <1>0 DEF CloseJournal, CountedOK
<1>3. LabelOK(c)'
  BY <1>0 DEF CloseJournal, Reached, Go, JournalOpen, LabelOK, StepTypeOK
<1>4. LockBacked(c)'
  BY <1>0 DEF CloseJournal, Unlock, Goto, Reached, Go, StateBacked, LabelOK, LockTypeOK,
      StepTypeOK, LockBacked, Level
<1>5. PagesOK(c)'
  BY <1>0 DEF CloseJournal, Reached, Go, JournalBacked, StepTypeOK, PagesOK
<1>6. Others(c)
  BY <1>0 DEF CloseJournal, Unlock, Goto, Result, Go, JournalOpen, LockTypeOK, StepTypeOK, Others,
      Apart, Untouched
<1>. QED  BY <1>1, <1>2, <1>3, <1>4, <1>5, <1>6, OneMovesControl

\* The journal is deleted.
LEMMA DeleteJournalControl ==
  ASSUME ControlInv, NEW c \in Conn, DeleteJournal(c), StoreInv'
  PROVE  ControlInv' /\ Others(c)
<1> USE PagerAssumption
<1>0. /\ LockTypeOK /\ StepTypeOK /\ PagerTypeOK /\ StepTypeOK'
      /\ HandleOK(c) /\ StateBacked(c) /\ JournalBacked(c)
      /\ LabelOK(c) /\ LockBacked(c) /\ PagesOK(c)
      /\ CountedOK
  BY DEF ControlInv, StoreInv, LockInv
<1>1. PagerTypeOK'
  <2>1. db' \in [Page -> Version]
    BY <1>0 DEF DeleteJournal, PagerTypeOK
  <2>2. journal' \in [exists : BOOLEAN, orig : [Page -> Version \cup {NoPage}], counted : SUBSET Page]
    BY <1>0 DEF DeleteJournal, NoJournal, PagerTypeOK
  <2>3. held' \in [Conn -> BOOLEAN] /\ errored' \in [Conn -> BOOLEAN]
    BY <1>0 DEF DeleteJournal, PagerTypeOK
  <2>4. cache' \in [Conn -> [Page -> Version \cup {NoPage}]]
    BY <1>0 DEF DeleteJournal, PagerTypeOK
  <2>5. todo' \in [Conn -> SUBSET Page]
    BY <1>0 DEF DeleteJournal, PagerTypeOK
  <2>6. committed' \in [Page -> Version] /\ broken' \in {"none", "misled", "uncovered", "unreverted", "unlocked", "stray"}
    BY <1>0 DEF DeleteJournal, PagerTypeOK
  <2>. QED  BY <1>0, <2>1, <2>2, <2>3, <2>4, <2>5, <2>6 DEF PagerTypeOK
<1>2. CountedOK'
  BY <1>0 DEF DeleteJournal, NoJournal, CountedOK
<1>3. LabelOK(c)'
  <2>1. /\ at[c] = "delete" /\ UNCHANGED <<doing, held, errored, pstate, opener>>
        /\ at'[c] = "unlock"
    BY <1>0 DEF DeleteJournal, Reached, Go, StepTypeOK
  <2>. QED  BY <2>1, <1>0 DEF LabelOK, JournalOpen
<1>4. LockBacked(c)'
  BY <1>0 DEF DeleteJournal, Unlock, Goto, Reached, Go, StateBacked, LabelOK, LockTypeOK,
      LockBacked, Level, StepTypeOK
<1>5. PagesOK(c)'
  BY <1>0 DEF DeleteJournal, Go, StepTypeOK, PagesOK
<1>6. Others(c)
  BY DEF DeleteJournal, Unlock, Goto, Result, Go, JournalOpen, Others, Apart, Untouched
<1>. QED  BY <1>1, <1>2, <1>3, <1>4, <1>5, <1>6, OneMovesControl

\* The lock is down.
LEMMA UnlockedControl ==
  ASSUME ControlInv, NEW c \in Conn, Unlocked(c), StoreInv'
  PROVE  ControlInv' /\ Others(c)
<1> USE PagerAssumption
<1>0. /\ LockTypeOK /\ StepTypeOK /\ PagerTypeOK /\ StepTypeOK'
      /\ HandleOK(c) /\ StateBacked(c) /\ JournalBacked(c)
      /\ LabelOK(c) /\ LockBacked(c) /\ PagesOK(c)
      /\ CountedOK
  BY DEF ControlInv, StoreInv, LockInv
<1>1. PagerTypeOK'
  <2>1. db' \in [Page -> Version]
    BY <1>0 DEF Unlocked, PagerTypeOK
  <2>2. journal' \in [exists : BOOLEAN, orig : [Page -> Version \cup {NoPage}], counted : SUBSET Page]
    BY <1>0 DEF Unlocked, PagerTypeOK
  <2>3. held' \in [Conn -> BOOLEAN] /\ errored' \in [Conn -> BOOLEAN]
    BY <1>0 DEF Unlocked, PagerTypeOK
  <2>4. cache' \in [Conn -> [Page -> Version \cup {NoPage}]]
    BY <1>0 DEF Unlocked, PagerTypeOK
  <2>5. todo' \in [Conn -> SUBSET Page]
    BY <1>0 DEF Unlocked, PagerTypeOK
  <2>6. committed' \in [Page -> Version] /\ broken' \in {"none", "misled", "uncovered", "unreverted", "unlocked", "stray"}
    BY <1>0 DEF Unlocked, PagerTypeOK
  <2>. QED  BY <1>0, <2>1, <2>2, <2>3, <2>4, <2>5, <2>6 DEF PagerTypeOK
<1>2. CountedOK'
  BY <1>0 DEF Unlocked, CountedOK
<1>3. LabelOK(c)'
  BY <1>0 DEF Unlocked, DropLock, Reached, Go, Begins, Rest, State, JournalOpen, LabelOK,
      StepTypeOK, PagerTypeOK
<1>4. LockBacked(c)'
  <2>1. at[c] = "unlock" /\ Idle(c) /\ pc[c] = "idle" /\ locktype[c] = SHARED_LOCK
        /\ held' = held
    BY <1>0 DEF Unlocked, Reached, Idle, LockBacked
  <2>2. CASE doing[c] = "get" /\ rc[c] # "ioerr"
    <3>1. /\ at'[c] = "fetch" /\ pstate'[c] = PAGER_SHARED /\ UNCHANGED lockVars /\ Reading(c)
      BY <1>0, <2>1, <2>2 DEF Unlocked, State, Go, StepTypeOK, LockBacked
    <3>. QED  BY <2>1, <3>1 DEF LockBacked, Level, Reading
  <2>3. CASE doing[c] \in {"reset", "leave", "shut"}
    <3>1. DropLock(c) /\ at'[c] = "drop"
      BY <1>0, <2>1, <2>3 DEF Unlocked, Go, StepTypeOK
    <3>. QED  BY <1>0, <2>1, <3>1, DropLockFacts DEF LockBacked
  <2>4. CASE doing[c] \notin {"reset", "leave", "shut"} /\ ~(doing[c] = "get" /\ rc[c] # "ioerr")
    <3>1. at'[c] = "rest" /\ pstate'[c] = PAGER_SHARED /\ UNCHANGED lockVars
      BY <1>0, <2>1, <2>4 DEF Unlocked, State, Rest, Begins, Go, StepTypeOK
    <3>2. held[c] \/ errored'[c]
      BY <1>0, <2>1, <2>4 DEF Unlocked, LabelOK, PagerTypeOK
    <3>. QED  BY <2>1, <3>1, <3>2 DEF LockBacked, Level
  <2>. QED  BY <2>2, <2>3, <2>4
<1>5. PagesOK(c)'
  BY <1>0 DEF Unlocked, Reached, Go, Begins, Rest, StepTypeOK, PagesOK
<1>6. Others(c)
  BY <1>0 DEF Unlocked, DropLock, Unlock, Goto, Result, Go, Begins, Rest, State, JournalOpen,
      LockTypeOK, StepTypeOK, Others, Apart, Untouched
<1>. QED  BY <1>1, <1>2, <1>3, <1>4, <1>5, <1>6, OneMovesControl

\* A rollback begins.
LEMMA RollbackControl ==
  ASSUME ControlInv, NEW c \in Conn, Rollback(c), StoreInv', broken' # "stray"
  PROVE  ControlInv' /\ Others(c)
<1> USE PagerAssumption
<1>0. /\ LockTypeOK /\ StepTypeOK /\ PagerTypeOK /\ StepTypeOK'
      /\ HandleOK(c) /\ StateBacked(c) /\ JournalBacked(c)
      /\ LabelOK(c) /\ LockBacked(c) /\ PagesOK(c)
      /\ CountedOK
  BY DEF ControlInv, StoreInv, LockInv
<1>1. PagerTypeOK'
  <2>1. db' \in [Page -> Version]
    BY <1>0 DEF Rollback, PagerTypeOK
  <2>2. journal' \in [exists : BOOLEAN, orig : [Page -> Version \cup {NoPage}], counted : SUBSET Page]
    BY <1>0 DEF Rollback, PagerTypeOK
  <2>3. held' \in [Conn -> BOOLEAN] /\ errored' \in [Conn -> BOOLEAN]
    BY <1>0 DEF Rollback, PagerTypeOK
  <2>4. cache' \in [Conn -> [Page -> Version \cup {NoPage}]]
    <3>1. [q \in Page |-> IF q \in dirty[c] THEN db[q] ELSE cache[c][q]] \in [Page -> Version \cup {NoPage}]
      BY <1>0 DEF PagerTypeOK
    <3>2. \/ cache' = cache
          \/ cache' = [cache EXCEPT ![c] =
                         [q \in Page |-> IF q \in dirty[c] THEN db[q] ELSE cache[c][q]]]
      BY <1>0 DEF Rollback, PagerTypeOK
    <3>. QED  BY <1>0, <3>1, <3>2 DEF PagerTypeOK
  <2>5. todo' \in [Conn -> SUBSET Page]
    BY <1>0 DEF Rollback, Strays, Undo, PagerTypeOK
  <2>6. committed' \in [Page -> Version] /\ broken' \in {"none", "misled", "uncovered", "unreverted", "unlocked", "stray"}
    BY <1>0 DEF Rollback, PagerTypeOK
  <2>. QED  BY <1>0, <2>1, <2>2, <2>3, <2>4, <2>5, <2>6 DEF PagerTypeOK
<1>2. CountedOK'
  BY <1>0 DEF Rollback, CountedOK
<1>3. LabelOK(c)'
  BY <1>0 DEF Rollback, Strays, Undo, Unchanged, Go, Begins, LabelOK, StepTypeOK
<1>4. LockBacked(c)'
  BY <1>0 DEF Rollback, Strays, Undo, Resting, Go, Begins, LabelOK, StepTypeOK, LockBacked,
      Level, StateBacked, LockTypeOK
<1>5. PagesOK(c)'
  BY <1>0 DEF Rollback, Strays, Undo, DirtyCache, Resting, Go, Begins, JournalBacked, StepTypeOK,
      PagerTypeOK, PagesOK
<1>6. Others(c)
  BY <1>0 DEF Rollback, Strays, Undo, Go, Begins, JournalOpen, StepTypeOK, PagerTypeOK, Others, Apart,
      Untouched
<1>. QED  BY <1>1, <1>2, <1>3, <1>4, <1>5, <1>6, OneMovesControl

\* The client lets go of its last page.
LEMMA ResetControl ==
  ASSUME ControlInv, NEW c \in Conn, Reset(c), StoreInv', broken' # "stray"
  PROVE  ControlInv' /\ Others(c)
<1> USE PagerAssumption
<1>0. /\ LockTypeOK /\ StepTypeOK /\ PagerTypeOK /\ StepTypeOK'
      /\ HandleOK(c) /\ StateBacked(c) /\ JournalBacked(c)
      /\ LabelOK(c) /\ LockBacked(c) /\ PagesOK(c)
      /\ CountedOK
  BY DEF ControlInv, StoreInv, LockInv
<1>1. PagerTypeOK'
  <2>1. db' \in [Page -> Version]
    BY <1>0 DEF Reset, PagerTypeOK
  <2>2. journal' \in [exists : BOOLEAN, orig : [Page -> Version \cup {NoPage}], counted : SUBSET Page]
    BY <1>0 DEF Reset, PagerTypeOK
  <2>3. held' \in [Conn -> BOOLEAN] /\ errored' \in [Conn -> BOOLEAN]
    BY <1>0 DEF Reset, Strays, LetGo, LockTypeOK, PagerTypeOK
  <2>4. cache' \in [Conn -> [Page -> Version \cup {NoPage}]]
    BY <1>0, EmptyFacts DEF Reset, Strays, LetGo, PagerTypeOK
  <2>5. todo' \in [Conn -> SUBSET Page]
    BY <1>0 DEF Reset, Strays, LetGo, Undo, PagerTypeOK
  <2>6. committed' \in [Page -> Version] /\ broken' \in {"none", "misled", "uncovered", "unreverted", "unlocked", "stray"}
    BY <1>0 DEF Reset, PagerTypeOK
  <2>. QED  BY <1>0, <2>1, <2>2, <2>3, <2>4, <2>5, <2>6 DEF PagerTypeOK
<1>2. CountedOK'
  BY <1>0 DEF Reset, CountedOK
<1>3. LabelOK(c)' /\ LockBacked(c)'
  <2>1. CASE errored[c] /\ UNCHANGED <<lockVars, pstate, at, doing, errored, opener>> /\ ~held'[c]
    <3>1. LabelOK(c)'
      BY <1>0, <2>1 DEF Reset, Resting, LabelOK, JournalOpen, StepTypeOK
    <3>2. LockBacked(c)'
      BY <1>0, <2>1 DEF Reset, Resting, Idle, LockBacked, Level
    <3>. QED  BY <3>1, <3>2
  <2>2. CASE LetGo(c, "reset") /\ ~errored[c] /\ UNCHANGED <<errored, opener>> /\ ~Strays(c)
    <3>1. at[c] = "rest" /\ pc[c] = "idle" /\ Idle(c) /\ Level(c) /\ ~held'[c]
      BY <1>0, <2>2 DEF Reset, Resting, Idle, LockBacked, LetGo, PagerTypeOK
    <3>2. CASE DropLock(c) /\ at'[c] = "drop" /\ doing'[c] = "reset" /\ pstate[c] < PAGER_RESERVED
      <4>1. ~JournalOpen(c)
        BY <1>0, <2>2, <3>2 DEF Strays, LabelOK, StepTypeOK
      <4>. QED  BY <1>0, <2>2, <3>1, <3>2, <4>1, DropLockFacts DEF LabelOK, LockBacked, JournalOpen
    <3>3. CASE /\ UNCHANGED <<lockVars, pstate>> /\ pstate[c] >= PAGER_RESERVED
               /\ \/ at'[c] = "close" /\ doing'[c] \in {"reset", "leave", "shut"}
                  \/ at'[c] = "playback" /\ doing'[c] \in {"reset", "shut"} /\ JournalOpen(c)
      <4>1. LabelOK(c)'
        BY <1>0, <2>2, <3>1, <3>3 DEF LabelOK, JournalOpen
      <4>2. LockBacked(c)'
        BY <3>1, <3>3 DEF LockBacked, Level
      <4>. QED  BY <4>1, <4>2
    <3>. QED  BY <1>0, <2>2, <3>2, <3>3, LetGoFacts
  <2>3. ~errored[c] => ~Strays(c)
    BY DEF Reset
  <2>. QED  BY <1>0, <2>1, <2>2, <2>3 DEF Reset, PagerTypeOK
<1>5. PagesOK(c)'
  <2>0. /\ at[c] = "rest" /\ Idle(c) /\ UNCHANGED <<journal, inJournal, opener, errored>>
        /\ ~held'[c]
    BY <1>0 DEF Reset, Resting, LetGo, PagerTypeOK
  <2>1. CASE errored[c] /\ UNCHANGED <<pstate, at, doing, cache, dirty, todo>>
    BY <1>0, <2>0, <2>1 DEF PagesOK, JournalOpen
  <2>2. CASE LetGo(c, "reset") /\ ~errored[c] /\ ~Strays(c)
    <3>1. dirty'[c] = {}
      BY <1>0, <2>2 DEF LetGo, StepTypeOK
    <3>2. at'[c] = "playback" => todo'[c] = journal.counted
      BY <1>0, <2>2 DEF LetGo, Undo, Begins, Go, StepTypeOK, PagerTypeOK
    <3>3. at'[c] \in {"close", "playback", "drop"} /\ doing'[c] \in {"reset", "leave", "shut"}
      BY <1>0, <2>2, LetGoFacts
    <3>4. doing'[c] = "leave" => inJournal[c] = {}
      BY <1>0, <2>0, <2>2 DEF LetGo, Undo, Unchanged, Begins, Go, DirtyCache, JournalBacked, StepTypeOK
    <3>5. inJournal[c] # {} => pstate'[c] # PAGER_SHARED
      BY <1>0, <2>0, <2>2, LetGoFacts, DropLockFacts DEF PagesOK
    <3>6. at'[c] = "drop" => inJournal[c] = {}
      <4>1. at'[c] = "drop" => pstate[c] < PAGER_RESERVED
        BY <1>0, <2>2, LetGoFacts
      <4>2. pstate[c] = PAGER_UNLOCK => ~JournalOpen(c)
        BY <2>2 DEF Strays
      <4>. QED  BY <1>0, <2>0, <4>1, <4>2 DEF PagesOK, JournalBacked, StepTypeOK
    <3>. QED  BY <1>0, <2>0, <2>2, <3>1, <3>2, <3>3, <3>4, <3>5, <3>6 DEF PagesOK, JournalOpen
  <2>3. ~errored[c] => ~Strays(c)
    BY DEF Reset
  <2>. QED  BY <1>0, <2>1, <2>2, <2>3 DEF Reset
<1>6. Others(c)
  BY <1>0 DEF Reset, Strays, LetGo, Undo, DropLock, Unlock, Goto, Result, Go, Begins, State, JournalOpen,
      LockTypeOK, StepTypeOK, PagerTypeOK, Others, Apart, Untouched
<1>. QED  BY <1>1, <1>2, <1>3, <1>5, <1>6, OneMovesControl

\* The client closes the pager.
LEMMA ShutControl ==
  ASSUME ControlInv, NEW c \in Conn, Shut(c), StoreInv'
  PROVE  ControlInv' /\ Others(c)
<1> USE PagerAssumption
<1>0. /\ LockTypeOK /\ StepTypeOK /\ PagerTypeOK /\ StepTypeOK'
      /\ HandleOK(c) /\ StateBacked(c) /\ JournalBacked(c)
      /\ LabelOK(c) /\ LockBacked(c) /\ PagesOK(c)
      /\ CountedOK
  BY DEF ControlInv, StoreInv, LockInv
<1>1. PagerTypeOK'
  <2>1. db' \in [Page -> Version]
    BY <1>0 DEF Shut, PagerTypeOK
  <2>2. journal' \in [exists : BOOLEAN, orig : [Page -> Version \cup {NoPage}], counted : SUBSET Page]
    BY <1>0 DEF Shut, PagerTypeOK
  <2>3. held' \in [Conn -> BOOLEAN] /\ errored' \in [Conn -> BOOLEAN]
    BY <1>0 DEF Shut, LetGo, PagerTypeOK
  <2>4. cache' \in [Conn -> [Page -> Version \cup {NoPage}]]
    BY <1>0 DEF Shut, LetGo, EmptyCache, PagerTypeOK
  <2>5. todo' \in [Conn -> SUBSET Page]
    BY <1>0 DEF Shut, LetGo, Undo, LockTypeOK, PagerTypeOK
  <2>6. committed' \in [Page -> Version] /\ broken' \in {"none", "misled", "uncovered", "unreverted", "unlocked", "stray"}
    BY <1>0 DEF Shut, PagerTypeOK
  <2>. QED  BY <1>0, <2>1, <2>2, <2>3, <2>4, <2>5, <2>6 DEF PagerTypeOK
<1>2. CountedOK'
  BY <1>0 DEF Shut, CountedOK
<1>a. /\ LetGo(c, "shut") /\ UNCHANGED <<errored, opener>>
      /\ at[c] = "rest" /\ pc[c] = "idle" /\ Idle(c) /\ Level(c) /\ ~held'[c]
  BY <1>0 DEF Shut, Resting, Idle, LockBacked, LetGo, PagerTypeOK
<1>3. LabelOK(c)' /\ LockBacked(c)'
  <2>1. CASE DropLock(c) /\ at'[c] = "drop" /\ doing'[c] = "shut" /\ pstate[c] < PAGER_RESERVED
    BY <1>0, <1>a, <2>1, DropLockFacts DEF LabelOK, LockBacked, JournalOpen
  <2>2. CASE /\ pstate[c] = PAGER_UNLOCK /\ UNCHANGED <<lockVars, pstate>>
             /\ at'[c] = "drop" /\ doing'[c] = "shut"
    BY <1>0, <1>a, <2>2 DEF LabelOK, LockBacked, JournalOpen
  <2>3. CASE /\ UNCHANGED <<lockVars, pstate>> /\ pstate[c] >= PAGER_RESERVED
             /\ \/ at'[c] = "close" /\ doing'[c] \in {"reset", "leave", "shut"}
                \/ at'[c] = "playback" /\ doing'[c] \in {"reset", "shut"} /\ JournalOpen(c)
    <3>1. LabelOK(c)'
      BY <1>0, <1>a, <2>3 DEF LabelOK, JournalOpen
    <3>2. LockBacked(c)'
      BY <1>a, <2>3 DEF LockBacked, Level
    <3>. QED  BY <3>1, <3>2
  <2>. QED  BY <1>0, <1>a, <2>1, <2>2, <2>3, LetGoFacts
<1>5. PagesOK(c)'
  <2>0. /\ at[c] = "rest" /\ Idle(c) /\ UNCHANGED <<journal, inJournal, opener, errored>>
        /\ ~held'[c] /\ LetGo(c, "shut")
    BY <1>0 DEF Shut, Resting, LetGo, PagerTypeOK
  <2>1. errored[c] => inJournal[c] = {}
    BY <1>0 DEF PagesOK
  <2>2. dirty'[c] = {}
    BY <1>0, <2>0 DEF LetGo, StepTypeOK
  <2>3. at'[c] = "playback" => todo'[c] = journal.counted
    BY <1>0, <2>0 DEF LetGo, Undo, Begins, Go, StepTypeOK, PagerTypeOK
  <2>4. at'[c] \in {"close", "playback", "drop"} /\ doing'[c] \in {"reset", "leave", "shut"}
    BY <1>0, <2>0, LetGoFacts
  <2>5. doing'[c] = "leave" => inJournal[c] = {}
    BY <1>0, <2>0 DEF LetGo, Undo, Unchanged, Begins, Go, DirtyCache, JournalBacked, StepTypeOK
  <2>6. inJournal[c] # {} => pstate'[c] # PAGER_SHARED
    BY <1>0, <2>0, LetGoFacts, DropLockFacts DEF PagesOK
  <2>7. at'[c] = "drop" => doing'[c] = "shut"
    BY <1>0, <2>0, LetGoFacts
  <2>. QED  BY <1>0, <2>0, <2>1, <2>2, <2>3, <2>4, <2>5, <2>6, <2>7 DEF PagesOK, JournalOpen
<1>6. Others(c)
  BY <1>0 DEF Shut, LetGo, Undo, DropLock, Unlock, Goto, Result, Go, Begins, State, JournalOpen,
      LockTypeOK, StepTypeOK, PagerTypeOK, Others, Apart, Untouched
<1>. QED  BY <1>1, <1>2, <1>3, <1>5, <1>6, OneMovesControl

\* The lock is dropped.
LEMMA DroppedControl ==
  ASSUME ControlInv, NEW c \in Conn, Dropped(c), StoreInv'
  PROVE  ControlInv' /\ Others(c)
<1> USE PagerAssumption
<1>0. /\ LockTypeOK /\ StepTypeOK /\ PagerTypeOK /\ StepTypeOK'
      /\ HandleOK(c) /\ StateBacked(c) /\ JournalBacked(c)
      /\ LabelOK(c) /\ LockBacked(c) /\ PagesOK(c)
      /\ CountedOK
  BY DEF ControlInv, StoreInv, LockInv
<1>1. PagerTypeOK'
  <2>1. db' \in [Page -> Version]
    BY <1>0 DEF Dropped, PagerTypeOK
  <2>2. journal' \in [exists : BOOLEAN, orig : [Page -> Version \cup {NoPage}], counted : SUBSET Page]
    BY <1>0 DEF Dropped, PagerTypeOK
  <2>3. held' \in [Conn -> BOOLEAN] /\ errored' \in [Conn -> BOOLEAN]
    BY <1>0 DEF Dropped, Forget, PagerTypeOK
  <2>4. cache' \in [Conn -> [Page -> Version \cup {NoPage}]]
    BY <1>0, EmptyFacts DEF Dropped, Forget, PagerTypeOK
  <2>5. todo' \in [Conn -> SUBSET Page]
    BY <1>0 DEF Dropped, Forget, PagerTypeOK
  <2>6. committed' \in [Page -> Version] /\ broken' \in {"none", "misled", "uncovered", "unreverted", "unlocked", "stray"}
    BY <1>0 DEF Dropped, PagerTypeOK
  <2>. QED  BY <1>0, <2>1, <2>2, <2>3, <2>4, <2>5, <2>6 DEF PagerTypeOK
<1>2. CountedOK'
  BY <1>0 DEF Dropped, Forget, CountedOK
<1>3. LabelOK(c)'
  BY <1>0 DEF Dropped, Reached, Forget, Go, Begins, Rest, JournalOpen, LabelOK, StepTypeOK,
      PagerTypeOK
<1>4. LockBacked(c)'
  <2>1. at[c] = "drop" /\ pc[c] = "idle" /\ pstate[c] = PAGER_UNLOCK
    BY <1>0 DEF Dropped, Reached, Idle, LabelOK
  <2>2. CASE doing[c] = "shut" /\ Close(c) /\ Forget(c)
    <3>1. at'[c] = "rest" /\ pstate'[c] = PAGER_UNLOCK /\ locktype'[c] = NO_LOCK /\ pc'[c] = "idle"
      BY <1>0, <2>1, <2>2 DEF Close, Forget, Rest, Begins, Go, StepTypeOK, LockTypeOK
    <3>. QED  BY <3>1 DEF LockBacked, Level
  <2>3. CASE doing[c] # "shut" /\ Rest(c) /\ UNCHANGED <<lockVars, pstate>>
    <3>1. at'[c] = "rest" /\ locktype[c] = NO_LOCK
      BY <1>0, <2>1, <2>3 DEF Rest, Begins, Go, StepTypeOK, LockBacked
    <3>. QED  BY <2>1, <2>3, <3>1 DEF LockBacked, Level
  <2>. QED  BY <2>2, <2>3 DEF Dropped
<1>5. PagesOK(c)'
  BY <1>0 DEF Dropped, Forget, Reached, Go, Begins, Rest, StepTypeOK, PagesOK
<1>6. Others(c)
  <2>1. CASE Close(c) /\ Forget(c)
    BY <2>1 DEF Dropped, Forget, Rest, Begins, Go, Close, DestroyLock, Others, Apart, Untouched,
        JournalOpen
  <2>2. CASE Rest(c) /\ UNCHANGED <<lockVars, cacheVars, opener, pstate, errored, todo>>
    BY <2>2 DEF Dropped, Rest, Begins, Go, Others, Apart, Untouched, JournalOpen
  <2>. QED  BY <2>1, <2>2 DEF Dropped
<1>. QED  BY <1>1, <1>2, <1>3, <1>4, <1>5, <1>6, OneMovesControl

\* A page is read.
LEMMA FetchControl ==
  ASSUME ControlInv, NEW c \in Conn, NEW p \in Page, Fetch(c, p), StoreInv'
  PROVE  ControlInv' /\ Others(c)
<1> USE PagerAssumption
<1>0. /\ LockTypeOK /\ StepTypeOK /\ PagerTypeOK /\ StepTypeOK'
      /\ HandleOK(c) /\ StateBacked(c) /\ JournalBacked(c)
      /\ LabelOK(c) /\ LockBacked(c) /\ PagesOK(c)
      /\ CountedOK
  BY DEF ControlInv, StoreInv, LockInv
<1>1. PagerTypeOK'
  <2>1. db' \in [Page -> Version]
    BY <1>0 DEF Fetch, PagerTypeOK
  <2>2. journal' \in [exists : BOOLEAN, orig : [Page -> Version \cup {NoPage}], counted : SUBSET Page]
    BY <1>0 DEF Fetch, PagerTypeOK
  <2>3. held' \in [Conn -> BOOLEAN] /\ errored' \in [Conn -> BOOLEAN]
    BY <1>0 DEF Fetch, PagerTypeOK
  <2>4. cache' \in [Conn -> [Page -> Version \cup {NoPage}]]
    BY <1>0 DEF Fetch, PagerTypeOK
  <2>5. todo' \in [Conn -> SUBSET Page]
    BY <1>0 DEF Fetch, PagerTypeOK
  <2>6. committed' \in [Page -> Version] /\ broken' \in {"none", "misled", "uncovered", "unreverted", "unlocked", "stray"}
    BY <1>0 DEF Fetch, PagerTypeOK
  <2>. QED  BY <1>0, <2>1, <2>2, <2>3, <2>4, <2>5, <2>6 DEF PagerTypeOK
<1>2. CountedOK'
  BY <1>0 DEF Fetch, CountedOK
<1>3. LabelOK(c)'
  BY <1>0 DEF Fetch, Go, Begins, Rest, JournalOpen, LabelOK, StepTypeOK, PagerTypeOK
<1>4. LockBacked(c)'
  <2>1. /\ held'[c] /\ at'[c] = "rest" /\ at[c] \in {"rest", "fetch"}
        /\ UNCHANGED <<lockVars, pstate>>
    BY <1>0 DEF Fetch, Reached, Resting, Rest, Begins, Go, StepTypeOK, PagerTypeOK
  <2>. QED  BY <1>0, <2>1 DEF LockBacked, Level, StateBacked
<1>5. PagesOK(c)'
  BY <1>0 DEF Fetch, Go, Begins, Rest, JournalOpen, StepTypeOK, PagerTypeOK, PagesOK
<1>6. Others(c)
  BY <1>0 DEF Fetch, Go, Begins, Rest, JournalOpen, StepTypeOK, Others, Apart, Untouched
<1>. QED  BY <1>1, <1>2, <1>3, <1>4, <1>5, <1>6, OneMovesControl

\* A page is changed.
LEMMA WriteControl ==
  ASSUME ControlInv, NEW c \in Conn, NEW p \in Page, Write(c, p), StoreInv'
  PROVE  ControlInv' /\ Others(c)
<1> USE PagerAssumption
<1>0. /\ LockTypeOK /\ StepTypeOK /\ PagerTypeOK /\ StepTypeOK'
      /\ HandleOK(c) /\ StateBacked(c) /\ JournalBacked(c)
      /\ LabelOK(c) /\ LockBacked(c) /\ PagesOK(c)
      /\ CountedOK
  BY DEF ControlInv, StoreInv, LockInv
<1>1. PagerTypeOK'
  <2>1. db' \in [Page -> Version]
    BY <1>0 DEF Write, PagerTypeOK
  <2>2. journal' \in [exists : BOOLEAN, orig : [Page -> Version \cup {NoPage}], counted : SUBSET Page]
    BY <1>0, ChangeFacts DEF Write
  <2>3. held' \in [Conn -> BOOLEAN] /\ errored' \in [Conn -> BOOLEAN]
    BY <1>0 DEF Write, PagerTypeOK
  <2>4. cache' \in [Conn -> [Page -> Version \cup {NoPage}]]
    BY <1>0 DEF Write, Change, PagerTypeOK, Version
  <2>5. todo' \in [Conn -> SUBSET Page]
    BY <1>0 DEF Write, PagerTypeOK
  <2>6. committed' \in [Page -> Version] /\ broken' \in {"none", "misled", "uncovered", "unreverted", "unlocked", "stray"}
    BY <1>0 DEF Write, PagerTypeOK
  <2>. QED  BY <1>0, <2>1, <2>2, <2>3, <2>4, <2>5, <2>6 DEF PagerTypeOK
<1>2. CountedOK'
  BY <1>0 DEF Write, Change, CountedOK
<1>3. LabelOK(c)'
  BY <1>0 DEF Write, LabelOK
<1>4. LockBacked(c)'
  BY <1>0 DEF Write, LabelOK, LockBacked, Level, StateBacked, StepTypeOK, LockTypeOK
<1>5. PagesOK(c)'
  BY <1>0 DEF Write, Change, Resting, LabelOK, StepTypeOK, PagerTypeOK, PagesOK
<1>6. Others(c)
  BY DEF Write, Change, JournalOpen, Others, Apart, Untouched
<1>. QED  BY <1>1, <1>2, <1>3, <1>4, <1>5, <1>6, OneMovesControl

\* A page makes room.
LEMMA RecycleControl ==
  ASSUME ControlInv, NEW c \in Conn, NEW p \in Page, Recycle(c, p), StoreInv'
  PROVE  ControlInv' /\ Others(c)
<1> USE PagerAssumption
<1>0. /\ LockTypeOK /\ StepTypeOK /\ PagerTypeOK /\ StepTypeOK'
      /\ HandleOK(c) /\ StateBacked(c) /\ JournalBacked(c)
      /\ LabelOK(c) /\ LockBacked(c) /\ PagesOK(c)
      /\ CountedOK
  BY DEF ControlInv, StoreInv, LockInv
<1>1. PagerTypeOK'
  <2>1. db' \in [Page -> Version]
    BY <1>0 DEF Recycle, PagerTypeOK
  <2>2. journal' \in [exists : BOOLEAN, orig : [Page -> Version \cup {NoPage}], counted : SUBSET Page]
    BY <1>0 DEF Recycle, PagerTypeOK
  <2>3. held' \in [Conn -> BOOLEAN] /\ errored' \in [Conn -> BOOLEAN]
    BY <1>0 DEF Recycle, PagerTypeOK
  <2>4. cache' \in [Conn -> [Page -> Version \cup {NoPage}]]
    <3>1. [cache[c] EXCEPT ![p] = NoPage] \in [Page -> Version \cup {NoPage}]
      BY <1>0 DEF PagerTypeOK
    <3>. QED  BY <1>0, <3>1 DEF Recycle, PagerTypeOK
  <2>5. todo' \in [Conn -> SUBSET Page]
    BY <1>0 DEF Recycle, PagerTypeOK
  <2>6. committed' \in [Page -> Version] /\ broken' \in {"none", "misled", "uncovered", "unreverted", "unlocked", "stray"}
    BY <1>0 DEF Recycle, PagerTypeOK
  <2>. QED  BY <1>0, <2>1, <2>2, <2>3, <2>4, <2>5, <2>6 DEF PagerTypeOK
<1>2. CountedOK'
  BY <1>0 DEF Recycle, CountedOK
<1>3. LabelOK(c)'
  BY <1>0 DEF Recycle, WaitOnLock, Go, JournalOpen, JournalBacked, LabelOK, StepTypeOK
<1>4. LockBacked(c)'
  <2>1. at[c] = "rest" /\ pc[c] = "idle" /\ UNCHANGED <<pstate, held, errored>> /\ held[c] /\ Level(c)
    BY <1>0 DEF Recycle, Resting, Idle, LockBacked
  <2>2. CASE UNCHANGED <<lockVars, at, doing>>
    BY <2>1, <2>2 DEF LockBacked, Level
  <2>3. CASE WaitOnLock(c, "store")
    BY <1>0, <2>1, <2>3, WaitOnLockFacts DEF LockBacked, Level, StepTypeOK
  <2>4. CASE Go(c, "sync") /\ UNCHANGED lockVars
    <3>1. at'[c] = "sync"
      BY <1>0, <2>4 DEF Go, StepTypeOK
    <3>. QED  BY <2>1, <2>4, <3>1 DEF LockBacked, Level
  <2>. QED  BY <2>2, <2>3, <2>4 DEF Recycle
<1>5. PagesOK(c)'
  BY <1>0 DEF Recycle, WaitOnLock, Go, JournalOpen, StepTypeOK, PagerTypeOK, PagesOK
<1>6. Others(c)
  BY <1>0 DEF Recycle, WaitOnLock, Lock, Goto, Result, Go, JournalOpen, LockTypeOK, StepTypeOK,
      PagerTypeOK, Others, Apart, Untouched
<1>. QED  BY <1>1, <1>2, <1>3, <1>4, <1>5, <1>6, OneMovesControl

\* A page is stored.
LEMMA StorePageControl ==
  ASSUME ControlInv, NEW c \in Conn, NEW p \in Page, StorePage(c, p), StoreInv'
  PROVE  ControlInv' /\ Others(c)
<1> USE PagerAssumption
<1>0. /\ LockTypeOK /\ StepTypeOK /\ PagerTypeOK /\ StepTypeOK'
      /\ HandleOK(c) /\ StateBacked(c) /\ JournalBacked(c)
      /\ LabelOK(c) /\ LockBacked(c) /\ PagesOK(c)
      /\ CountedOK
  BY DEF ControlInv, StoreInv, LockInv
<1>1. PagerTypeOK'
  <2>1. db' \in [Page -> Version]
    BY <1>0 DEF StorePage, Reached, LabelOK, PagerTypeOK, PagesOK
  <2>2. journal' \in [exists : BOOLEAN, orig : [Page -> Version \cup {NoPage}], counted : SUBSET Page]
    BY <1>0 DEF StorePage, PagerTypeOK
  <2>3. held' \in [Conn -> BOOLEAN] /\ errored' \in [Conn -> BOOLEAN]
    BY <1>0 DEF StorePage, PagerTypeOK
  <2>4. cache' \in [Conn -> [Page -> Version \cup {NoPage}]]
    BY <1>0 DEF StorePage, PagerTypeOK
  <2>5. todo' \in [Conn -> SUBSET Page]
    BY <1>0 DEF StorePage, PagerTypeOK
  <2>6. committed' \in [Page -> Version] /\ broken' \in {"none", "misled", "uncovered", "unreverted", "unlocked", "stray"}
    BY <1>0 DEF StorePage, PagerTypeOK
  <2>. QED  BY <1>0, <2>1, <2>2, <2>3, <2>4, <2>5, <2>6 DEF PagerTypeOK
<1>2. CountedOK'
  BY <1>0 DEF StorePage, CountedOK
<1>3. LabelOK(c)'
  BY <1>0 DEF StorePage, JournalOpen, LabelOK
<1>4. LockBacked(c)'
  BY <1>0 DEF StorePage, Reached, LockBacked, Level, StateBacked, LabelOK, StepTypeOK,
      LockTypeOK
<1>5. PagesOK(c)'
  BY <1>0 DEF StorePage, JournalOpen, StepTypeOK, PagerTypeOK, PagesOK
<1>6. Others(c)
  BY DEF StorePage, JournalOpen, Others, Apart, Untouched
<1>. QED  BY <1>1, <1>2, <1>3, <1>4, <1>5, <1>6, OneMovesControl

\* A page is played back.
LEMMA PlaybackPageControl ==
  ASSUME ControlInv, NEW c \in Conn, NEW p \in Page, PlaybackPage(c, p), StoreInv'
  PROVE  ControlInv' /\ Others(c)
<1> USE PagerAssumption
<1>0. /\ LockTypeOK /\ StepTypeOK /\ PagerTypeOK /\ StepTypeOK'
      /\ HandleOK(c) /\ StateBacked(c) /\ JournalBacked(c)
      /\ LabelOK(c) /\ LockBacked(c) /\ PagesOK(c)
      /\ CountedOK
  BY DEF ControlInv, StoreInv, LockInv
<1>1. PagerTypeOK'
  <2>1. db' \in [Page -> Version]
    <3>1. p \in journal.counted /\ (db' = db \/ db' = [db EXCEPT ![p] = journal.orig[p]])
      BY <1>0 DEF PlaybackPage, Reached, PagesOK
    <3>2. journal.orig[p] \in Version
      BY <1>0, <3>1 DEF PagerTypeOK, CountedOK
    <3>. QED  BY <1>0, <3>1, <3>2 DEF PagerTypeOK
  <2>2. journal' \in [exists : BOOLEAN, orig : [Page -> Version \cup {NoPage}], counted : SUBSET Page]
    BY <1>0 DEF PlaybackPage, PagerTypeOK
  <2>3. held' \in [Conn -> BOOLEAN] /\ errored' \in [Conn -> BOOLEAN]
    BY <1>0 DEF PlaybackPage, PagerTypeOK
  <2>4. cache' \in [Conn -> [Page -> Version \cup {NoPage}]]
    BY <1>0 DEF PlaybackPage, PagerTypeOK
  <2>5. todo' \in [Conn -> SUBSET Page]
    BY <1>0 DEF PlaybackPage, PagerTypeOK
  <2>6. committed' \in [Page -> Version] /\ broken' \in {"none", "misled", "uncovered", "unreverted", "unlocked", "stray"}
    BY <1>0 DEF PlaybackPage, PagerTypeOK
  <2>. QED  BY <1>0, <2>1, <2>2, <2>3, <2>4, <2>5, <2>6 DEF PagerTypeOK
<1>2. CountedOK'
  BY <1>0 DEF PlaybackPage, CountedOK
<1>3. LabelOK(c)'
  BY <1>0 DEF PlaybackPage, JournalOpen, LabelOK
<1>4. LockBacked(c)'
  BY <1>0 DEF PlaybackPage, Reached, LockBacked, Level
<1>5. PagesOK(c)'
  <2>1. /\ at[c] = "playback" /\ UNCHANGED <<journal, opener, held, inJournal, pstate, errored, at, doing>>
        /\ dirty'[c] \subseteq dirty[c] /\ todo'[c] = todo[c] \ {p}
    BY <1>0 DEF PlaybackPage, Reached, StepTypeOK, PagerTypeOK
  <2>2. \A q \in dirty[c] : cache'[c][q] # NoPage
    <3>1. p \in journal.counted /\ journal.orig[p] # NoPage
      BY <1>0 DEF PlaybackPage, Reached, PagesOK, CountedOK
    <3>2. \/ cache' = cache
          \/ cache' = [cache EXCEPT ![c] = [cache[c] EXCEPT ![p] = journal.orig[p]]]
      BY DEF PlaybackPage
    <3>3. \A q \in Page : cache'[c][q] \in {cache[c][q], journal.orig[p]}
      BY <1>0, <3>2 DEF PagerTypeOK
    <3>. QED  BY <1>0, <3>1, <3>3 DEF PagesOK, StepTypeOK
  <2>. QED  BY <1>0, <2>1, <2>2 DEF PagesOK, JournalOpen
<1>6. Others(c)
  <2>1. \A d \in Conn \ {c} : cache'[d] = cache[d] /\ dirty'[d] = dirty[d] /\ todo'[d] = todo[d]
    BY <1>0 DEF PlaybackPage, StepTypeOK, PagerTypeOK
  <2>. QED  BY <2>1 DEF PlaybackPage, JournalOpen, Others, Apart, Untouched
<1>. QED  BY <1>1, <1>2, <1>3, <1>4, <1>5, <1>6, OneMovesControl

\* One byte-lock call: the levels and bytes of its handle go on as its routine wants.
LEMMA LockCallControl ==
  ASSUME ControlInv, NEW c \in Conn, LockCall(c), StoreInv'
  PROVE  ControlInv' /\ Others(c)
<1> USE PagerAssumption
<1>0. /\ LockTypeOK /\ StepTypeOK /\ PagerTypeOK /\ StepTypeOK'
      /\ HandleOK(c) /\ StateBacked(c) /\ JournalBacked(c)
      /\ LabelOK(c) /\ LockBacked(c) /\ PagesOK(c) /\ CountedOK
  BY DEF ControlInv, StoreInv, LockInv
<1>a. UNCHANGED <<db, journal, opener, held, cache, dirty, inJournal, pstate, errored, at, doing,
                  todo, committed>>
  BY DEF LockCall
<1>1. PagerTypeOK'
  BY <1>0 DEF LockCall, PagerTypeOK
<1>2. CountedOK'
  BY <1>0, <1>a DEF CountedOK
<1>3. LabelOK(c)'
  BY <1>0, <1>a DEF LabelOK, JournalOpen
<1>4. LockBacked(c)'
  <2>0. LockStep(c) /\ UNCHANGED <<pstate, at, doing>>
    BY DEF LockCall
  <2> USE DEF Continue, Return, Goto, Result
  <2>1. CASE TryPending(c)
    <3>1. /\ pc[c] = "lockPending" /\ locktype'[c] = locktype[c]
          /\ pc'[c] # "idle" => want'[c] = want[c]
          /\ local'[c].nReaders = local[c].nReaders
          /\ \/ pc'[c] = (IF want[c] = SHARED_LOCK THEN "lockRead" ELSE "dropRead") /\ rc' = rc
             \/ pc'[c] = "lockPending" /\ rc' = rc
             \/ pc'[c] = "idle" /\ rc'[c] = "busy"
      BY <2>1, <1>0 DEF TryPending, LockPending, LockTypeOK, TableTypeOK, LockRecord
    <3>2. at[c] \in {"share", "hotlock", "exclusive"}
      BY <3>1, <1>0 DEF LockBacked, StateBacked
    <3>. QED  BY <2>0, <3>1, <3>2, <1>0 DEF LockBacked, Level, Reading
  <2>2. CASE TryRead(c)
    BY <2>0, <2>2, <1>0 DEF TryRead, LockRead, LockBacked, Reading, LockTypeOK, TableTypeOK, LockRecord,
      Level, StateBacked, LabelOK, StepTypeOK
  <2>3. CASE ReleasePending(c)
    BY <2>0, <2>3, <1>0 DEF ReleasePending, UnlockPending, LockBacked, Reading, LockTypeOK, Level,
      StateBacked, LabelOK, StepTypeOK
  <2>4. CASE TryReserved(c)
    BY <2>0, <2>4, <1>0 DEF TryReserved, LockReserved, LockBacked, LockTypeOK, TableTypeOK, LockRecord, Level,
      StateBacked, LabelOK, StepTypeOK
  <2>5. CASE DropRead(c)
    BY <2>0, <2>5, <1>0 DEF DropRead, UnlockRange, LockBacked, LabelOK, StateBacked, LockTypeOK, TableTypeOK,
      LockRecord, Level, StepTypeOK
  <2>6. CASE TryExclusive(c)
    <3>1. pc[c] = "lockExclusive" /\ at[c] \in {"hotlock", "exclusive"}
      BY <2>6, <1>0 DEF TryExclusive, LockBacked, StateBacked
    <3>2. /\ pc'[c] = "idle"
          /\ rc'[c] = "ok" \/ (rc'[c] = "busy" /\ locktype'[c] = PENDING_LOCK)
      BY <2>6, <1>0 DEF TryExclusive, LockTypeOK
    <3>3. at[c] = "exclusive" => pstate[c] \in {PAGER_UNLOCK, PAGER_RESERVED}
      BY <1>0 DEF LabelOK, StepTypeOK
    <3>. QED  BY <2>0, <3>1, <3>2, <3>3 DEF LockBacked, Level
  <2>7. CASE GiveExclusive(c)
    BY <2>0, <2>7, <1>0 DEF GiveExclusive, UnlockRange, LockBacked, HandleOK, ControlOK, ReadBacked,
      LockTypeOK, TableTypeOK, LockRecord, Level, StateBacked, LabelOK, StepTypeOK
  <2>8. CASE RelockRead(c)
    <3>1. at[c] \in {"unlock", "drop"}
      BY <2>8, <1>0 DEF RelockRead, LockBacked, StateBacked, Asking, Level, LabelOK, StepTypeOK,
      LockTypeOK
    <3>2. /\ pc'[c] = "giveReserved" /\ UNCHANGED <<locktype, want>>
          /\ \/ local'[c].nReaders = local[c].nReaders + 1 /\ local[c].nReaders \in Nat
             \/ rc'[c] = "ioerr"
      BY <2>8, <1>0 DEF RelockRead, LockRead, LockTypeOK, TableTypeOK, LockRecord
    <3>3. pc[c] = "relockRead"
      BY <2>8 DEF RelockRead
    <3>. QED  BY <2>0, <3>1, <3>2, <3>3, <1>0 DEF LockBacked, LabelOK, Reading, Level, StateBacked, StepTypeOK, LockTypeOK
  <2>9. CASE GiveReserved(c)
    <3>1. at[c] \in {"unlock", "drop"} /\ pc[c] = "giveReserved"
      BY <2>9, <1>0 DEF GiveReserved, LockBacked, StateBacked, Asking
    <3>2. /\ local'[c].nReaders = local[c].nReaders
          /\ \/ pc'[c] = "givePending" /\ UNCHANGED <<locktype, want, rc>>
             \/ pc'[c] = "giveRead" /\ want[c] = NO_LOCK /\ UNCHANGED <<locktype, want, rc>>
             \/ pc'[c] = "idle" /\ locktype'[c] = want[c] /\ rc'[c] = rc[c]
      BY <2>9, <1>0 DEF GiveReserved, UnlockReserved, LockTypeOK
    <3>. QED  BY <2>0, <3>1, <3>2, <1>0 DEF LockBacked, Reading
  <2>10. CASE GiveRead(c)
    <3>1. at[c] = "drop" /\ pc[c] = "giveRead" /\ want[c] = NO_LOCK
      BY <2>10, <1>0 DEF GiveRead, LockBacked, StateBacked, Asking
    <3>2. \/ pc'[c] = "givePending" /\ want' = want
          \/ pc'[c] = "idle" /\ locktype'[c] = want[c]
      BY <2>10, <1>0 DEF GiveRead, LockTypeOK
    <3>. QED  BY <2>0, <3>1, <3>2 DEF LockBacked
  <2>11. CASE GivePending(c)
    <3>1. at[c] \in {"unlock", "drop"} /\ pc[c] = "givePending"
      BY <2>11, <1>0 DEF GivePending, LockBacked, StateBacked, Asking
    <3>2. /\ local'[c].nReaders = local[c].nReaders
          /\ pc'[c] = "idle" /\ locktype'[c] = want[c] /\ rc'[c] = rc[c]
      BY <2>11, <1>0 DEF GivePending, UnlockPending, LockTypeOK
    <3>. QED  BY <2>0, <3>1, <3>2, <1>0 DEF LockBacked, Reading
  <2>12. CASE Probe(c)
    <3>1. at[c] = "probed" /\ pc[c] = "probe" /\ Level(c)
      BY <2>12, <1>0 DEF Probe, LockBacked, StateBacked, Asking
    <3>2. /\ local'[c].nReaders = local[c].nReaders
          /\ pc'[c] \in {"unprobe", "idle"} /\ locktype'[c] = locktype[c]
      BY <2>12, <1>0 DEF Probe, LockReserved, LockTypeOK, TableTypeOK, LockRecord
    <3>. QED  BY <2>0, <3>1, <3>2, <1>0 DEF LockBacked, Level, Reading
  <2>13. CASE Unprobe(c)
    <3>1. at[c] = "probed" /\ pc[c] = "unprobe" /\ Level(c)
      BY <2>13, <1>0 DEF Unprobe, LockBacked, StateBacked, Asking
    <3>2. /\ local'[c].nReaders = local[c].nReaders
          /\ pc'[c] = "idle" /\ locktype'[c] = locktype[c]
      BY <2>13, <1>0 DEF Unprobe, UnlockReserved, LockTypeOK
    <3>. QED  BY <2>0, <3>1, <3>2, <1>0 DEF LockBacked, Level, Reading
  <2>. QED
    BY <2>0, <2>1, <2>2, <2>3, <2>4, <2>5, <2>6, <2>7, <2>8, <2>9, <2>10, <2>11, <2>12, <2>13 DEF
        LockStep
<1>5. PagesOK(c)'
  BY <1>0, <1>a DEF PagesOK, JournalOpen
<1>6. Others(c)
  <2>1. \A d \in Conn \ {c} : Untouched(d)
    <3>0. LockStep(c)
      BY DEF LockCall
    <3> USE DEF Continue, Return, Goto, Result, Untouched, LockTypeOK, TableTypeOK
    <3>1. CASE TryPending(c)
      BY <3>1, <1>0 DEF TryPending, LockPending
    <3>2. CASE TryRead(c)
      BY <3>2, <1>0 DEF TryRead, LockRead
    <3>3. CASE ReleasePending(c)
      BY <3>3 DEF ReleasePending, UnlockPending
    <3>4. CASE TryReserved(c)
      BY <3>4, <1>0 DEF TryReserved, LockReserved
    <3>5. CASE DropRead(c)
      BY <3>5, <1>0 DEF DropRead, UnlockRange
    <3>6. CASE TryExclusive(c)
      BY <3>6, <1>0 DEF TryExclusive, LockExclusive
    <3>7. CASE GiveExclusive(c)
      BY <3>7, <1>0 DEF GiveExclusive, UnlockRange
    <3>8. CASE RelockRead(c)
      BY <3>8, <1>0 DEF RelockRead, LockRead
    <3>9. CASE GiveReserved(c)
      BY <3>9, <1>0 DEF GiveReserved, UnlockReserved
    <3>10. CASE GiveRead(c)
      BY <3>10, <1>0 DEF GiveRead, UnlockRange
    <3>11. CASE GivePending(c)
      BY <3>11 DEF GivePending, UnlockPending
    <3>12. CASE Probe(c)
      BY <3>12, <1>0 DEF Probe, LockReserved
    <3>13. CASE Unprobe(c)
      BY <3>13 DEF Unprobe, UnlockReserved
    <3>. QED
      BY <3>0, <3>1, <3>2, <3>3, <3>4, <3>5, <3>6, <3>7, <3>8, <3>9, <3>10, <3>11, <3>12, <3>13 DEF
          LockStep
  <2>. QED  BY <1>a, <2>1 DEF Others, Apart, JournalOpen
<1>. QED  BY <1>1, <1>2, <1>3, <1>4, <1>5, <1>6, OneMovesControl

\* Whichever pager moves, they are all in order after it, and the others are left alone.
LEMMA OneMoves ==
  ASSUME ControlInv, StoreInv', broken' # "stray", NEW c \in Conn,
         Start(c) \/ Die1(c) \/ LockCall(c) \/ PagerStep(c)
  PROVE  ControlInv' /\ Others(c)
<1>1. CASE Start(c) \/ Die1(c) \/ LockCall(c)
  BY <1>1, StartControl, Die1Control, LockCallControl
<1>2. CASE PagerStep(c)
  BY <1>2, GetSharedControl, GotSharedControl, HasHotJournalControl, ProbedControl,
      HotLockedControl, OpenHotJournalControl, BeginControl, GotReservedControl,
      GotExclusiveControl, OpenJournalControl, LateJournalControl, CommitControl,
      SyncJournalControl, StoredControl, PlayedBackControl, CloseJournalControl,
      DeleteJournalControl, UnlockedControl, RollbackControl, ResetControl, ShutControl,
      DroppedControl, FetchControl, WriteControl, RecycleControl, StorePageControl,
      PlaybackPageControl DEF PagerStep
<1>. QED  BY <1>1, <1>2

\* Every step keeps the pagers in order.
LEMMA ControlStep ==
  ASSUME ControlInv, [PagerNext]_vars, broken' # "stray"
  PROVE  ControlInv'
<1>1. StoreInv'
  BY StoreInvStep DEF ControlInv
<1>2. CASE UNCHANGED vars
  <2>1. \A d \in Conn : Apart(d)
    BY <1>2 DEF Apart, Untouched, JournalOpen, vars
  <2>2. PagerTypeOK' /\ CountedOK'
    BY <1>1, <1>2 DEF ControlInv, PagerTypeOK, CountedOK, StoreInv, vars
  <2>. QED  BY <1>1, <2>1, <2>2, ApartControl DEF ControlInv, StoreInv
<1>. QED  BY <1>1, <1>2, OneMoves DEF PagerNext

\* Before anything is open, everything is in order.
LEMMA ControlInit == PagerInit => ControlInv
<1> SUFFICES ASSUME PagerInit PROVE ControlInv
  OBVIOUS
<1>1. StoreInv
  BY StoreInvInit
<1>2. PagerTypeOK /\ CountedOK
  BY <1>1, EmptyFacts, PagerAssumption DEF PagerInit, StoreInv, PagerTypeOK, CountedOK, Version
<1>3. ASSUME NEW c \in Conn PROVE LabelOK(c) /\ LockBacked(c) /\ PagesOK(c)
  BY PagerAssumption DEF PagerInit, LockInit, LabelOK, LockBacked, Level, PagesOK, JournalOpen
<1>. QED  BY <1>1, <1>2, <1>3 DEF ControlInv

------------------------------------------------------------------------------
\* As long as no pager goes on without its lock.

\* Who has the journal open or pages in it is at RESERVED at least, and from there on it
\* has the RESERVED byte, but for a pager that recovers.
Locked(c) ==
  /\ pstate[c] >= PAGER_RESERVED /\ doing[c] # "get" /\ at[c] # "unlock" => local[c].bReserved
  /\ JournalOpen(c) => pstate[c] >= PAGER_RESERVED \/ errored[c]
  /\ inJournal[c] # {} => pstate[c] >= PAGER_RESERVED
  /\ at[c] \in {"create", "exclusive", "sync"} => pstate[c] >= PAGER_RESERVED

LockedInv == \A c \in Conn : Locked(c)

Kept == broken \notin {"unlocked", "stray"}

\* Only the byte-lock calls that come down from RESERVED give the RESERVED byte back.
LEMMA LockCallReserved ==
  ASSUME ControlInv, NEW c \in Conn, LockCall(c)
  PROVE  \/ local[c].bReserved => local'[c].bReserved
         \/ at[c] \in {"probed", "unlock", "drop"}
<1>0. LockTypeOK /\ HandleOK(c) /\ StateBacked(c) /\ LockBacked(c)
  BY DEF ControlInv, StoreInv, LockInv
<1>1. LockStep(c)
  BY DEF LockCall
<1> USE DEF LockTypeOK, TableTypeOK, LockRecord, Continue, Return
<1>2. CASE TryPending(c) \/ TryRead(c) \/ ReleasePending(c)
  BY <1>0, <1>2 DEF TryPending, TryRead, ReleasePending, LockPending, LockRead, UnlockPending
<1>3. CASE TryReserved(c) \/ DropRead(c) \/ TryExclusive(c) \/ GiveExclusive(c)
  BY <1>0, <1>3 DEF TryReserved, DropRead, TryExclusive, GiveExclusive, LockReserved, UnlockRange,
      LockExclusive
<1>4. CASE RelockRead(c)
  BY <1>0, <1>4 DEF RelockRead, StateBacked, Asking, LockBacked
<1>7. CASE GiveRead(c) \/ GivePending(c)
  BY <1>0, <1>7 DEF GiveRead, GivePending, StateBacked, Asking, LockBacked
<1>5. CASE GiveReserved(c)
  BY <1>0, <1>5 DEF GiveReserved, StateBacked, Asking, LockBacked
<1>6. CASE Probe(c) \/ Unprobe(c)
  BY <1>0, <1>6 DEF Probe, Unprobe, StateBacked, Asking, LockBacked
<1>. QED  BY <1>1, <1>2, <1>3, <1>4, <1>5, <1>6, <1>7 DEF LockStep

\* The pager that moves stays in order...
LEMMA LockedMoves ==
  ASSUME ControlInv, NEW c \in Conn, Locked(c), Kept',
         Start(c) \/ Die1(c) \/ LockCall(c) \/ PagerStep(c)
  PROVE  Locked(c)'
<1> USE PagerAssumption
<1>0. /\ LockTypeOK /\ StepTypeOK /\ PagerTypeOK /\ HandleOK(c) /\ StateBacked(c)
      /\ JournalBacked(c) /\ LabelOK(c) /\ LockBacked(c) /\ PagesOK(c)
  BY DEF ControlInv, StoreInv, LockInv
<1> USE DEF Locked, Reached, Resting, Go, Begins, Rest, State, JournalOpen, StepTypeOK
<1>1. CASE Start(c)
  BY <1>0, <1>1 DEF Start, Open, CreateLock, StateBacked
<1>2. CASE Die1(c)
  BY <1>0, <1>2 DEF Die1, Forget
<1>3. CASE LockCall(c)
  BY <1>0, <1>3, LockCallReserved DEF LockCall, LabelOK
<1>4. CASE GetShared(c) \/ HasHotJournal(c) \/ Probed(c) \/ Begin(c)
  BY <1>0, <1>4 DEF GetShared, HasHotJournal, Probed, Begin, CheckReserved, Lock, LabelOK, LockBacked
<1>5. CASE GotShared(c)
  BY <1>0, <1>5 DEF GotShared, Lock, LabelOK
<1>6. CASE HotLocked(c)
  BY <1>0, <1>6 DEF HotLocked, DropLock, Unlock, LabelOK, PagesOK
<1>7. CASE OpenHotJournal(c)
  BY <1>0, <1>7 DEF OpenHotJournal, DropLock, Unlock, LabelOK, PagesOK, StateBacked
<1>8. CASE GotReserved(c)
  <2>1. rc[c] = "ok" => local[c].bReserved
    BY <1>0, <1>8 DEF GotReserved, Idle, LockBacked, HandleOK, ReservedBacked
  <2>. QED  BY <1>0, <1>8, <2>1 DEF GotReserved, Lock, LabelOK
<1>9. CASE GotExclusive(c)
  BY <1>0, <1>9 DEF GotExclusive, Lock, LabelOK
<1>10. CASE OpenJournal(c)
  BY <1>0, <1>10 DEF OpenJournal, DropLock, Unlock, LabelOK, PagesOK
<1>11. CASE LateJournal(c)
  <2>1. pstate[c] >= PAGER_RESERVED
    BY <1>0, <1>11 DEF LateJournal, Kept
  <2>. QED  BY <1>0, <1>11, <2>1 DEF LateJournal, LabelOK
<1>12. CASE Commit(c)
  <2>1. pstate[c] >= PAGER_RESERVED
    BY <1>0, <1>12 DEF Commit, DirtyCache
  <2>. QED  BY <1>0, <1>12, <2>1 DEF Commit, LabelOK
<1>13. CASE SyncJournal(c)
  BY <1>0, <1>13, WaitOnLockFacts DEF SyncJournal, LabelOK
<1>14. CASE Stored(c)
  BY <1>0, <1>14 DEF Stored, LabelOK, StateBacked
<1>15. CASE PlayedBack(c)
  BY <1>0, <1>15 DEF PlayedBack, LabelOK
<1>16. CASE CloseJournal(c) \/ DeleteJournal(c)
  BY <1>0, <1>16 DEF CloseJournal, DeleteJournal, Unlock, LabelOK
<1>17. CASE Unlocked(c)
  BY <1>0, <1>17 DEF Unlocked, DropLock, Unlock, LabelOK, PagesOK
<1>18. CASE Rollback(c)
  <2>1. pstate[c] >= PAGER_RESERVED
    BY <1>0, <1>18 DEF Rollback, Strays, Kept
  <2>. QED  BY <1>0, <1>18, <2>1 DEF Rollback, Undo, Unchanged, LabelOK
<1>19. CASE Reset(c)
  BY <1>0, <1>19, LetGoFacts DEF Reset, LetGo, DropLock, Unlock, LabelOK
<1>20. CASE Shut(c)
  BY <1>0, <1>20, LetGoFacts DEF Shut, LetGo, DropLock, Unlock, LabelOK
<1>21. CASE Dropped(c)
  BY <1>0, <1>21 DEF Dropped, Forget, LabelOK
<1>22. ASSUME NEW p \in Page, Fetch(c, p) PROVE Locked(c)'
  BY <1>0, <1>22 DEF Fetch, LabelOK
<1>23. ASSUME NEW p \in Page, Write(c, p) PROVE Locked(c)'
  BY <1>0, <1>23 DEF Write, Change, LabelOK
<1>24. ASSUME NEW p \in Page, Recycle(c, p) PROVE Locked(c)'
  <2>1. p \in dirty[c] => pstate[c] >= PAGER_RESERVED
    BY <1>0 DEF PagesOK
  <2>. QED  BY <1>0, <1>24, <2>1, WaitOnLockFacts DEF Recycle, LabelOK
<1>25. ASSUME NEW p \in Page, StorePage(c, p) \/ PlaybackPage(c, p) PROVE Locked(c)'
  BY <1>0, <1>25 DEF StorePage, PlaybackPage
<1>. QED  BY <1>1, <1>2, <1>3, <1>4, <1>5, <1>6, <1>7, <1>8, <1>9, <1>10, <1>11, <1>12, <1>13,
      <1>14, <1>15, <1>16, <1>17, <1>18, <1>19, <1>20, <1>21, <1>22, <1>23, <1>24, <1>25
      DEF PagerStep

\* ... and the others are left alone.
LEMMA LockedStep ==
  ASSUME ControlInv, LockedInv, [PagerNext]_vars, Kept'
  PROVE  LockedInv'
<1>1. StoreInv' /\ broken' # "stray"
  BY StoreInvStep DEF ControlInv, Kept
<1>2. CASE UNCHANGED vars
  BY <1>2 DEF LockedInv, Locked, JournalOpen, vars
<1>3. ASSUME NEW c \in Conn, Start(c) \/ Die1(c) \/ LockCall(c) \/ PagerStep(c)
      PROVE  LockedInv'
  <2>1. Locked(c)'
    BY <1>3, LockedMoves DEF LockedInv
  <2>2. Others(c)
    BY <1>1, <1>3, OneMoves
  <2>3. \A d \in Conn \ {c} : Locked(d)'
    BY <2>2 DEF LockedInv, Locked, Others, Apart, Untouched
  <2>. QED  BY <2>1, <2>3 DEF LockedInv
<1>. QED  BY <1>2, <1>3 DEF PagerNext

\* What follows a pager that is left with a journal it cannot end is not modelled, and it
\* is never over.
LEMMA StrayStays ==
  ASSUME [PagerNext]_vars, broken = "stray"
  PROVE  broken' = "stray"
<1>1. CASE UNCHANGED vars
  BY <1>1 DEF vars
<1>2. ASSUME NEW c \in Conn, Start(c) \/ Die1(c) \/ LockCall(c) \/ PagerStep(c)
      PROVE  broken' = "stray"
  BY <1>2 DEF Start, Die1, LockCall, PagerStep, GetShared, GotShared, HasHotJournal, Probed,
     HotLocked, OpenHotJournal, Begin, GotReserved, GotExclusive, OpenJournal, LateJournal,
     Commit, SyncJournal, Stored, PlayedBack, CloseJournal, DeleteJournal, Unlocked,
     Rollback, Reset, Shut, Dropped, Fetch, Write, Recycle, StorePage, PlaybackPage
<1>. QED  BY <1>1, <1>2 DEF PagerNext

\* ... nor does a pager that went on without its lock undo what it did.
LEMMA UnlockedStays ==
  ASSUME [PagerNext]_vars, ~Kept
  PROVE  ~Kept'
<1>1. CASE UNCHANGED vars
  BY <1>1 DEF vars, Kept
<1>2. ASSUME NEW c \in Conn, Start(c) \/ Die1(c) \/ LockCall(c) \/ PagerStep(c)
      PROVE  ~Kept'
  BY <1>2 DEF Start, Die1, LockCall, PagerStep, GetShared, GotShared, HasHotJournal, Probed,
     HotLocked, OpenHotJournal, Begin, GotReserved, GotExclusive, OpenJournal, LateJournal,
     Commit, SyncJournal, Stored, PlayedBack, CloseJournal, DeleteJournal, Unlocked,
     Rollback, Reset, Shut, Dropped, Fetch, Write, Recycle, StorePage, PlaybackPage, Kept
<1>. QED  BY <1>1, <1>2 DEF PagerNext

\* The pagers are in order until then.
InOrder == /\ broken # "stray" => ControlInv
           /\ Kept => LockedInv

LEMMA Control == PagerSpec => []InOrder
<1>1. PagerInit => InOrder
  BY ControlInit, PagerAssumption DEF InOrder, PagerInit, LockedInv, Locked, JournalOpen
<1>2. InOrder /\ [PagerNext]_vars => InOrder'
  <2> SUFFICES ASSUME InOrder, [PagerNext]_vars PROVE InOrder'
    OBVIOUS
  <2>1. broken' # "stray" => ControlInv'
    BY ControlStep, StrayStays DEF InOrder
  <2>2. Kept' => LockedInv'
    BY LockedStep, UnlockedStays DEF InOrder, Kept
  <2>. QED  BY <2>1, <2>2 DEF InOrder
<1>. QED  BY <1>1, <1>2, PTL DEF PagerSpec

\* The variables of the pagers keep their types.
THEOREM PagerTypes == PagerSpec => [](broken # "stray" => PagerTypeOK)
<1>1. InOrder => (broken # "stray" => PagerTypeOK)
  BY DEF InOrder, ControlInv
<1>. QED  BY <1>1, Control, PTL

\* The pager uses the lock as winLock and winUnlock are made for: it does nothing to it but
\* call them, and whenever it comes to ask for a level, after requests that were refused,
\* done by half or given up, the handle is at a level from which that one may be asked. One
\* case is left out, the pager that goes on from PAGER_UNLOCK, which asks for EXCLUSIVE from
\* NO_LOCK.
THEOREM PagerUsesLocks == PagerSpec => LockSpec /\ [](broken # "stray" => LegalCalls)
<1>1. InOrder => (broken # "stray" => LegalCalls)
  <2> SUFFICES ASSUME InOrder, broken # "stray", NEW c \in Conn
               PROVE  /\ \/ Resting(c) /\ ~held[c] /\ ~errored[c]
                         \/ Reached(c, "share") /\ rc[c] = "busy"
                         => locktype[c] = NO_LOCK
                      /\ \/ Reached(c, "look") \/ Reached(c, "probed")
                         \/ Resting(c) /\ held[c] /\ pstate[c] = PAGER_SHARED
                         => locktype[c] = SHARED_LOCK
                      /\ WantsExclusive(c) =>
                           locktype[c] \in {RESERVED_LOCK, PENDING_LOCK}
                             \cup IF broken = "unlocked" THEN {NO_LOCK} ELSE {}
                      /\ Reached(c, "close") \/ Reached(c, "delete") => locktype[c] >= RESERVED_LOCK
    BY DEF LegalCalls
  <2>1. /\ LockTypeOK /\ StepTypeOK /\ LabelOK(c) /\ LockBacked(c) /\ PagesOK(c)
        /\ broken # "unlocked" => Locked(c)
    BY DEF InOrder, ControlInv, StoreInv, LockInv, LockedInv, Kept
  <2>2. \/ Resting(c) /\ ~held[c] /\ ~errored[c]
        \/ Reached(c, "share") /\ rc[c] = "busy"
        => locktype[c] = NO_LOCK
    BY <2>1 DEF Resting, Reached, LockBacked
  <2>3. \/ Reached(c, "look") \/ Reached(c, "probed")
        \/ Resting(c) /\ held[c] /\ pstate[c] = PAGER_SHARED
        => locktype[c] = SHARED_LOCK
    BY <2>1 DEF Resting, Reached, LockBacked, LabelOK, Level
  <2>4. ASSUME WantsExclusive(c), ~Reached(c, "reserve")
        PROVE  Level(c) /\ pstate[c] \in {PAGER_UNLOCK, PAGER_RESERVED}
    BY <2>1, <2>4 DEF WantsExclusive, Resting, Reached, Idle, LockBacked, LabelOK, PagesOK, StepTypeOK
  <2>5. ASSUME WantsExclusive(c), ~Reached(c, "reserve"), broken # "unlocked"
        PROVE  pstate[c] = PAGER_RESERVED
    BY <2>1, <2>4, <2>5 DEF WantsExclusive, Resting, Reached, PagesOK, Locked, StepTypeOK
  <2>6. WantsExclusive(c) /\ Reached(c, "reserve") => locktype[c] = RESERVED_LOCK
    BY <2>1 DEF WantsExclusive, Resting, Reached, Idle, LockBacked
  <2>7. Reached(c, "close") \/ Reached(c, "delete") => locktype[c] >= RESERVED_LOCK
    BY <2>1 DEF Reached, LockBacked, LabelOK, Level, StepTypeOK
  <2>. QED  BY <2>2, <2>3, <2>4, <2>5, <2>6, <2>7 DEF Level
<1>. QED  BY <1>1, PagerLocks, Control, PTL

==============================================================================
