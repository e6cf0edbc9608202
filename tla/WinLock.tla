------------------------------- MODULE WinLock -------------------------------
(***************************************************************************)
(* The five-level file lock that SQLite asks of its operating system (os.h: *)
(* NO, SHARED, RESERVED, PENDING, EXCLUSIVE), as winLock, winUnlock and     *)
(* winCheckReservedLock of os_win.c build it from the byte locks of         *)
(* WinceLock.  Each byte-lock call is one step; the calls of different      *)
(* handles interleave between any two of them.                              *)
(***************************************************************************)
EXTENDS WinceLock

CONSTANTS HotConn,            \* the handles whose pager may find a hot journal
          Writer              \* the handles whose pager may want to write
ASSUME RoleAssumption == HotConn \subseteq Conn /\ Writer \subseteq Conn

VARIABLES locktype,           \* winFile.locktype of each handle
          pc,                 \* where each handle is in a locking routine
          want,               \* the argument of the routine
          tries,              \* winLock: attempts left for the PENDING byte
          rc                  \* result of the last (or running) routine

callVars == <<locktype, pc, want, tries, rc>>
lockVars == <<shared, local, mapped, leaked, locktype, pc, want, tries, rc>>

NO_LOCK == 0
SHARED_LOCK == 1
RESERVED_LOCK == 2
PENDING_LOCK == 3
EXCLUSIVE_LOCK == 4

PendingTries == 3             \* cnt of winLock

LockInit == /\ TableInit
            /\ locktype = [c \in Conn |-> NO_LOCK]
            /\ pc = [c \in Conn |-> "idle"]
            /\ want = [c \in Conn |-> NO_LOCK]
            /\ tries = [c \in Conn |-> 0]
            /\ rc = [c \in Conn |-> "ok"]

Idle(c) == c \in mapped /\ pc[c] = "idle"

Goto(c, label) == pc' = [pc EXCEPT ![c] = label]
Result(c, code) == rc' = [rc EXCEPT ![c] = code]

\* The routine stores the new lock level and returns.
Return(c, level, code) == /\ Goto(c, "idle")
                          /\ locktype' = [locktype EXCEPT ![c] = level]
                          /\ Result(c, code)
                          /\ want' = [want EXCEPT ![c] = NO_LOCK]
                          /\ tries' = [tries EXCEPT ![c] = 0]

\* The routine goes on with its next byte-lock call.
Continue(c, label) == /\ Goto(c, label)
                      /\ UNCHANGED <<locktype, want, tries, rc>>

------------------------------------------------------------------------------
(* Opening, closing, dying. *)

Open(c) == /\ CreateLock(c)
           /\ Result(c, "ok")
           /\ UNCHANGED <<locktype, pc, want, tries>>

Close(c) == /\ Idle(c)
            /\ DestroyLock(c)
            /\ locktype' = [locktype EXCEPT ![c] = NO_LOCK]
            /\ UNCHANGED <<pc, want, tries, rc>>

Die(c) == /\ Crash(c)
          /\ locktype' = [locktype EXCEPT ![c] = NO_LOCK]
          /\ Goto(c, "idle")
          /\ want' = [want EXCEPT ![c] = NO_LOCK]
          /\ tries' = [tries EXCEPT ![c] = 0]
          /\ Result(c, "ok")

------------------------------------------------------------------------------
(* winLock.  A request for a level the handle already has returns at once   *)
(* and changes nothing, so it is not a step.                                *)

\* The requests its callers make.  SHARED to EXCLUSIVE is the request of a pager that
\* found a hot journal.  NO_LOCK to EXCLUSIVE, which an assertion forbids that the build
\* leaves out, is that of a pager that lost its lock and writes on; RESERVED is passed
\* over there too, and its byte is not taken.
LegalRequest(c, level) ==
  \/ locktype[c] = NO_LOCK /\ level = SHARED_LOCK
  \/ locktype[c] = NO_LOCK /\ level = EXCLUSIVE_LOCK /\ c \in Writer
  \/ locktype[c] = SHARED_LOCK /\ level = RESERVED_LOCK /\ c \in Writer
  \/ locktype[c] = SHARED_LOCK /\ level = EXCLUSIVE_LOCK /\ c \in HotConn
  \/ locktype[c] \in {RESERVED_LOCK, PENDING_LOCK} /\ level = EXCLUSIVE_LOCK

\* Only a new SHARED lock and the upgrade from RESERVED go through the PENDING
\* byte.
NeedsPendingByte(c, level) ==
  \/ locktype[c] = NO_LOCK
  \/ level = EXCLUSIVE_LOCK /\ locktype[c] = RESERVED_LOCK

Lock(c, level) ==
  /\ Idle(c)
  /\ locktype[c] < level
  /\ LegalRequest(c, level)
  /\ want' = [want EXCEPT ![c] = level]
  /\ tries' = [tries EXCEPT ![c] = PendingTries]
  /\ Goto(c, IF NeedsPendingByte(c, level) THEN "lockPending"
             ELSE IF level = RESERVED_LOCK THEN "lockReserved"
             ELSE "dropRead")
  /\ Result(c, "ok")
  /\ UNCHANGED <<tableVars, locktype>>

\* Mutant: a reader that never got the PENDING byte reads on (`res` not tested).
TryPendingUntested(c) ==
  /\ pc[c] = "lockPending"
  /\ \/ /\ LockPending(c)
        /\ Continue(c, IF want[c] = SHARED_LOCK THEN "lockRead" ELSE "dropRead")
     \/ /\ ~PendingFree
        /\ want[c] = SHARED_LOCK
        /\ Continue(c, "lockRead")
        /\ UNCHANGED tableVars

TryPending(c) ==
  /\ pc[c] = "lockPending"
  /\ \/ /\ LockPending(c)
        /\ Continue(c, IF want[c] = SHARED_LOCK THEN "lockRead" ELSE "dropRead")
     \/ /\ ~PendingFree
        /\ tries[c] > 1
        /\ tries' = [tries EXCEPT ![c] = @ - 1]
        /\ UNCHANGED <<tableVars, locktype, pc, want, rc>>
     \/ /\ ~PendingFree
        /\ tries[c] = 1
        /\ Return(c, locktype[c], "busy")
        /\ UNCHANGED tableVars

\* rc stands for `res`, which decides the new level after the PENDING byte is
\* given back.
TryRead(c) ==
  /\ pc[c] = "lockRead"
  /\ \/ /\ LockRead(c)
        /\ Continue(c, "unlockPending")
     \/ /\ ~ReadFree
        /\ Goto(c, "unlockPending")
        /\ Result(c, "busy")
        /\ UNCHANGED <<tableVars, locktype, want, tries>>

ReleasePending(c) ==
  /\ pc[c] = "unlockPending"
  /\ UnlockPending(c)
  /\ Return(c, IF rc[c] = "ok" THEN SHARED_LOCK ELSE locktype[c], rc[c])

TryReserved(c) ==
  /\ pc[c] = "lockReserved"
  /\ \/ LockReserved(c) /\ Return(c, RESERVED_LOCK, "ok")
     \/ ~ReservedFree /\ Return(c, locktype[c], "busy") /\ UNCHANGED tableVars

\* The read lock is given up before the exclusive lock is tried...
\* Mutant: it is kept.
KeepRead(c) ==
  /\ pc[c] = "dropRead"
  /\ Continue(c, "lockExclusive")
  /\ UNCHANGED tableVars

DropRead(c) ==
  /\ pc[c] = "dropRead"
  /\ UnlockRange(c)
  /\ Continue(c, "lockExclusive")

\* ... and is not taken back when that attempt fails: the level is then PENDING.
TryExclusive(c) ==
  /\ pc[c] = "lockExclusive"
  /\ \/ LockExclusive(c) /\ Return(c, EXCLUSIVE_LOCK, "ok")
     \/ ~ExclusiveFree /\ Return(c, PENDING_LOCK, "busy") /\ UNCHANGED tableVars

------------------------------------------------------------------------------
(* winUnlock to SHARED or NO, from a higher level: the pager asks for       *)
(* SHARED only from RESERVED or more (pager_unwritelock).                   *)

Unlock(c, level) ==
  /\ Idle(c)
  /\ level \in {NO_LOCK, SHARED_LOCK}
  /\ level < locktype[c]
  /\ want' = [want EXCEPT ![c] = level]
  /\ Goto(c, CASE locktype[c] = EXCLUSIVE_LOCK -> "giveExclusive"
               [] locktype[c] \in {RESERVED_LOCK, PENDING_LOCK} -> "giveReserved"
               [] OTHER -> "giveRead")
  /\ Result(c, "ok")
  /\ UNCHANGED <<tableVars, locktype, tries>>

GiveExclusive(c) ==
  /\ pc[c] = "giveExclusive"
  /\ UnlockRange(c)
  /\ Continue(c, IF want[c] = SHARED_LOCK THEN "relockRead" ELSE "giveReserved")

RelockRead(c) ==
  /\ pc[c] = "relockRead"
  /\ \/ LockRead(c) /\ Continue(c, "giveReserved")
     \/ /\ ~ReadFree
        /\ Goto(c, "giveReserved")
        /\ Result(c, "ioerr")
        /\ UNCHANGED <<tableVars, locktype, want, tries>>

\* Mutant: the PENDING byte is forgotten on the way to SHARED.
GiveReservedOnly(c) ==
  /\ pc[c] = "giveReserved"
  /\ UnlockReserved(c)
  /\ IF want[c] = NO_LOCK THEN Continue(c, "giveRead")
     ELSE Return(c, want[c], rc[c])

GiveReserved(c) ==
  /\ pc[c] = "giveReserved"
  /\ UnlockReserved(c)
  /\ IF want[c] = NO_LOCK THEN Continue(c, "giveRead")
     ELSE IF locktype[c] >= PENDING_LOCK THEN Continue(c, "givePending")
     ELSE Return(c, want[c], rc[c])

GiveRead(c) ==
  /\ pc[c] = "giveRead"
  /\ UnlockRange(c)
  /\ IF locktype[c] >= PENDING_LOCK THEN Continue(c, "givePending")
     ELSE Return(c, want[c], rc[c])

GivePending(c) ==
  /\ pc[c] = "givePending"
  /\ UnlockPending(c)
  /\ Return(c, want[c], rc[c])

------------------------------------------------------------------------------
(* winCheckReservedLock: a handle below RESERVED finds out by taking the    *)
(* RESERVED byte itself for a moment.                                       *)

CheckReserved(c) ==
  /\ Idle(c)
  /\ locktype[c] = SHARED_LOCK
  /\ Goto(c, "probe")
  /\ UNCHANGED <<tableVars, locktype, want, tries, rc>>

Probe(c) ==
  /\ pc[c] = "probe"
  /\ \/ LockReserved(c) /\ Continue(c, "unprobe")
     \/ ~ReservedFree /\ Return(c, locktype[c], "held") /\ UNCHANGED tableVars

Unprobe(c) ==
  /\ pc[c] = "unprobe"
  /\ UnlockReserved(c)
  /\ Return(c, locktype[c], "free")

------------------------------------------------------------------------------
\* One step inside a routine that is running.
LockStep(c) == \/ TryPending(c)    \/ TryRead(c)      \/ ReleasePending(c)
               \/ TryReserved(c)   \/ DropRead(c)     \/ TryExclusive(c)
               \/ GiveExclusive(c) \/ RelockRead(c)   \/ GiveReserved(c)
               \/ GiveRead(c)      \/ GivePending(c)
               \/ Probe(c)         \/ Unprobe(c)

LockNext == \E c \in Conn :
              \/ Open(c) \/ Close(c) \/ Die(c)
              \/ \E level \in SHARED_LOCK..EXCLUSIVE_LOCK : Lock(c, level)
              \/ \E level \in {NO_LOCK, SHARED_LOCK} : Unlock(c, level)
              \/ CheckReserved(c)
              \/ LockStep(c)

LockSpec == LockInit /\ [][LockNext]_lockVars

\* What the scheduler and the pager give every handle: a routine that began goes
\* on (the mutex is never held for long); whoever has the PENDING byte asks again
\* for EXCLUSIVE (the busy handler's loop); everybody else lets go in the end.
\* CPU time alone does not make a reader finish: the last conjunct is a demand on
\* the applications, the one under which PENDING promises anything.
LockFairness ==
  \A c \in Conn : /\ WF_lockVars(LockStep(c))
                  /\ WF_lockVars(local[c].bPending /\ Lock(c, EXCLUSIVE_LOCK))
                  /\ SF_lockVars(~local[c].bPending /\ Unlock(c, NO_LOCK))

FairLockSpec == LockSpec /\ LockFairness

------------------------------------------------------------------------------
(* Properties. *)

LockTypeOK ==
  /\ TableTypeOK
  /\ locktype \in [Conn -> NO_LOCK..EXCLUSIVE_LOCK]
  /\ pc \in [Conn -> {"idle", "lockPending", "lockRead", "unlockPending",
                      "lockReserved", "dropRead", "lockExclusive",
                      "giveExclusive", "relockRead", "giveReserved", "giveRead",
                      "givePending", "probe", "unprobe"}]
  /\ want \in [Conn -> NO_LOCK..EXCLUSIVE_LOCK]
  /\ tries \in [Conn -> 0..PendingTries]
  /\ rc \in [Conn -> {"ok", "busy", "ioerr", "held", "free"}]

(* The inductive invariant: where a handle is in a routine says what level   *)
(* it had when it called, and that level and place say what it holds.       *)

ControlOK(c) ==
  LET at(labels) == pc[c] \in labels
      t == locktype[c]
      w == want[c]
  IN /\ c \notin mapped => at({"idle"}) /\ t = NO_LOCK
     /\ at({"lockPending"}) =>
          /\ \/ t = NO_LOCK /\ w \in {SHARED_LOCK, EXCLUSIVE_LOCK}
             \/ t = RESERVED_LOCK /\ w = EXCLUSIVE_LOCK
          /\ tries[c] > 0
     /\ at({"lockRead", "unlockPending"}) => t = NO_LOCK /\ w = SHARED_LOCK
     /\ at({"lockPending", "lockRead"}) => rc[c] = "ok"
     /\ at({"lockReserved"}) => t = SHARED_LOCK
     /\ at({"dropRead", "lockExclusive"}) => t \in NO_LOCK..PENDING_LOCK
     /\ at({"giveExclusive"}) => t = EXCLUSIVE_LOCK
     /\ at({"relockRead"}) => t = EXCLUSIVE_LOCK /\ w = SHARED_LOCK
     /\ at({"giveReserved"}) => t >= RESERVED_LOCK
     /\ at({"giveRead"}) => t >= SHARED_LOCK /\ w = NO_LOCK
     /\ at({"givePending"}) => t >= PENDING_LOCK
     /\ at({"giveExclusive", "giveReserved", "givePending"}) => w <= SHARED_LOCK
     /\ at({"probe", "unprobe"}) => t = SHARED_LOCK

ExclusiveBacked(c) ==
  local[c].bExclusive <=> /\ locktype[c] = EXCLUSIVE_LOCK
                          /\ pc[c] \in {"idle", "giveExclusive"}

ReservedBacked(c) ==
  CASE locktype[c] = NO_LOCK       -> ~local[c].bReserved
    [] locktype[c] = SHARED_LOCK   -> local[c].bReserved <=> pc[c] = "unprobe"
    [] locktype[c] = RESERVED_LOCK -> local[c].bReserved <=> pc[c] # "giveRead"
    [] OTHER -> local[c].bReserved => pc[c] \notin {"giveRead", "givePending"}

PendingBacked(c) ==
  CASE locktype[c] = NO_LOCK ->
         local[c].bPending <=> pc[c] \in {"lockRead", "unlockPending",
                                          "dropRead", "lockExclusive"}
    [] locktype[c] = SHARED_LOCK -> ~local[c].bPending
    [] locktype[c] = RESERVED_LOCK ->
         local[c].bPending <=> pc[c] \in {"dropRead", "lockExclusive"}
    [] OTHER -> local[c].bReserved => local[c].bPending

ReadBacked(c) ==
  /\ local[c].nReaders <= 1
  /\ Reading(c) =>
       CASE locktype[c] = NO_LOCK -> pc[c] = "unlockPending" /\ rc[c] = "ok"
         [] locktype[c] \in {SHARED_LOCK, RESERVED_LOCK} -> pc[c] # "lockExclusive"
         [] locktype[c] = PENDING_LOCK -> FALSE
         [] OTHER -> /\ pc[c] \in {"giveReserved", "givePending"}
                     /\ want[c] = SHARED_LOCK

HandleOK(c) == /\ ControlOK(c)
               /\ ExclusiveBacked(c)
               /\ ReservedBacked(c)
               /\ PendingBacked(c)
               /\ ReadBacked(c)

\* What every handle holds at every point of the three locking routines, and that
\* the table agrees: the invariant the others follow from.
LockInv == LockTypeOK /\ TableInv /\ \A c \in Conn : HandleOK(c)

\* At rest, the level a handle believes in is backed by the bytes it holds: at
\* RESERVED it has the RESERVED byte, at EXCLUSIVE the whole range, above RESERVED the
\* RESERVED byte only together with the PENDING byte, and nothing is left behind at
\* NO_LOCK.  The gaps the code leaves are SHARED or RESERVED without a read lock, and
\* PENDING or EXCLUSIVE without the bytes below, of a handle that passed RESERVED over.
LevelBacked ==
  \A c \in mapped : pc[c] = "idle" =>
    /\ local[c].bExclusive = (locktype[c] = EXCLUSIVE_LOCK)
    /\ local[c].bReserved => locktype[c] >= RESERVED_LOCK
    /\ locktype[c] = RESERVED_LOCK => local[c].bReserved
    /\ local[c].bPending => locktype[c] >= PENDING_LOCK
    /\ locktype[c] >= PENDING_LOCK /\ local[c].bReserved => local[c].bPending
    /\ Reading(c) => locktype[c] \in {SHARED_LOCK, RESERVED_LOCK}
    /\ local[c].nReaders <= 1

\* What is left of the table of levels at os.h:177-182.  No two handles are at RESERVED
\* and no two at EXCLUSIVE.  EXCLUSIVE does not preclude all other locks, as os.h:182 has
\* it: SHARED, RESERVED and PENDING may stand beside it, at a handle that lost its read
\* lock when it failed to get up to EXCLUSIVE or to come down from it.  But none of them
\* can read, and none is at RESERVED or has the RESERVED byte beside a handle that came to
\* EXCLUSIVE by way of RESERVED.
LevelsExclude ==
  \A c, d \in mapped : c # d /\ pc[c] = "idle" /\ pc[d] = "idle" =>
    /\ ~(locktype[c] = RESERVED_LOCK /\ locktype[d] = RESERVED_LOCK)
    /\ locktype[c] = EXCLUSIVE_LOCK =>
         /\ locktype[d] # EXCLUSIVE_LOCK
         /\ ~Reading(d)
         /\ local[c].bReserved => locktype[d] # RESERVED_LOCK /\ ~local[d].bReserved

\* While a handle waits at PENDING with the PENDING byte, no other handle can
\* begin to read: a step that adds a reader is taken by the holder of the byte, or
\* by a handle that comes down from EXCLUSIVE.  (os.h:180-181: "no new SHARED locks
\* may be obtained by other processes")
NoNewReaderUnderPending ==
  [][\A c \in Conn : Reading(c)' /\ ~Reading(c) =>
       local[c].bPending \/ locktype[c] = EXCLUSIVE_LOCK]_lockVars

\* A handle that waits for the readers with the PENDING byte in hand gets its
\* EXCLUSIVE lock, unless it gives up, or a dead process left a lock behind.
PendingWriterServed ==
  \A c \in Conn :
    local[c].bPending /\ locktype[c] = PENDING_LOCK
      ~> \/ locktype[c] \in {EXCLUSIVE_LOCK, NO_LOCK, SHARED_LOCK}
         \/ leaked # NoLocks
==============================================================================
