-------------------------------- MODULE Pager --------------------------------
(***************************************************************************)
(* The pagers of several connections on one database file: pager.c on top   *)
(* of the file locks of WinLock, down to the single file operations.  A     *)
(* connection reads pages under a SHARED lock, journals the original of a   *)
(* page before it changes it in its cache, stores the changed pages under   *)
(* an EXCLUSIVE lock, and commits by deleting the journal; whoever finds a  *)
(* journal and no RESERVED lock rolls it back.  Processes die at any point  *)
(* (what they wrote stays written: a power failure is not modelled here).   *)
(* The database has a fixed number of pages, and it is in its default mode  *)
(* (the journal is synced, so its header counts a page only after a sync).  *)
(***************************************************************************)
EXTENDS WinLock

CONSTANTS Page,               \* the pages of the database
          Page1,              \* the one that holds the change counter
          MaxVersion,         \* bound: how often one page is changed
          JournalFails,       \* handles that may fail to create their journal
          Nobody
ASSUME PagerAssumption == /\ Page1 \in Page
                          /\ MaxVersion \in Nat
                          /\ JournalFails \subseteq Conn
                          /\ Nobody \notin Conn

VARIABLES db,                 \* the database file
          journal,            \* the rollback journal file
          opener,             \* the handle that has the journal open
          pstate,             \* Pager.state
          held,               \* Pager.nRef > 0: the client holds some page
          cache,              \* the pages in memory
          dirty,              \* PgHdr.dirty
          inJournal,          \* Pager.aInJournal
          errored,            \* Pager.errCode is set
          at,                 \* where the pager is in a routine
          doing,              \* which routine that is
          todo,               \* the pages its loop still has to write
          committed,          \* what the last commit left (history)
          broken              \* the first known flaw that came to harm (history)

fileVars  == <<db, journal, opener>>
cacheVars == <<held, cache, dirty, inJournal>>
stepVars  == <<pstate, errored, at, doing, todo>>
history   == <<committed, broken>>
pagerVars == <<fileVars, cacheVars, stepVars, history>>
vars      == <<lockVars, pagerVars>>

PAGER_UNLOCK == 0
PAGER_SHARED == 1
PAGER_RESERVED == 2
PAGER_EXCLUSIVE == 4
PAGER_SYNCED == 5

NoPage == -1
NoJournal == [exists |-> FALSE, orig |-> [p \in Page |-> NoPage], counted |-> {}]
EmptyJournal == [NoJournal EXCEPT !.exists = TRUE]
EmptyCache == [p \in Page |-> NoPage]

PagerInit == /\ LockInit
             /\ db = [p \in Page |-> 0]
             /\ journal = NoJournal
             /\ opener = Nobody
             /\ pstate = [c \in Conn |-> PAGER_UNLOCK]
             /\ held = [c \in Conn |-> FALSE]
             /\ cache = [c \in Conn |-> EmptyCache]
             /\ dirty = [c \in Conn |-> {}]
             /\ inJournal = [c \in Conn |-> {}]
             /\ errored = [c \in Conn |-> FALSE]
             /\ at = [c \in Conn |-> "rest"]
             /\ doing = [c \in Conn |-> "none"]
             /\ todo = [c \in Conn |-> {}]
             /\ committed = db
             /\ broken = "none"

\* The client may call the pager; a routine is waiting for a lock that is there.
Resting(c)      == Idle(c) /\ at[c] = "rest"
Reached(c, label) == Idle(c) /\ at[c] = label

Go(c, label) == at' = [at EXCEPT ![c] = label]
Begins(c, routine, label) == Go(c, label) /\ doing' = [doing EXCEPT ![c] = routine]
Rest(c) == Begins(c, "none", "rest")
State(c, s) == pstate' = [pstate EXCEPT ![c] = s]

JournalOpen(c) == opener = c
\* dirtyCache goes up with the first page journalled and down with the journal.
DirtyCache(c) == inJournal[c] # {}

\* pager_wait_on_lock for EXCLUSIVE: nothing to do for a pager that is there.
WaitOnLock(c, label) ==
  IF pstate[c] >= PAGER_EXCLUSIVE
    THEN Go(c, label) /\ UNCHANGED lockVars
    ELSE Go(c, "exclusive") /\ Lock(c, EXCLUSIVE_LOCK)

\* sqlite3OsUnlock to no lock at all, which cannot fail, and PAGER_UNLOCK.
DropLock(c) ==
  /\ State(c, PAGER_UNLOCK)
  /\ IF locktype[c] = NO_LOCK THEN UNCHANGED lockVars ELSE Unlock(c, NO_LOCK)

------------------------------------------------------------------------------
(* sqlite3pager_get on a pager that holds no page: the SHARED lock, the     *)
(* search for a hot journal, its playback, the page.                        *)

GetShared(c) ==
  /\ Resting(c)
  /\ ~held[c] /\ ~errored[c]
  /\ Lock(c, SHARED_LOCK)
  /\ Begins(c, "get", "share")
  /\ UNCHANGED <<fileVars, cacheVars, history, pstate, errored, todo>>

GotShared(c) ==
  /\ Reached(c, "share")
  /\ \/ rc[c] = "ok" /\ State(c, PAGER_SHARED) /\ Go(c, "look")
        /\ UNCHANGED <<lockVars, doing>>
     \/ rc[c] = "busy" /\ Rest(c) /\ UNCHANGED <<lockVars, pstate>>
     \/ rc[c] = "busy" /\ Lock(c, SHARED_LOCK) /\ UNCHANGED <<pstate, at, doing>>
  /\ UNCHANGED <<fileVars, cacheVars, history, errored, todo>>

\* hasHotJournal: does the file exist, and if it does, is there a RESERVED lock.
HasHotJournal(c) ==
  /\ Reached(c, "look")
  /\ \/ ~journal.exists /\ Go(c, "fetch") /\ UNCHANGED lockVars
     \/ journal.exists /\ CheckReserved(c) /\ Go(c, "probed")
  /\ UNCHANGED <<fileVars, cacheVars, history, pstate, errored, doing, todo>>

\* A hot journal asks for EXCLUSIVE, once, and without RESERVED.
Probed(c) ==
  /\ Reached(c, "probed")
  /\ \/ rc[c] = "held" /\ Go(c, "fetch") /\ UNCHANGED lockVars
     \/ rc[c] = "free" /\ Lock(c, EXCLUSIVE_LOCK) /\ Go(c, "hotlock")
  /\ UNCHANGED <<fileVars, cacheVars, history, pstate, errored, doing, todo>>

\* Mutant: the handle that does not get EXCLUSIVE keeps its lock.
HotLockedKept(c) ==
  /\ Reached(c, "hotlock")
  /\ \/ rc[c] = "ok" /\ State(c, PAGER_EXCLUSIVE) /\ Go(c, "hotopen")
        /\ UNCHANGED lockVars
     \/ rc[c] = "busy" /\ State(c, PAGER_UNLOCK) /\ Go(c, "drop")
        /\ UNCHANGED lockVars
  /\ UNCHANGED <<fileVars, cacheVars, history, errored, doing, todo>>

HotLocked(c) ==
  /\ Reached(c, "hotlock")
  /\ \/ rc[c] = "ok" /\ State(c, PAGER_EXCLUSIVE) /\ Go(c, "hotopen")
        /\ UNCHANGED lockVars
     \/ rc[c] = "busy" /\ DropLock(c) /\ Go(c, "drop")
  /\ UNCHANGED <<fileVars, cacheVars, history, errored, doing, todo>>

\* Mutant: the header's count is not looked at.
OpenHotJournalUncounted(c) ==
  /\ Reached(c, "hotopen")
  /\ journal.exists /\ opener = Nobody
  /\ opener' = c
  /\ todo' = [todo EXCEPT ![c] = Page]
  /\ Go(c, "playback")
  /\ UNCHANGED <<lockVars, pstate, db, journal, cacheVars, history, errored, doing>>

\* The journal is opened for one handle alone: no other can open or delete it.
OpenHotJournal(c) ==
  /\ Reached(c, "hotopen")
  /\ \/ /\ journal.exists /\ opener = Nobody
        /\ opener' = c
        /\ todo' = [todo EXCEPT ![c] = journal.counted]
        /\ Go(c, "playback")
        /\ UNCHANGED <<lockVars, pstate>>
     \/ /\ ~journal.exists \/ opener # Nobody
        /\ DropLock(c)
        /\ Go(c, "drop")
        /\ UNCHANGED <<opener, todo>>
  /\ UNCHANGED <<db, journal, cacheVars, history, errored, doing>>

\* The page is read from the file; with it the client holds a page.
Fetch(c, p) ==
  /\ \/ Reached(c, "fetch") /\ p = Page1 /\ Rest(c)
     \/ Resting(c) /\ held[c] /\ ~errored[c] /\ UNCHANGED <<at, doing>>
  /\ cache[c][p] = NoPage
  /\ cache' = [cache EXCEPT ![c][p] = db[p]]
  /\ held' = [held EXCEPT ![c] = TRUE]
  /\ UNCHANGED <<lockVars, fileVars, history, pstate, errored, todo, dirty, inJournal>>

------------------------------------------------------------------------------
(* sqlite3pager_begin, pager_open_journal, sqlite3pager_write.              *)

\* In any other state sqlite3pager_begin does nothing and returns SQLITE_OK, which is
\* not a step; so it does for a pager that lost its lock when it could not create its
\* journal, and holds pages still (PAGER_UNLOCK).
Begin(c) ==
  /\ Resting(c)
  /\ held[c] /\ pstate[c] = PAGER_SHARED
  /\ Lock(c, RESERVED_LOCK)
  /\ Begins(c, "begin", "reserve")
  /\ UNCHANGED <<fileVars, cacheVars, history, pstate, errored, todo>>

\* exFlag asks for EXCLUSIVE at once.
GotReserved(c) ==
  /\ Reached(c, "reserve")
  /\ \/ rc[c] = "busy" /\ Rest(c) /\ UNCHANGED <<lockVars, pstate>>
     \/ rc[c] = "ok" /\ State(c, PAGER_RESERVED) /\ Go(c, "create")
        /\ UNCHANGED <<lockVars, doing>>
     \/ rc[c] = "ok" /\ State(c, PAGER_RESERVED) /\ Go(c, "exclusive")
        /\ Lock(c, EXCLUSIVE_LOCK) /\ UNCHANGED doing
  /\ UNCHANGED <<fileVars, cacheVars, history, errored, todo>>

\* Mutant: the result of the lock is not tested.
GotExclusiveUntested(c) ==
  /\ Reached(c, "exclusive")
  /\ State(c, PAGER_EXCLUSIVE)
  /\ Go(c, IF doing[c] = "begin" THEN "create" ELSE "store")
  /\ UNCHANGED <<lockVars, doing, todo, fileVars, cacheVars, history, errored>>

\* The busy handler tries again or gives up; a pager that gave up keeps RESERVED.
GotExclusive(c) ==
  /\ Reached(c, "exclusive")
  /\ \/ /\ rc[c] = "ok"
        /\ State(c, PAGER_EXCLUSIVE)
        /\ Go(c, IF doing[c] = "begin" THEN "create" ELSE "store")
        /\ UNCHANGED <<lockVars, doing, todo>>
     \/ /\ rc[c] = "busy"
        /\ Lock(c, EXCLUSIVE_LOCK)
        /\ UNCHANGED <<pstate, at, doing, todo>>
     \/ /\ rc[c] = "busy"
        /\ Rest(c)
        /\ todo' = [todo EXCEPT ![c] = {}]
        /\ UNCHANGED <<lockVars, pstate>>
  /\ UNCHANGED <<fileVars, cacheVars, history, errored>>

\* CREATE_ALWAYS with share mode 0.  On failure the pager lets go of every lock;
\* a pager with an error set does so after it made the file, which it keeps open.
OpenJournal(c) ==
  /\ Reached(c, "create")
  /\ \/ /\ opener = Nobody
        /\ opener' = c
        /\ journal' = EmptyJournal
        /\ IF errored[c] THEN DropLock(c) /\ Go(c, "drop") /\ UNCHANGED doing
           ELSE Rest(c) /\ UNCHANGED <<lockVars, pstate>>
     \/ /\ opener # Nobody \/ c \in JournalFails
        /\ DropLock(c)
        /\ Go(c, "drop")
        /\ UNCHANGED <<opener, journal, doing>>
  /\ UNCHANGED <<db, cacheVars, history, errored, todo>>

\* A transaction without a journal opens it with its first write: one that has RESERVED,
\* and one that has no lock at all, against the assertions of sqlite3pager_write and
\* pager_open_journal, which the build leaves out.
LateJournal(c) ==
  /\ Resting(c)
  /\ held[c] /\ ~errored[c]
  /\ pstate[c] # PAGER_SHARED /\ opener # c
  /\ Begins(c, "begin", "create")
  /\ broken' = IF pstate[c] = PAGER_UNLOCK /\ broken # "stray" THEN "unlocked" ELSE broken
  /\ UNCHANGED <<lockVars, fileVars, cacheVars, committed, pstate, errored, todo>>

\* The original goes to the journal, the change to the cache.
Change(c, p) ==
  /\ cache[c][p] \in 0..MaxVersion - 1
  /\ cache' = [cache EXCEPT ![c][p] = @ + 1]
  /\ dirty' = [dirty EXCEPT ![c] = @ \cup {p}]
  /\ inJournal' = [inJournal EXCEPT ![c] = @ \cup {p}]
  /\ journal' = IF p \in inJournal[c] THEN journal
                ELSE [journal EXCEPT !.orig[p] = cache[c][p]]

Write(c, p) ==
  /\ Resting(c)
  /\ held[c] /\ ~errored[c]
  /\ pstate[c] \notin {PAGER_SHARED, PAGER_SYNCED} /\ JournalOpen(c)
  /\ Change(c, p)
  /\ UNCHANGED <<lockVars, db, opener, held, stepVars, history>>

------------------------------------------------------------------------------
(* sqlite3pager_commit with sqlite3pager_sync; pager_recycle.               *)

\* Mutant: the change counter stays.
CommitUnnumbered(c) ==
  /\ Resting(c)
  /\ held[c] /\ ~errored[c]
  /\ pstate[c] >= PAGER_RESERVED
  /\ DirtyCache(c)
  /\ todo' = [todo EXCEPT ![c] = dirty[c]]
  /\ Begins(c, "commit", "sync")
  /\ UNCHANGED <<lockVars, fileVars, cacheVars, pstate, errored, history>>

\* The change counter goes up, which journals and dirties page 1.  The B-tree calls
\* sqlite3pager_sync first, which does not ask for the state: with changes and no lock
\* it does the same, and with neither the commit is refused and nothing happens.
Commit(c) ==
  /\ Resting(c)
  /\ held[c] /\ ~errored[c]
  /\ pstate[c] >= PAGER_RESERVED \/ (pstate[c] = PAGER_UNLOCK /\ DirtyCache(c))
  /\ \/ /\ ~DirtyCache(c)
        /\ Begins(c, "quit", "close")
        /\ UNCHANGED <<cache, dirty, inJournal, journal, todo>>
     \/ /\ DirtyCache(c)
        /\ Change(c, Page1)
        /\ todo' = [todo EXCEPT ![c] = dirty[c] \cup {Page1}]
        /\ Begins(c, "commit", "sync")
  /\ UNCHANGED <<lockVars, db, opener, held, pstate, errored, history>>

\* A page to make room for another: a clean one goes, a dirty one is stored first,
\* and the journal is synced before that when the page was not yet counted in it.
\* The b-tree never lets go of page 1.
Recycle(c, p) ==
  /\ Resting(c)
  /\ held[c] /\ ~errored[c]
  /\ p # Page1 /\ cache[c][p] # NoPage
  /\ \/ /\ p \notin dirty[c]
        /\ cache' = [cache EXCEPT ![c][p] = NoPage]
        /\ UNCHANGED <<lockVars, at, doing, todo>>
     \/ /\ p \in dirty[c]
        /\ todo' = [todo EXCEPT ![c] = {p}]
        /\ doing' = [doing EXCEPT ![c] = "recycle"]
        /\ IF p \in journal.counted THEN WaitOnLock(c, "store")
           ELSE Go(c, "sync") /\ UNCHANGED lockVars
        /\ UNCHANGED cache
  /\ UNCHANGED <<fileVars, history, held, dirty, inJournal, pstate, errored>>

\* Mutant: nRec is not written.
SyncJournalUncounted(c) ==
  /\ Reached(c, "sync")
  /\ WaitOnLock(c, "store")
  /\ UNCHANGED <<fileVars, cacheVars, history, pstate, errored, doing, todo>>

\* syncJournal: the header now counts every page journalled so far.
SyncJournal(c) ==
  /\ Reached(c, "sync")
  /\ journal' = [journal EXCEPT !.counted = inJournal[c]]
  /\ WaitOnLock(c, "store")
  /\ UNCHANGED <<db, opener, cacheVars, history, pstate, errored, doing, todo>>

\* pager_write_pagelist, one page at a time; a recycled page then leaves the cache.
StorePage(c, p) ==
  /\ Reached(c, "store")
  /\ p \in todo[c]
  /\ db' = [db EXCEPT ![p] = cache[c][p]]
  /\ dirty' = [dirty EXCEPT ![c] = @ \ {p}]
  /\ todo' = [todo EXCEPT ![c] = @ \ {p}]
  /\ cache' = IF doing[c] = "recycle" THEN [cache EXCEPT ![c][p] = NoPage] ELSE cache
  /\ UNCHANGED <<lockVars, journal, opener, held, inJournal, history,
                 pstate, errored, at, doing>>

Stored(c) ==
  /\ Reached(c, "store")
  /\ todo[c] = {}
  /\ IF doing[c] = "recycle" THEN Rest(c) /\ UNCHANGED pstate
     ELSE State(c, PAGER_SYNCED) /\ Go(c, "close") /\ UNCHANGED doing
  /\ UNCHANGED <<lockVars, fileVars, cacheVars, history, errored, todo>>

------------------------------------------------------------------------------
(* pager_playback and pager_unwritelock.                                    *)

\* Only the pages that the header counts are played back, to the file by a pager that
\* is at EXCLUSIVE and to the cache in any case.
PlaybackPage(c, p) ==
  /\ Reached(c, "playback")
  /\ p \in todo[c]
  /\ IF pstate[c] >= PAGER_EXCLUSIVE
       THEN /\ db' = [db EXCEPT ![p] = journal.orig[p]]
            /\ dirty' = [dirty EXCEPT ![c] = @ \ {p}]
       ELSE UNCHANGED <<db, dirty>>
  /\ cache' = IF cache[c][p] = NoPage THEN cache
              ELSE [cache EXCEPT ![c][p] = journal.orig[p]]
  /\ todo' = [todo EXCEPT ![c] = @ \ {p}]
  /\ UNCHANGED <<lockVars, journal, opener, held, inJournal, history,
                 pstate, errored, at, doing>>

\* pager_unwritelock returns at once when there is no write lock.
PlayedBack(c) ==
  /\ Reached(c, "playback")
  /\ todo[c] = {}
  /\ IF pstate[c] >= PAGER_RESERVED THEN Go(c, "close") /\ UNCHANGED doing ELSE Rest(c)
  /\ UNCHANGED <<lockVars, fileVars, cacheVars, history, pstate, errored, todo>>

CloseJournal(c) ==
  /\ Reached(c, "close")
  /\ \/ JournalOpen(c) /\ opener' = Nobody /\ Go(c, "delete") /\ UNCHANGED lockVars
     \/ ~JournalOpen(c) /\ Unlock(c, SHARED_LOCK) /\ Go(c, "unlock") /\ UNCHANGED opener
  /\ UNCHANGED <<db, journal, cacheVars, history, pstate, errored, doing, todo>>

\* sqlite3OsDelete does not tell whether it deleted: a file that is open stays.  The
\* transaction is committed here.
DeleteJournal(c) ==
  /\ Reached(c, "delete")
  /\ journal' = IF opener = Nobody THEN NoJournal ELSE journal
  /\ committed' = IF doing[c] = "commit" THEN db ELSE committed
  /\ dirty' = [dirty EXCEPT ![c] = {}]
  /\ inJournal' = [inJournal EXCEPT ![c] = {}]
  /\ Unlock(c, SHARED_LOCK)
  /\ Go(c, "unlock")
  /\ UNCHANGED <<db, opener, held, cache, broken, pstate, errored, doing, todo>>

\* A failure to come down to SHARED is kept as the pager's error, but not when it
\* ends a commit or a transaction that changed nothing.
Unlocked(c) ==
  /\ Reached(c, "unlock")
  /\ errored' = [errored EXCEPT ![c] = @ \/ /\ rc[c] = "ioerr"
                                            /\ doing[c] \notin {"commit", "quit", "leave"}]
  /\ CASE doing[c] = "get" /\ rc[c] # "ioerr" ->
            State(c, PAGER_SHARED) /\ Go(c, "fetch") /\ UNCHANGED <<lockVars, doing>>
       [] doing[c] \in {"reset", "leave", "shut"} ->
            DropLock(c) /\ Go(c, "drop") /\ UNCHANGED doing
       [] OTHER ->
            State(c, PAGER_SHARED) /\ Rest(c) /\ UNCHANGED lockVars
  /\ UNCHANGED <<fileVars, cacheVars, history, todo>>

------------------------------------------------------------------------------
(* sqlite3pager_rollback, pager_reset and sqlite3pager_close.               *)

\* Which routine it is when there is nothing to undo.
Unchanged(routine) == CASE routine = "rollback" -> "quit"
                        [] routine = "reset"    -> "leave"
                        [] OTHER                -> routine

\* From RESERVED the changed pages are read again; from any other state the journal is
\* played back.
Undo(c, routine) ==
  \/ /\ ~DirtyCache(c) \/ ~JournalOpen(c)
     /\ Begins(c, Unchanged(routine), "close")
     /\ UNCHANGED todo
  \/ /\ DirtyCache(c) /\ JournalOpen(c)
     /\ pstate[c] = PAGER_RESERVED
     /\ Begins(c, routine, "close")
     /\ UNCHANGED todo
  \/ /\ DirtyCache(c) /\ JournalOpen(c)
     /\ pstate[c] # PAGER_RESERVED
     /\ Begins(c, routine, "playback")
     /\ todo' = [todo EXCEPT ![c] = journal.counted]

\* Known flaw: a pager that opened its journal with no lock cannot end its transaction.
\* pager_unwritelock and pager_reset leave the journal open and aInJournal as it is, and
\* what this pager does next with them is not modelled.
Strays(c) == pstate[c] = PAGER_UNLOCK /\ JournalOpen(c)

\* Mutant: the changed pages are not read again.
RollbackUnread(c) ==
  /\ Resting(c)
  /\ held[c]
  /\ pstate[c] >= PAGER_RESERVED
  /\ Undo(c, "rollback")
  /\ UNCHANGED <<lockVars, fileVars, cacheVars, history, pstate, errored>>

Rollback(c) ==
  /\ Resting(c)
  /\ held[c]
  /\ pstate[c] >= PAGER_RESERVED \/ (Strays(c) /\ DirtyCache(c))
  /\ Undo(c, "rollback")
  /\ IF pstate[c] = PAGER_RESERVED
       THEN /\ cache' = [cache EXCEPT ![c] =
                           [p \in Page |-> IF p \in dirty[c] THEN db[p] ELSE @[p]]]
            /\ dirty' = [dirty EXCEPT ![c] = {}]
            /\ UNCHANGED broken
       ELSE /\ broken' = IF Strays(c) THEN "stray"
                         ELSE IF broken = "none" /\ ~(dirty[c] \subseteq journal.counted)
                         THEN "unreverted" ELSE broken
            /\ UNCHANGED <<cache, dirty>>
  /\ UNCHANGED <<lockVars, fileVars, held, inJournal, committed, pstate, errored>>

\* The cache is emptied, an open transaction rolled back, the lock dropped; what lock a
\* pager in PAGER_UNLOCK still has goes when the file is closed.
LetGo(c, routine) ==
  /\ held' = [held EXCEPT ![c] = FALSE]
  /\ cache' = [cache EXCEPT ![c] = EmptyCache]
  /\ dirty' = [dirty EXCEPT ![c] = {}]
  /\ IF pstate[c] >= PAGER_RESERVED
       THEN Undo(c, routine) /\ UNCHANGED <<lockVars, pstate>>
       ELSE /\ IF routine = "shut" /\ pstate[c] = PAGER_UNLOCK
                 THEN UNCHANGED <<lockVars, pstate>> ELSE DropLock(c)
            /\ Begins(c, routine, "drop")
            /\ UNCHANGED todo

\* The client lets go of its last page.  With an error set nothing else happens.
Reset(c) ==
  /\ Resting(c)
  /\ held[c]
  /\ \/ /\ ~errored[c]
        /\ LetGo(c, "reset")
        /\ broken' = IF Strays(c) THEN "stray" ELSE broken
     \/ /\ errored[c]
        /\ held' = [held EXCEPT ![c] = FALSE]
        /\ UNCHANGED <<lockVars, cache, dirty, pstate, at, doing, todo, broken>>
  /\ UNCHANGED <<fileVars, inJournal, errored, committed>>

\* The client closes the pager, whatever it holds.
Shut(c) ==
  /\ Resting(c)
  /\ LetGo(c, "shut")
  /\ UNCHANGED <<fileVars, inJournal, errored, history>>

\* Nothing of the pager's memory is left.
Forget(c) == /\ held' = [held EXCEPT ![c] = FALSE]
             /\ cache' = [cache EXCEPT ![c] = EmptyCache]
             /\ dirty' = [dirty EXCEPT ![c] = {}]
             /\ inJournal' = [inJournal EXCEPT ![c] = {}]
             /\ pstate' = [pstate EXCEPT ![c] = PAGER_UNLOCK]
             /\ errored' = [errored EXCEPT ![c] = FALSE]
             /\ todo' = [todo EXCEPT ![c] = {}]
             /\ opener' = IF opener = c THEN Nobody ELSE opener
             /\ Rest(c)

Dropped(c) ==
  /\ Reached(c, "drop")
  /\ \/ /\ doing[c] = "shut"
        /\ Close(c)
        /\ Forget(c)
     \/ /\ doing[c] # "shut"
        /\ Rest(c)
        /\ UNCHANGED <<lockVars, cacheVars, opener, pstate, errored, todo>>
  /\ UNCHANGED <<db, journal, history>>

------------------------------------------------------------------------------
(* The processes, the byte-lock calls, and what is known to go wrong.       *)

Start(c) == Open(c) /\ UNCHANGED pagerVars

\* Known flaw: the byte lock a handle takes to look whether there is a RESERVED lock
\* looks like one to a second handle that looks at the same time; the second reads a
\* database that needs recovery.
Misled(c) == pc[c] = "probe" /\ ~ReservedFree /\ \E d \in Conn : pc[d] = "unprobe"

\* Known flaw: a handle can hold pages with no lock left that keeps a writer out.
Covered(c) == Reading(c) \/ local[c].bReserved \/ local[c].bExclusive
Exposes(c) == /\ pc[c] = "lockExclusive" /\ ExclusiveFree
              /\ \E d \in Conn \ {c} : held[d] /\ ~Covered(d)

Die1(c) == /\ Die(c)
           /\ Forget(c)
           /\ broken' = IF broken = "none" /\ pc[c] = "unprobe" THEN "misled" ELSE broken
           /\ UNCHANGED <<db, journal, committed>>

LockCall(c) ==
  /\ LockStep(c)
  /\ broken' = IF broken # "none" THEN broken
               ELSE IF Misled(c) THEN "misled"
               ELSE IF Exposes(c) THEN "uncovered"
               ELSE "none"
  /\ UNCHANGED <<fileVars, cacheVars, stepVars, committed>>

PagerStep(c) ==
  \/ GetShared(c)    \/ GotShared(c)   \/ HasHotJournal(c)  \/ Probed(c)
  \/ HotLocked(c)    \/ OpenHotJournal(c)
  \/ Begin(c)        \/ GotReserved(c) \/ GotExclusive(c)
  \/ OpenJournal(c)  \/ LateJournal(c)
  \/ Commit(c)       \/ SyncJournal(c) \/ Stored(c)
  \/ PlayedBack(c)   \/ CloseJournal(c) \/ DeleteJournal(c) \/ Unlocked(c)
  \/ Rollback(c)     \/ Reset(c)       \/ Shut(c)           \/ Dropped(c)
  \/ \E p \in Page : \/ Fetch(c, p)     \/ Write(c, p)    \/ Recycle(c, p)
                     \/ StorePage(c, p) \/ PlaybackPage(c, p)

PagerNext == \E c \in Conn : Start(c) \/ Die1(c) \/ LockCall(c) \/ PagerStep(c)

PagerSpec == PagerInit /\ [][PagerNext]_vars

------------------------------------------------------------------------------
(* Properties. *)

Version == 0..MaxVersion

\* Where each pager is, and what it believes of its lock and its journal.
StepTypeOK ==
  /\ opener \in Conn \cup {Nobody}
  /\ pstate \in [Conn -> {PAGER_UNLOCK, PAGER_SHARED, PAGER_RESERVED,
                          PAGER_EXCLUSIVE, PAGER_SYNCED}]
  /\ dirty \in [Conn -> SUBSET Page]
  /\ inJournal \in [Conn -> SUBSET Page]
  /\ at \in [Conn -> {"rest", "share", "look", "probed", "hotlock", "hotopen",
                      "fetch", "reserve", "exclusive", "create", "sync", "store",
                      "playback", "close", "delete", "unlock", "drop"}]
  /\ doing \in [Conn -> {"none", "get", "begin", "commit", "recycle", "rollback",
                         "quit", "reset", "leave", "shut"}]

PagerTypeOK ==
  /\ StepTypeOK
  /\ db \in [Page -> Version]
  /\ journal \in [exists : BOOLEAN, orig : [Page -> Version \cup {NoPage}],
                  counted : SUBSET Page]
  /\ held \in [Conn -> BOOLEAN]
  /\ cache \in [Conn -> [Page -> Version \cup {NoPage}]]
  /\ errored \in [Conn -> BOOLEAN]
  /\ todo \in [Conn -> SUBSET Page]
  /\ committed \in [Page -> Version]
  /\ broken \in {"none", "misled", "uncovered", "unreverted", "unlocked", "stray"}

(* The inductive invariant behind OnlyExclusiveStores: how the two automata, *)
(* the lock routine's and the pager's, stay in step.                         *)

\* A pager asks for EXCLUSIVE, and its routine either still runs or has answered.
Asking(c) == \/ want[c] = EXCLUSIVE_LOCK /\ pc[c] \in {"lockPending", "dropRead",
                                                      "lockExclusive"}
             \/ pc[c] = "idle" /\ (rc[c] = "ok" => locktype[c] = EXCLUSIVE_LOCK)

StateBacked(c) ==
  /\ c \notin mapped => at[c] = "rest" /\ pstate[c] = PAGER_UNLOCK /\ ~JournalOpen(c)
  /\ pc[c] # "idle" => at[c] \in {"share", "probed", "hotlock", "reserve", "exclusive",
                                 "unlock", "drop"}
  /\ at[c] \in {"hotlock", "exclusive"} => Asking(c)
  /\ pstate[c] >= PAGER_EXCLUSIVE /\ at[c] # "unlock" =>
       locktype[c] = EXCLUSIVE_LOCK /\ pc[c] = "idle"
  /\ at[c] \in {"hotopen", "store"} => pstate[c] >= PAGER_EXCLUSIVE
  /\ at[c] = "playback" => pstate[c] >= PAGER_EXCLUSIVE \/ pstate[c] = PAGER_UNLOCK

JournalBacked(c) ==
  /\ at[c] = "reserve" => doing[c] = "begin"
  /\ at[c] \in {"sync", "store", "playback"} => JournalOpen(c)
  /\ at[c] = "exclusive" /\ doing[c] # "begin" => JournalOpen(c)
  /\ dirty[c] # {} \/ inJournal[c] # {} => JournalOpen(c) \/ at[c] = "delete"

\* A pager that believes in EXCLUSIVE has it, except while it gives it up; it writes
\* the database only then, and never without its journal open.
StoreInv == LockInv /\ StepTypeOK /\ \A c \in Conn : StateBacked(c) /\ JournalBacked(c)

\* No request of the pager is one that winLock and winUnlock are not made for: whenever a
\* routine comes to ask, the level the handle has is the one it must be asked from, after
\* refused, half-done and given up requests too.  Of the assertions of winLock
\* (os_win.c:1052-1056), it breaks none until a pager goes on without its lock; then the
\* first one, NO_LOCK to EXCLUSIVE.
WantsExclusive(c) == \/ Resting(c) /\ dirty[c] # {} /\ pstate[c] < PAGER_EXCLUSIVE
                     \/ Reached(c, "sync") /\ pstate[c] < PAGER_EXCLUSIVE
                     \/ Reached(c, "reserve") /\ rc[c] = "ok"
                     \/ Reached(c, "exclusive") /\ rc[c] = "busy"

LegalCalls ==
  \A c \in Conn :
    /\ \/ Resting(c) /\ ~held[c] /\ ~errored[c]
       \/ Reached(c, "share") /\ rc[c] = "busy"
       => locktype[c] = NO_LOCK
    /\ \/ Reached(c, "look") \/ Reached(c, "probed")
       \/ Resting(c) /\ held[c] /\ pstate[c] = PAGER_SHARED
       => locktype[c] = SHARED_LOCK
    /\ WantsExclusive(c) =>
         locktype[c] \in {RESERVED_LOCK, PENDING_LOCK}
           \cup IF broken = "unlocked" THEN {NO_LOCK} ELSE {}
    /\ Reached(c, "close") \/ Reached(c, "delete") => locktype[c] >= RESERVED_LOCK

\* What a recovery would make of the files now.
Recovered == [p \in Page |-> IF p \in journal.counted THEN journal.orig[p] ELSE db[p]]

\* Whatever dies whenever, the files can be brought back to the last commit: every
\* page that differs from it has its original in the journal, counted.
Recoverable == broken = "none" => Recovered = committed

\* A client never sees anything but the last commit and its own changes: no page of
\* an older or a half-written state is in the cache of a pager that serves pages.
Snapshot ==
  broken = "none" =>
    \A c \in Conn : held[c] /\ ~errored[c] =>
      \A p \in Page \ inJournal[c] : cache[c][p] \in {NoPage, committed[p]}

\* No update is lost: a commit builds on the commit before it.
CounterGrows ==
  [][committed' # committed /\ broken = "none" =>
       /\ \A p \in Page : committed'[p] >= committed[p]
       /\ committed'[Page1] > committed[Page1]]_vars

\* The database file is written by the holder of the whole lock range, while nobody
\* else has a read lock or thinks to write: not before the lock is there, not after
\* it is given up.  (pager.c:84-87)
OnlyExclusiveStores ==
  [][db' # db =>
       \E c \in mapped : /\ local[c].bExclusive
                        /\ pstate[c] >= PAGER_EXCLUSIVE /\ JournalOpen(c)
                        /\ \A d \in mapped \ {c} : ~Reading(d) /\ ~local[d].bExclusive]_vars

\* pager.c:2543-2556: a journal without a RESERVED lock is played back or deleted
\* before a page is read, and a second process "will get to this point in the code
\* and fail to obtain it's own EXCLUSIVE lock".
NoReadBeforeRecovery == \A c \in mapped : at[c] = "fetch" => Recovered = db

\* A client whose pager serves pages, and what it sees: the pages in memory over the
\* file, or the last commit once it rolls back.
InSession(c) == held[c] /\ ~errored[c]

Sight(c) == IF InSession(c) /\ doing[c] # "rollback"
              THEN [p \in Page |-> IF cache[c][p] = NoPage THEN db[p] ELSE cache[c][p]]
              ELSE Recovered

Sessions == {c \in Conn : InSession(c)}
Sights   == [c \in Conn |-> Sight(c)]

Atomic == INSTANCE AtomicFile
            WITH Client <- Conn, content <- Recovered, open <- Sessions, view <- Sights,
                 sound <- broken = "none"

\* As long as no known flaw came to harm, a database file is for its clients one value
\* that changes in one step: through spills and recoveries, deaths and refused locks,
\* what a recovery would make of the files changes only when a commit deletes its
\* journal, to what that client saw, and while no other holds a page.
ImplementsAtomicFile == Atomic!Spec
==============================================================================
