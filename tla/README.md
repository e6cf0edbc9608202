# Verification of SQLite for Windows CE, and of 7-Zip's match finder

TLA+ modules, TLC runs and TLAPS proofs for two parts of the repository: the port of SQLite 3.3 to
Windows CE under `src/SQLite3ForWinCE`, and the multithreaded match finder of 7-Zip,
`src/7-Zip/C/LzFindMt.c`. The repository is a collection of ten source trees; most are vendored
libraries whose work is computation over buffers (codecs, rasterising, text layout, dialogs). These
two are the places where correctness is a protocol. In SQLite several processes share a database
file with nothing between them but byte locks, a journal file and the order of their writes, and
several connections of one thread share a page cache. In the match finder three threads pass blocks
through two rings, with flags that no lock protects, and are stopped and started again.

## Inventory

| component | code | state | operations | what makes it correct |
|---|---|---|---|---|
| CE byte locks | `os_win.c` 45-470 | the shared mapping `winceLock`, each handle's private copy | create, destroy, lock and unlock of four byte ranges, death of a process | both copies agree; the locks exclude each other |
| file lock | `os_win.c` 948-1201, `os.h` 176-212 | `winFile.locktype` | `winLock`, `winUnlock`, `winCheckReservedLock` | a level is backed by bytes; no two at RESERVED or at EXCLUSIVE; a waiting writer is not starved |
| pager | `pager.c` | `Pager.state`, cache, `dirty`, `aInJournal`, `errCode`; the database and journal files | get, begin, write, commit, rollback, recycle, hot-journal recovery, reset, close | atomic and isolated transactions whatever dies when |
| journal format | `pager.c` 550-830, 948-1040, 1225-1345, 2152-2224 | headers, `nRec`, checksums, what is synced | write and read of headers and records, sync, playback | what a power failure leaves is recognised, and is enough |
| statement journal | `pager.c` 1359-1457, 3400-3508 | `aInStmt`, `stmtNRec`, `stmtHdrOff` | begin, commit, rollback of a statement | a failed statement is undone and the main journal stays right |
| free-list hints | `pager.c` 3150-3206, `btree.c` 3780-3952 | `alwaysRollback`, `aInJournal` | `dont_write`, `dont_rollback` | no page that is needed is left out of the file or the journal |
| multi-file commit | `vdbeaux.c` 938-1118, `pager.c` 740-777, 1052-1125, `main.c` 186-205 | master journal, `Pager.setMaster`, the name in each journal | commit, retry after BUSY, rollback, recovery of each file and of the master | all files or none |
| shared cache | `btree.c` 618-760, 1600-2703, `vdbeaux.c` 1127-1325, `vdbe.c` 2291-2638 | `BtShared`, `BtLock`, `Btree.inTrans`, `autoCommit`, the active statements | lock a table, begin, commit, roll back, abort | one writer, no reader of an uncommitted table, right counts |
| match finder | `LzFindMt.c`, `LzFindMt.h` | `CMtSync` of two links: flags, events, semaphores, counts; two rings | get a block, stop, restart, create, destruct; two threads | each block once and in order; a stop leaves nothing behind; no call hangs |
| B-tree | `btree.c` | pages, cursors | insert, delete, balance | order and free list |
| busy handler | `main.c` 252-306 | `nBusy`, timeout | wait or give up | no wait beyond the timeout |
| SQL compiler and VM | `vdbe.c`, `parse.c`, `select.c`, ... | programs, registers | prepare, step | not a protocol, save where statements begin and end |
| C++ Sockets Library | its own tree | sockets, events, resolver threads | select loop | not modelled yet |
| the rest | 7-Zip's codecs and dialogs, AGG, CXImage, CXImageCE, FBReader, FBReaderJ, FingerSuite, SQLCEHelper | - | - | not modelled: computation, user interface, wrappers |

How they interact. The VM calls the B-tree, the B-tree the pager, the pager `sqlite3OsLock`,
`sqlite3OsUnlock`, `sqlite3OsCheckReservedLock` and file operations; a process knows of another
only what it finds in the byte locks, in the existence of the journal file and in the two files'
content. A connection with several attached databases has a pager for each; `vdbeCommit` ties them
together with a master journal that lists their journals and whose name each of these holds, and
the recovery of one file looks at the journals of the others (`pager_delmaster`). Several
connections of one thread may have one `BtShared`, and so one pager, between them; then the end of
a statement of one (`sqlite3VdbeHalt`) finds the others in the middle of theirs. The encoder
of 7-Zip (`LzmaEnc.c`) calls the match finder for a block of matches, and its two threads call
`MtSync_GetNextBlock` and `MtSync_StopWriting` on each other. What is hard:

- every byte-lock call is atomic (a named mutex), and nothing larger is: `winLock` makes up to
  three of them, `winUnlock` four, a look for a hot journal two and a half;
- a failed upgrade to EXCLUSIVE leaves a handle with *less* than it had;
- a process may die between any two operations; the system then closes its files, releases
  its mutex, and leaves its locks in the shared mapping for as long as anybody has it open;
- a power failure keeps any part of what was not synced, and may bring a removed file back;
- every operation that is refused may be tried again or given up;
- a commit of several files is decided by the deletion of one file, and whether another file's
  journal is hot changes with it;
- one flag, `BtShared.inStmt`, serves the statements of all connections on a cache;
- the flags of `CMtSync` are read by one thread while another writes them, and the count of
  blocks is overwritten by the writer while the reader counts towards it.

`PROJECT.json` lists the hazards by line, with the properties that cover each.

## Modules

    ByteLocks        what byte locks promise (abstract)
      ^ implements
    WinceLock        the CE emulation: shared mapping + private copies
      ^ extends
    WinLock          winLock, winUnlock, winCheckReservedLock, call by call
      ^ extends
    Pager            the pagers of several connections, their two files, on top of WinLock
      v implements
    AtomicFile       what the clients see of one file: a value that changes in one step (abstract)

    AtomicCommit     all files of a transaction change at once, or none (abstract)
      ^ implements
    MultiCommit      vdbeCommit, the master journal, recovery of each file

    Journal          one pager's journal, statement journal and file over a disk that loses power
    SharedCache      connections of one thread on one page cache
    LzFindMt         the two threads and the client of 7-Zip's match finder

    MCWinLock, MCPager, MCMultiCommit,
    MCJournal, MCSharedCache, MCLzFindMt         model-checking definitions
    WinLockProofs (with those of WinceLock),
    PagerProofs, PagerDataProofs, JournalProofs,
    JournalDataProofs, MultiCommitProofs,
    SharedCacheProofs, LzFindMtProofs            theorems

`Pager` and `Journal` divide `pager.c` between them. `Pager` has several processes, locks and
interleavings, and a file of fixed size whose writes stay written. `Journal` has one writer, and
everything that happens to the content: growth, several headers, counts and checksums, statements,
free pages, the order of syncs, and what a power failure makes of it. `MultiCommit` has several
files and `SharedCache` several connections of one process.

**WinceLock.** `shared` is the mapping, `local[c]` is `winFile.local`, `mapped` are the handles
that have the mapping open. One action per critical section of the mutex: `CreateLock`,
`DestroyLock`, and a `Lock...` and `Unlock...` action for each branch of `winceLockFile` and
`winceUnlockFile`. `Crash` removes the handle and leaves `shared` as it is; the history variable
`leaked` remembers what stayed behind. When the last handle is gone the mapping disappears, and
the next `CreateLock` zeroes a new one.

**WinLock.** `pc[c]` is the place of a handle inside a routine: one label per byte-lock call.
`want` is the argument, `tries` the countdown on the PENDING byte, `rc` the result (`res` while
the routine runs). A request for a level that is there already returns at once and is not a step.
`LegalRequest` is the union of what the callers of `winLock` ask for. One of these breaks an
assertion (1052) that the build leaves out: NO_LOCK to EXCLUSIVE, of a pager that lost its lock and
writes on.
`winceLockFileEx` only adds the test for a shared lock and calls `winceLockFile`.

**Pager.** `at[c]` is the place of a pager inside one of its routines and `doing[c]` says which
one; a routine stops at each call of a lock routine and at each operation on a file that another
process could see. `db` and `journal` are the files: a page is a version number, the journal a
record of originals, of which `counted` are those that the header's `nRec` covers (several headers
of one file count as one set). `opener` is the handle that has the journal open: it is opened
with share mode 0, so one at most. `dirtyCache` is up exactly while `inJournal` is not empty, so it
is an operator. Page 1, which holds the change counter, is read first and never recycled, as the
B-tree has it.

Two history variables serve the properties. `committed` is what the last commit left. `broken`
says which known flaw of the code (see *Findings*) has come to harm first: a reader was
misled by a probe (`misled`), a handle that holds pages has no lock that keeps a writer out and
a writer gets the file (`uncovered`), a rollback left changed pages in the cache (`unreverted`), a
pager that lost its lock opened its journal without one (`unlocked`). What `Recoverable`, `Snapshot`,
`CounterGrows` and the refinement say, they say of behaviours in which none has. The type and lock
invariants, `LegalCalls` and `OnlyExclusiveStores` go on: the transaction without a lock opens its
journal, changes, spills and stores pages (then at EXCLUSIVE, asked for from NO_LOCK) and commits,
as the code has it. Only what follows its rollback or its reset is left out (`stray`, which
replaces the other flags): below RESERVED `pager_unwritelock` returns at once, so the journal stays
open and `aInJournal` as it is, and what the pager does with them next is not modelled.

**MultiCommit.** One connection (`Client`) with several files; every other process is a reader that
may have to recover. The client's pagers are `pstate`, `cache`, `dirtyCache` and `setMaster`; `at`,
`doing`, `zMaster` and `todo` are the control of `vdbeCommit` or `sqlite3RollbackAll`: which loop
it is in and which files that loop has yet to come to, in the order of `db->aDb`. `play[f]` is the
`pager_playback` of file `f`, with its `pager_delmaster`, by the client or by another process
(called `f` too: at most one recovers a file at a time). `journal[f].master` is the name in the
journal, `children[m]` what the master journal `m` lists; `opener` and `masterOpener` are the
handles that have them open. There is one action per file operation: `CommitMany` makes the master
journal, `SyncJournal` writes its name into a journal, `Store` writes the file or `Busy` gives up,
`DeleteMaster` commits, `CloseJournal` and `DeleteJournal` are two steps, since others look in
between; `OpenMaster`, `OpenChild`, `ReadChild`, `NoChild` and `LeaveMaster` are the walk through
the children. `ClientDies` and `PlayerDies` leave the files as they are.

What it takes from the modules above it does not repeat: a file is locked in one step, as `os.h` has
it (how is `WinLock`), and a file is one page, which stands for its change counter too (many pages
of one file are `Pager`). Journals are opened with share mode 0, and an open file is not deleted.
The random name of a master journal is taken to be in no journal that exists. The build defines
`NDEBUG`, so the assertions of the pager stop nothing. `committed` is again what the last commit
left, and `broken` says which known flaw came to harm first: a journal with the name of an
earlier attempt is still hot after the commit (`renamed`), or the journal of a one-file commit
could not be deleted (`undeleted`).

**Journal.** `file` is the database file as the system shows it and `wild`, page by page, what else
the disk may hold; `jrnl.items` are the headers and records of the journal, of which `safe` are on
the disk, and a header has its count twice, `nRec` as written and `was` as synced. `gone` is a
journal that was removed and may come back. `pager`, `stmt` and `pg` are the fields of
`struct Pager` and `struct PgHdr` that these routines use. The calls of the pager
(`Write`, `DontWrite`, `DontRollback`) are operators from one memory to the next, so that the
routines of `btree.c` which make several of them (`Extend`, `FreePage`, `ReusePage`) are one
step; what touches the disk is a step each: `CountRecords` and `SyncJournal` are the two
halves of `syncJournal`, `Spill` and `StorePages` write the file, `SyncFile` syncs it,
`Unwritelock` removes the journal. `PowerFail` picks a content for every page and a length, damage
and count for the journal; `HotJournal` is the next connection. `PlaybackFile` says what
`pager_playback` makes of any journal, well-formed or not: the operators `Reached` and `Played`
are the reading of headers, counts and checksums. In full-sync mode a damaged record passes its
checksum, since that mode is not to depend on it. The histories `expect`, `base` and `saved` are
the database as the calls have made it, and as it was when the transaction and the statement began.

**SharedCache.** `bt` is `BtShared` with its handles, table locks and pager; the operators on
it are the functions of `btree.c`, with their names. `vm[c]` are the statements of a connection:
one that reads and one that writes, each of them idle, refused with SQLITE_BUSY, open with a
cursor, done but refused the commit, or aborted by another. A step is what happens between two
points where the program has control: `Enter` starts a statement (`OP_Transaction` to
`OP_OpenWrite`), `Write` changes its table, `Halt`, `HaltBusy`, `Abort`, `Refused` and `OrRollback`
are the ends that `sqlite3VdbeHalt` tells apart. `bt.mark` says for each table where the rollback of
the statement would find its old content: in the rollback journal, in the statement journal, or no
longer in a part that is read. Statements that open no table are there too: a pragma's, which may
change the read-uncommitted flag while others of its connection are in the middle (`SetReadUncommitted`,
`HaltEmpty`), and a refused BEGIN, COMMIT or ROLLBACK, which rolls back the cache's statement
(`RefusedAutoCommit`). A statement keeps the flag it read with (`dirty`).

**LzFindMt.** For each of the two links, `"hash"` and `"bt"`, the fields of its `CMtSync`, the place
of its writing thread (`prod`) and of its reader (`cons`), and its ring (`buf`). The bt thread is
the writer of one link and the reader of the other; `cons["hash"]` is then where it is inside
`MtSync_GetNextBlock`. A step is the code between two operations that another thread can tell apart.
A slot of a ring holds the number of its block and of its stream, or nothing of use while it is
written. `cs` are the critical sections; the hash thread takes both to move the window.
Semaphores, events and critical sections are those of Windows: a release beyond the maximum fails
without effect, and the code does not look.

## Runs

| run | instance | shows |
|---|---|---|
| `win_lock` | 3 handles, one leaked read lock, symmetric | the lock layer's invariants, and that it implements `ByteLocks` |
| `win_lock_live` | 3 handles, 1 writer, no deaths | a writer at PENDING gets EXCLUSIVE |
| `pager` | 2 connections, 2 pages, 2 changes a page, one leaked read lock, journals may fail | recovery, isolation, no lost update, exclusive writes, locks asked for as they allow, implements `AtomicFile` |
| `pager_hot` | 2 connections, 2 pages, 1 change a page | violation, see *Findings* |
| `multi_commit` | 2 files, 2 changes a file, 2 master names, symmetric | all files recoverable together, recovery excluded, children listed, `CommitInv`, implements `AtomicCommit` |
| `multi_cold` | 2 files, 2 names | violation, see *Findings* |
| `journal` | 3 pages, a database of 0 or 2 at first, both safety levels, 5 calls, 1 failure | what is there after a transaction, a failed statement, a death, a power failure |
| `journal_rollback` | the same, 2 pages at first, 4 calls, the power may fail at any time | violation, see *Findings* |
| `shared_cache` | 2 connections, `sqlite_master` and a table, 2 values, symmetric | isolation of tables, counts, the file's lock, statements undone |
| `shared_stmt`, `shared_assert` | 1 and 2 connections | one violation each, see *Findings* |
| `lz_find_mt` | rings of 2 blocks, 3 blocks asked for, 2 hash blocks read, 2 streams | order, stopping and restarting, the window, and that every call returns |

*The bounds.* Three handles are what the lock protocol needs to show everything: a writer, a
reader it waits for, and a reader that comes late. Two connections are enough for the pager's
protocol of one writer, one recoverer; one of them dies and comes back any number of times, so the
roles of "the dead writer", "the recoverer that dies too" and "the next" all occur. Two pages are
enough to have one page stored and another not, one counted in the journal and another not. Two
changes of a page are enough for a commit on top of a commit and for a change of a page that was
changed already. `MaxLeaked` bounds the read locks that dead processes leave; a second one
refuses nothing that the first did not.

Two files are enough for "one and not the other" at every point of every loop,
and for a recoverer of one file that reads the other's journal; two names for an attempt whose
predecessor's master journal is still there; a second change of a file for a write between two
attempts, and for a transaction after a commit. Master names are used again when no journal holds
them, so the number of commits is bounded by `MaxVersion` alone.

Three pages in `journal` are page 1, which every commit changes, a page of the old database and one
the transaction adds; the free list is on page 1. Five calls (`MaxCall`: transactions and
statements begun, pages changed) are enough for a page that is freed in one transaction, reused and
spilled in the next, and rolled back; recovery is itself interrupted when the one failure
(`MaxFail`) falls into it. `Settled` lets the power fail only when the system has written out what
a rollback restored: without it `DatabaseRestored` is false, which is what `journal_rollback`
shows. In `shared_cache` two connections with a reader and a writer each give all pairs of
statements; two values tell a table that was changed from one that was not. Two blocks a ring
make it full and let it wrap; three blocks come round to a slot again, with the stop at each of
them. A second stream shows what a stopped one left behind. The proofs are for rings of any size
and any number of tables, connections and streams.

*Symmetry* is used where all handles have the same role, and never with liveness. *Constraints.*
`StillSound` in the run `pager`, and `StillAtomic` in `multi_commit`, stop the search behind a known
flaw, where most properties say nothing anyway; a transition into such a state is still checked.
`StillSound` lets one flaw pass: the transaction of a pager that goes on without its lock is followed
to its end (`GoesOn`), where it is an early one (nothing committed yet, a page changed once) and
meets no lock of a dead process. `Explored`, the constraint of the run, is `StillSound` and two more
bounds. The search ends with the last commit that `MaxVersion` allows, after which there would be no
other. Locks that the dead leave behind are followed in early transactions only; the death of the
last process, after which the mapping is new, is followed in all of them. `OneDirtyReader` in
`shared_cache` has the other connection only write while one reads uncommitted data, or is to.
Deadlock is checked in every run.

*Fairness* (`FairLockSpec`). A routine that began goes on: each of its steps takes the mutex, which
no one holds beyond a few assignments. A handle with the PENDING byte asks again: the loop of
`pager_wait_on_lock` with a busy handler that does not give up. A handle without it lets go
again and again (strong fairness: it is not always in a state where it can): readers finish.
The last two are demands on the application, and without them the code promises nothing. No
process dies in that run, for a reader that died keeps its lock as long as the mapping lives.

`MtFairSpec`: the system runs every thread that can go on, so the hash thread, the bt thread and a
client inside a call have weak fairness; a call the client has not made it need not make. Weak
fairness is enough although two threads want the same critical section: whoever waits for
one is let in when it is free and nobody else can take it again without a token that the waiting
thread has to give.

## Properties worth knowing

- `LevelBacked`, `NoNewReaderUnderPending`, `ByteExclusion`, `TableAccurate`: the contract of
  `os.h` 176-187, as far as the code keeps it. `LevelBacked` states the gap too: SHARED and RESERVED
  may have no read lock behind them.
- `LevelsExclude`: what the levels keep out. It is less than `os.h` 182 promises, "An EXCLUSIVE lock
  precludes all other locks": no two handles are at RESERVED and no two at EXCLUSIVE, and nobody
  has a read lock beside EXCLUSIVE; but a handle that lost its read lock may be at SHARED, RESERVED
  or PENDING beside it. RESERVED is kept out only by an EXCLUSIVE that has the RESERVED byte.
- `LegalCalls`: whenever the pager comes to ask for a lock, or to give one up, its handle has the
  level this is asked from, after refused, half-done and given-up requests too. It is the
  assertions of `winLock` (`os_win.c` 1052-1056) read as duties of the pager; the one exception is
  the transaction without a lock, from NO_LOCK.
- `Recoverable`: at every moment, with every process dead, the journal rolled back onto the database
  is the last commit.
- `Snapshot`: whatever page a pager serves is of the last commit, or its own change.
- `CounterGrows`: a commit builds on the commit before it.
- `OnlyExclusiveStores`: the database is written by the holder of the whole range, with its
  journal open, while nobody reads.
- `ImplementsAtomicFile`: through spills, refused locks, deaths and recoveries, what a recovery would
  make of the files changes only when a commit deletes its journal: to what that client saw, while
  no other client has a session. What a client in a session sees (`Sight`: the pages in memory over
  the file) changes by its own writes alone, and is the last commit again from the moment its
  rollback begins.
- `ImplementsAtomicCommit`: what readers find, once each has recovered what is hot, changes for all
  files in one step, and to what the client had written. `AllRecoverable` is its state form.
- `RecoveryExcluded`: nobody plays a journal back while its transaction lives, though the player
  looks at no more than one file's lock and at whether another file exists.
- `ChildrenListed`: the walk of `pager_delmaster` through the children misses no journal that
  still needs the master.
- `DatabaseRestored`: between transactions the database is what the last commit, rollback or
  recovery must have left, whatever died or lost power in between.
- `StatementRestored`: within a transaction the pager shows what the calls have made, also after a
  statement was rolled back that had spilled, grown, freed or reused pages.
- `JournalFirst`: no page of the old database may be on the disk in a changed state unless its
  original is in the part of the journal that is on the disk and counted there. It is what
  `dont_rollback`, the two syncs and the new header after a spill must not break.
- `AlwaysPlayable`: in full-sync mode the journal never ends within the records it counts.
- `NoDirtyRead`, `StableRead`: the isolation that table locks are there for, as a state and as
  something no step of anybody may do.
- `CountsAgree`, `FileLockHeld`: the counts by which the cache decides who may write and when the
  file's lock is given up are right after every way a transaction can end.
- `StatementUndone`: a failed statement of BEGIN...COMMIT leaves its table as it found it, or its
  transaction is gone; unless another statement ended in the middle of it, see below.
- `InOrder`, `NoReleaseLost`, `WindowStill`, `AtRest`: no block is skipped, seen twice or written
  over while it is read; no token vanishes; the window stands still under a reader; a stopped
  pipeline is as it was created, wherever the three threads were when the stop came.
- `CallsReturn`: the handshakes of start and stop, the drain and the two critical sections make no
  thread wait for ever.

## Findings

Each is a run that expects a violation; `PROJECT.json` quotes the lines.

1. `NoReadBeforeRecovery`: the probe for a RESERVED lock looks like one to a second prober, which
   then reads a database that needs recovery.
2. `OnlyColdJournals`: a commit that is tried again after BUSY makes a new master journal, but a
   journal that was synced before keeps the first one's name. Once the second master is deleted
   the transaction is committed, and that journal is hot.
3. `AtomicRollback`: `pager_playback` removes the journal without a sync of the file it restored. A
   power failure soon after leaves pages of the rolled-back transaction and no journal.
4. `AbortUndone`: `OP_Statement` opens no statement journal in autocommit mode. If another statement
   of the connection is active, one that fails is not undone at all, and the last one to end commits
   what it wrote.
5. `StmtRollbackAlone`: the statement that fails rolls back the cache's statement journal even if it
   is a reader and the journal is that of a writing statement, whose cursor is open (the assertion
   at `btree.c` 2698).

Met while modelling, without a run of their own:

- A failed RESERVED to EXCLUSIVE gives up the read lock, and after `winUnlock(SHARED)` the handle
  believes in a SHARED lock it does not have; another can be at EXCLUSIVE beside it, and the first
  can go on to RESERVED, against `os.h` 182. `LevelBacked` and `LevelsExclude` state what is left.
- A journal that cannot be created makes `pager_open_journal` drop the lock under a client's pages
  (`pager.c` 2860, against 62-64): `broken = "uncovered"` in `Pager` once another writes the file.
- The same pager can write on: `sqlite3pager_begin` does nothing outside of PAGER_SHARED and returns
  SQLITE_OK (2893-2922), `sqlite3pager_write` opens a journal (2976-2984), and the commit asks for
  EXCLUSIVE from NO_LOCK. The assertions at `pager.c` 2804, 2898, 2975 and 2980 and at `os_win.c` 1052
  forbid it, but are compiled only with `SQLITE_DEBUG`: `broken = "unlocked"`. It may write
  over what others committed since it read, and comes to EXCLUSIVE without the RESERVED byte.
- A rollback from EXCLUSIVE leaves pages in the cache whose journal records were not synced yet
  (`pager.c` 1307, against 3283): `broken = "unreverted"`. It shows where pages outlive the
  rollback: with page 1 held by another statement, or in a shared cache.
- A file that an earlier attempt of a multi-file commit stored, and that was written since, is not
  stored again (`PAGER_SYNCED` ends the sync at once, `pager.c` 3606): its last change is lost.
- `pager_delmaster` deletes the master (1115) while its own handle has it open, so on Windows it stays.
- Between the close and the delete of a journal a recoverer of another file can open it; the
  delete fails, nobody notices, and a one-file commit is rolled back: `broken = "undeleted"`.
- In normal mode a journal found shorter than its header counts makes the playback end with an I/O
  error, each time it is tried (`stuck` in `Journal`), although the comment at `pager.c` 1214-1219
  has such a journal played as far as it goes and deleted.
- `sqlite3BtreeRollback` and `sqlite3BtreeCommitStmt` clear `inStmt` for all handles of the cache
  (`btree.c` 2633, 2680) whether the pager's statement is over or not.
- `checkReadLocks` (`btree.c` 5238) looks at `p->pPage` of cursors that may be saved ones.

## Proofs

All theorems hold for any number of handles, files, pages, changes, connections, tables, blocks,
calls and failures.
Assumed are only `ConnAssumption` (finitely many handles: the mapping counts them), `RoleAssumption`,
`PagerAssumption` (page 1 is a page, `Nobody` is not a handle, the bounds are numbers),
`MultiAssumption` (files are numbers, for the loops; the roles and names are distinct),
`SharedCacheSets` (finitely many connections; `sqlite_master` is a table, and a table has a
content), `JournalBounds` (sizes and bounds are numbers, a database may have a page, the levels are
normal and full) and `LzFindMtBounds` (a ring has a block at least).

*The table.* `TableInv` is inductive under every byte-lock call by whomever: the types, the exact
count and flags, the exclusion of the living among themselves and against what the dead left
(`LeakExclusion`, without which accuracy is not inductive: a flag that a living and a dead handle
both put up would go down with the living one). `BytesStep` maps each call to a step of `ByteLocks`.

*The locking routines.* `LockInv` adds, for each handle, what it holds at each label of each
routine given the level it called from (`ControlOK`, `ExclusiveBacked`, `ReservedBacked`,
`PendingBacked`, `ReadBacked`). `OneHandleMoves` reduces every step to the handle that takes
it. From `LockInv` follow `LevelBacked`, `LevelsExclude`, `ByteExclusion`, `TableAccurate`, the action
property `NoNewReaderUnderPending`, and the refinement `ImplementsByteLocks`.

*The pager.* `PagerUsesLocks` proves that every step of the pager is a step of the lock layer or
leaves it alone, so all of the above holds under it (`PagersExclude`, for one), and that it asks from
the levels it must (`LegalCalls`). `StoreInv` then ties the two automata together:
a pager that believes in EXCLUSIVE has it, except at the label `unlock` where it is being given
up; a routine that writes pages has the journal open. With `ByteExclusion` this gives
`OnlyExclusiveStores`.

`ControlInv`, which holds until `stray`, adds for each pager what a label says of the routine and of `Pager.state` (`LabelOK`),
which bytes are behind the level it believes in (`LockBacked`), and how the dirty, the journalled
and the pending pages lie within each other (`PagesOK`). `PagerTypes` and `LegalCalls` follow. On top of it,
`SoundInv` says of the data, until a known flaw comes to harm (`DataInv`): the journal played back
gives the last commit; a database that differs from it is seen by its writer alone, and where that
writer is dead its EXCLUSIVE bytes still keep the others out of the pages (`Hidden`); a page in
memory is of the last commit unless it is journalled (`CacheOK`); the originals in the journal are
those of the last commit and a page that is stored has its original counted (`TransOK`); and what
is left to do at the end of a commit or a playback (`EndOK`). This is what neither the files nor the
locks say by themselves, and why `Recoverable` is not inductive. Each action has a lemma for each
of the two invariants; `Others` and `ApartData` reduce it to the pager that moves. It gives
`DatabaseRecoverable`, `SnapshotsAreCommitted`, `CountersGrow`, and, one lemma after another for what
a step lets a client see, `PagerIsAtomic`: as long as no flaw comes to harm, every behaviour of the
pagers is one of `AtomicFile`.

*The commit of several files.* `CommitInv` is inductive, one lemma for each of the 29 actions. Its
parts: `ControlOK`, what a label says of the loop (no file of the transaction has been passed over);
`PagerOK`, which names and counts a journal has in which state of its pager; `PlayOK`, who may play a
file back; `MasterOK`, that nobody but the files of the transaction refers to the master journal
that is about to be deleted; and, until a known flaw comes to harm, `DataOK`: what each file is
recovered to is the last commit, and how its database, its journal and the client's page compare
with that before and after the decision. It gives `FilesRecoverable`, and, action by action,
`CommitIsAtomic`: as long as no flaw comes to harm, every behaviour is one of `AtomicCommit`. On top
of it, `OpenInv` says at which labels the client and a player have which journal open, which gives
`RecoveryExcluded`; and `ListInv` that the list of a master journal is complete before the first
name is written and is not shortened while a journal carries the name, `ChildrenListed`.

*The shared cache.* `ScInv` has two halves beside the types. `Consistent(bt)` is about the cache alone:
locks exclude each other and belong to transactions, one handle writes, the counts are right, and
whatever differs from the file or is marked for a statement's rollback is under a write lock.
`Served(bt, vm)` says that a statement with an open cursor is in a transaction and has its
lock (`Owned`: a connection that is not open has neither). A lemma for each function of `btree.c`
says what it does to the first half, and two relations between caches, `Kept` and `Left`, what a function
that takes and one that gives up leave to the other handles; with these each action is a
short lemma. `ReadsCommitted` and `LockOnFile` follow in a state, `LockedTableStays` step by step: a step
that changes a table is a write under the only lock on it, or the rollback of the handle that had it.
`FailedStatementUndone` needs more, since the open statement is the cache's, not the connection's.
`StmtInv` says that while no other statement has ended in the middle (`disturbed`), `inStmt` and the
pager's statement agree, `inStmt` is up exactly while a statement writes within BEGIN...COMMIT, and
what a rollback would find of that statement's table is what the statement found.

*The journal.* Two invariants, the second inductive on top of the first.

`LayInv` (`TypeInv` and `LayoutInv`) is about headers, records and counts. While a transaction is
open (`Shape`) the pager's `journalHdr` is the last header, every segment before it is full, counted
and on the disk, and in full-sync mode the last header's count never reaches beyond what is on the
disk. `Sound` is what is left of that in a journal that a failure or a death has left; `Counting`
holds between the two halves of `syncJournal`. It gives `JournalTypes` and, for both levels and
wherever the power fails, `AlwaysPlayableHolds`.

`DataInv` is about content. `Crash(D, j, d, level)` says that whatever a failure leaves of the file
and of journal `j` (`Fates`: a length, damaged records, headers with or without their counts),
playing it back gives database `d`. `IdleInv` says so of a journal that was left behind or is being
played back, and `GoneInv` of a removed one that may come back: it gives the database it belongs to,
and no record or cached page of a later transaction spoils that. In a transaction (`TxnInv`) each
changed page has its original in the journal, in the synced and counted part unless its header says
`needSync` (`OriginalPage`); the headers in the cache agree with the pager's sets (`CachePage`); the
cache over the file shows what the calls have made (`ShowsPage`); what the open statement found of a
page is in the statement journal or in the main one after the statement began (`StmtPage`); and
`dont_rollback` leaves no page out that was freed since (`FlagsOK`). None of this follows from
`DatabaseRestored` or `JournalFirst`, which say nothing of pages in memory, of the statement or of
removed journals and hold in states from which the next step breaks them. Each action has a lemma;
`StmtRollbackData`, the statement's rollback, is the longest. From `DataInv` follow
`DatabaseRestoredHolds`, `StatementRestoredHolds` and `JournalFirstHolds`.

These three assume `Settled`, as the run `journal` does: the power does not fail between a rollback
and the moment the system has written out the pages it restored. Without that `DatabaseRestored` is
false (finding 3).

*The match finder.* `MtInv` is inductive. For each link, `Quiet` says what a stopped one looks
like and `Handshake` which places of writer and reader go together while flags and events are on
their way; `Tokens` that free tokens, filled tokens, the block the reader holds and the slot the
writer has claimed are together as many as the ring has blocks, and that the filled ones are
the blocks posted and not taken; `Slots` that each of these is in its slot. `PlaceInv`, `ThreadInv`
and `SpentInv` tie the two links together, and `SectionInv` says who is in a critical section.
The step lemmas reason about one link at a time, for a ring of any size: two numbers less
than a ring apart have different slots (`Apart`), which is all the arithmetic there is.

*Only model-checked:* liveness, `PendingWriterServed` and `CallsReturn`, since fairness is beyond the
prover. Every other property of the passing runs is stated by a theorem. TLC checks the inductive
invariants `LockInv`, `StoreInv`, `CommitInv` and `MtInv` too.

## Not modelled, and why

- A power failure together with other connections, or in a commit of several files: `Pager` and
  `MultiCommit` have deaths of processes, `Journal` has the power failures of one writer.
- In `Journal`: no-sync mode and temporary files (nothing is promised), I/O errors, `movepage` and
  the truncation that vacuuming makes, SQLITE_BUSY at a spill, a cache that outlives a rollback, a
  change of the sector size, and trunk pages of the free list (page 1 stands for them).
- In the commit of several files: I/O errors after the first name was written, the commit hook, the
  sync of the directory, more than one page of a file, several connections that commit.
- In the shared cache: I/O and allocation errors, read-only files, ATTACH, DROP TABLE, the loop
  `lockBtreeWithRetry`, statements on several tables.
- In the match finder: what is in a block (hash heads, matches), errors of creation other than that
  creating stops half-way, `MatchFinderMt_Skip`, which is a sequence of blocks read.
- Errors of single reads and writes, and failures of `malloc`. The one I/O error of the locks is the
  read lock that `winUnlock` cannot get back, because other processes cause it.
- The failure of `sqlite3OsDelete` is modelled where another handle has the file open.
- Windows NT and 9x: there the operating system does what `ByteLocks` says. Random read bytes
  (`sharedLockByte`) are the 9x case.
- B-tree balancing, the SQL compiler and the VM's computation are sequential; codecs, rasterisers,
  parsers and dialogs of the other trees keep no state that interleaves.

## What is left

1. A refinement for `Journal`, as `AtomicFile` is for `Pager`: what a recovery would find changes only
   when a commit removes its journal. `DataInv` says what that is at every point.
2. `BusyHandler`: the delays as operators over bounded inputs.
3. The event loop of the C++ Sockets Library; the other thread pools of 7-Zip (`MtCoder.c`).
