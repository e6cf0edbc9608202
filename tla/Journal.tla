------------------------------ MODULE Journal ------------------------------
(***************************************************************************)
(* The rollback journal of pager.c over a disk that may lose what was not  *)
(* synced: the page cache of one connection that holds the write lock, the *)
(* database file, the journal with its headers, the statement journal, the *)
(* free-list optimisations of btree.c, and the playback of a hot journal   *)
(* after the process dies or the power fails.  The locks are Pager.tla's   *)
(* subject; here nobody else is connected.                                 *)
(*                                                                         *)
(* External: what the file system keeps when the power fails.  A file      *)
(* keeps, page by page, what it was last synced with or anything written   *)
(* since; a disk sector is written whole; a sync of a file also makes      *)
(* its directory entry, and the removals before it, permanent.             *)
(***************************************************************************)
EXTENDS Integers, Sequences, FiniteSets, FiniteSetsExt

CONSTANTS
  MaxPage,      \* pages of the largest database
  Sizes,        \* sizes the database may have at first
  Levels,       \* safety levels tried: "normal", "full"
  MaxCall,      \* bound: transactions and statements begun, and pages changed
  MaxFail,      \* bound: deaths of the process and power failures
  Settled       \* TRUE: power fails only once rolled-back pages are on the disk

ASSUME JournalBounds ==
  /\ MaxPage \in Nat \ {0} /\ Sizes \subseteq 0..MaxPage
  /\ Levels \subseteq {"normal", "full"}
  /\ {MaxCall, MaxFail} \subseteq Nat
  /\ Settled \in BOOLEAN

VARIABLES
  level,   \* Pager.fullSync: "full", or "normal" (noSync is for temporary files)
  file,    \* the database file as the system shows it
  wild,    \* what else of it the disk may hold: contents not synced away yet
  jrnl,    \* the journal file
  gone,    \* a removed journal that a power failure may bring back
  pager,   \* struct Pager
  stmt,    \* the statement journal and its fields of struct Pager
  pg,      \* the page cache: struct PgHdr
  at,      \* where the connection is
  job,     \* the page it spills, 0 if it commits
  expect,  \* history: the database as the calls so far have made it
  base,    \* history: expect when the transaction began
  saved,   \* history: expect when the statement began
  unsettled, \* history: a rollback wrote pages that were not synced since
  left     \* the bounds still to be used

diskVars == <<file, wild, jrnl, gone>>
memVars  == <<pager, stmt, pg>>
history  == <<expect, base, saved, unsettled>>
vars     == <<level, diskVars, memVars, at, job, history, left>>

Page == 1..MaxPage

\* A page's content: a number, and for page 1, which carries the change counter
\* and stands for the free-list's trunk too, the set of free pages.
Zero == [n |-> 0, free |-> {}]
Torn == [n |-> -1, free |-> {}]

\* The page cache.  A page that is not in it is Absent.
Absent == [in |-> FALSE, data |-> Zero, dirty |-> FALSE, inJournal |-> FALSE,
           needSync |-> FALSE, inStmt |-> FALSE, alwaysRollback |-> FALSE]
NoCache == [p \in Page |-> Absent]

\* The journal: headers and page records in the order they were written.  The
\* first `safe` of them are on the disk; `was` is a header's count on the disk.
Header(size) == [type |-> "header", nRec |-> 0, was |-> 0, size |-> size]
Record(p, c) == [type |-> "record", page |-> p, data |-> c]
Scrap        == [type |-> "scrap"]
NoJournal == [exists |-> FALSE, items |-> <<>>, safe |-> 0, named |-> FALSE]
NotGone   == [jrnl |-> NoJournal, to |-> [size |-> 0, page |-> [p \in Page |-> Zero]]]

NoStmt == [inUse |-> FALSE, size |-> 0, from |-> 0, hdr |-> 0, recs |-> <<>>, aInStmt |-> {}]
Closed(size) == [state |-> "SHARED", dbSize |-> size, origDbSize |-> 0, nRec |-> 0,
                 journalHdr |-> 0, needSync |-> FALSE, journalStarted |-> FALSE,
                 alwaysRollback |-> FALSE, aInJournal |-> {}, dirtyCache |-> FALSE]

Calm == [size |-> {}, page |-> [p \in Page |-> {}]]

----------------------------------------------------------------------------
\* What the calls of the upper layer read.

\* The calls that change pages are operators on the memory and the journal, so
\* that a routine of btree.c that makes several of them is one step.
Memory == [pager |-> pager, stmt |-> stmt, pg |-> pg, items |-> jrnl.items]

\* sqlite3pager_get: the header of page p, from the cache or read in.
Get(m, p) ==
  IF m.pg[p].in THEN m.pg[p]
  ELSE [Absent EXCEPT !.in = TRUE,
          !.data = IF p <= m.pager.dbSize /\ p <= file.size THEN file.page[p] ELSE Zero,
          !.inJournal = p \in m.pager.aInJournal /\ p <= m.pager.origDbSize,
          !.inStmt = p \in m.stmt.aInStmt /\ p <= m.stmt.size]
Loaded(p) == Get(Memory, p)

Free == Loaded(1).data.free

\* The database as the pager shows it: a free page has no content of its own.
View == [size |-> pager.dbSize,
         page |-> [p \in Page |-> IF p > pager.dbSize \/ p \in Free THEN Zero
                                  ELSE Loaded(p).data]]

----------------------------------------------------------------------------
\* The file system.

Cut(f, size) == [size |-> size, page |-> [p \in Page |-> IF p > size THEN Zero ELSE f.page[p]]]

\* The file becomes f; until the next sync the disk may hold either.
Writes(f) ==
  /\ file' = f
  /\ wild' = [size |-> IF f.size = file.size THEN wild.size ELSE wild.size \cup {file.size},
              page |-> [p \in Page |-> IF f.page[p] = file.page[p] THEN wild.page[p]
                                       ELSE wild.page[p] \cup {file.page[p]}]]

\* The files the disk may hold when the power fails.
Survivors == UNION {{Cut([size |-> 0, page |-> c], s) :
                  c \in {f \in [Page -> UNION {wild.page[p] \cup {file.page[p]} : p \in Page}] :
                           \A p \in Page : f[p] \in wild.page[p] \cup {file.page[p]}}} :
                s \in wild.size \cup {file.size}}

\* What the power failure leaves of journal j: it is cut anywhere after what was
\* synced, any record beyond that is damaged, and the count in the last header is
\* the new or the old one.  A checksum finds a damaged record out; in full-sync mode
\* nothing is to rely on that, so there the damaged record looks like a good one.
Damaged(i) == IF i.type = "record" /\ level = "full" THEN Record(i.page, Torn) ELSE Scrap
Uncounted(i) == IF i.type = "header" THEN [i EXCEPT !.nRec = i.was] ELSE i
OnDisk(i) == IF i.type = "header" THEN [i EXCEPT !.was = i.nRec] ELSE i
Leftover(j, n, lost, counted) ==
  [exists |-> TRUE, named |-> TRUE, safe |-> n,
   items |-> [i \in 1..n |-> IF i \in lost THEN Damaged(j.items[i])
                             ELSE OnDisk(IF counted THEN j.items[i] ELSE Uncounted(j.items[i]))]]
Leftovers(j) ==
  UNION {{Leftover(j, n, lost, counted) : lost \in SUBSET ((j.safe + 1)..n), counted \in BOOLEAN} :
           n \in j.safe..Len(j.items)}

----------------------------------------------------------------------------
\* Playing the journal back.

Headers(items) == {i \in 1..Len(items) : items[i].type = "header"}
HeaderOf(items, i) == Max({h \in Headers(items) : h < i} \cup {0})
Last(items, h) == Min({g \in Headers(items) : g > h} \cup {Len(items) + 1}) - 1

\* The segment that starts with the header at h is reached: every one before it
\* is whole and holds exactly the records its header counts.
Reached(items, h) ==
  /\ h \in Headers(items)
  /\ \A i \in 1..(h - 1) : items[i].type # "scrap"
  /\ 1 \in Headers(items)
  /\ \A g \in Headers(items) : g < h => items[g].nRec = Last(items, g) - g

\* The records pager_playback copies back.
Played(items) ==
  {i \in 1..Len(items) :
     LET h == HeaderOf(items, i) IN
       /\ Reached(items, h) /\ i - h <= items[h].nRec
       /\ \A k \in h..i : items[k].type # "scrap"}

\* The journal ends before a record its header counts: reading it fails.
CutShort(items) ==
  \E h \in Headers(items) : /\ Reached(items, h) /\ h + items[h].nRec > Len(items)
                            /\ \A k \in h..Len(items) : items[k].type # "scrap"

\* The file with every record of the set R of indices copied back into it.
Restored(items, R, f) ==
  [f EXCEPT !.page = [p \in Page |->
     IF \E i \in R : items[i].page = p THEN items[CHOOSE i \in R : items[i].page = p].data
     ELSE f.page[p]]]

\* pager_playback: the file is cut to its size in the first header, if there is one.
PlaybackFile(items) ==
  IF 1 \in Headers(items) THEN Restored(items, Played(items), Cut(file, items[1].size)) ELSE file

----------------------------------------------------------------------------
\* Begin, change, free and reuse pages.

JournalInit ==
  /\ level \in Levels
  /\ \E size \in Sizes : \E free \in SUBSET {p \in Page : 1 < p /\ p <= size} :
       file = [size |-> size, page |-> [p \in Page |-> IF p = 1 /\ size > 0
                                                       THEN [n |-> 0, free |-> free] ELSE Zero]]
  /\ wild = Calm /\ jrnl = NoJournal /\ gone = NotGone
  /\ pager = Closed(file.size) /\ stmt = NoStmt /\ pg = NoCache
  /\ at = "idle" /\ job = 0
  /\ expect = file /\ base = expect /\ saved = expect /\ unsettled = FALSE
  /\ left = [call |-> MaxCall, fail |-> MaxFail]

Use(bound) == left[bound] > 0 /\ left' = [left EXCEPT ![bound] = @ - 1]

\* sqlite3pager_stmt_begin
StmtBegin ==
  /\ at = "txn" /\ ~stmt.inUse /\ Use("call")
  /\ stmt' = [NoStmt EXCEPT !.inUse = TRUE, !.size = pager.dbSize, !.from = Len(jrnl.items)]
  /\ saved' = expect
  /\ UNCHANGED <<level, diskVars, pager, pg, at, job, expect, base, unsettled>>

\* sqlite3pager_stmt_commit
Committed(cache) == [p \in Page |-> [cache[p] EXCEPT !.inStmt = FALSE]]
StmtCommit ==
  /\ at = "txn" /\ stmt.inUse
  /\ stmt' = NoStmt /\ pg' = Committed(pg) /\ saved' = base
  /\ UNCHANGED <<level, diskVars, pager, at, job, expect, base, unsettled, left>>

\* sqlite3pager_write, and the change of page p to content c that follows it.
Write(m, p, c) ==
  LET h == Get(m, p)
      fresh == ~h.inJournal
      toJournal == fresh /\ p <= m.pager.origDbSize
      inStmt == h.inStmt \/ (toJournal /\ m.stmt.inUse)
      toStmt == m.stmt.inUse /\ ~inStmt /\ p <= m.stmt.size
      needSync == IF fresh THEN toJournal \/ ~m.pager.journalStarted ELSE h.needSync
  IN [items |-> IF toJournal THEN Append(m.items, Record(p, h.data)) ELSE m.items,
      pager |-> [m.pager EXCEPT
                   !.nRec = IF toJournal THEN @ + 1 ELSE @,
                   !.aInJournal = IF toJournal THEN @ \cup {p} ELSE @,
                   !.needSync = @ \/ (fresh /\ needSync),
                   !.dirtyCache = TRUE,
                   !.dbSize = IF p > @ THEN p ELSE @],
      stmt |-> [m.stmt EXCEPT
                  !.recs = IF toStmt THEN Append(@, Record(p, h.data)) ELSE @,
                  !.aInStmt = IF toStmt \/ (toJournal /\ m.stmt.inUse) THEN @ \cup {p} ELSE @],
      pg |-> [m.pg EXCEPT ![p] =
                [h EXCEPT !.data = c, !.dirty = TRUE, !.inJournal = TRUE,
                          !.needSync = needSync, !.inStmt = inStmt \/ toStmt]]]

\* sqlite3pager_dont_write: the content of page p is of no use to anybody.
DontWriteGrown(m, p) ==
  LET h == Get(m, p)
  IN [m EXCEPT !.pg[p] = [h EXCEPT !.alwaysRollback = TRUE, !.dirty = @ /\ m.stmt.inUse]]
DontWriteInStmt(m, p) ==
  LET h == Get(m, p)
      growing == m.pager.dbSize = p /\ m.pager.origDbSize < m.pager.dbSize
  IN [m EXCEPT !.pg[p] = [h EXCEPT !.alwaysRollback = TRUE, !.dirty = @ /\ growing]]
DontWrite(m, p) ==
  LET h == Get(m, p)
      growing == m.pager.dbSize = p /\ m.pager.origDbSize < m.pager.dbSize
  IN [m EXCEPT !.pg[p] = [h EXCEPT !.alwaysRollback = TRUE,
                                   !.dirty = @ /\ (m.stmt.inUse \/ growing)]]

\* sqlite3pager_dont_rollback: the content page p had is of no use to anybody.
DontRollbackAnyway(m, p) ==
  LET h == Get(m, p)
      skips == ~h.inJournal /\ p <= m.pager.origDbSize
      inStmt == m.stmt.inUse /\ (skips \/ p <= m.stmt.size)
  IN IF m.pager.state # "EXCLUSIVE" \/ h.alwaysRollback THEN m
     ELSE [m EXCEPT
             !.pager.aInJournal = IF skips THEN @ \cup {p} ELSE @,
             !.stmt.aInStmt = IF inStmt THEN @ \cup {p} ELSE @,
             !.pg[p] = [h EXCEPT !.inJournal = @ \/ skips, !.inStmt = @ \/ inStmt]]
DontRollback(m, p) ==
  LET h == Get(m, p)
      skips == ~h.inJournal /\ p <= m.pager.origDbSize
      inStmt == m.stmt.inUse /\ (skips \/ p <= m.stmt.size)
  IN IF m.pager.state # "EXCLUSIVE" \/ h.alwaysRollback \/ m.pager.alwaysRollback THEN m
     ELSE [m EXCEPT
             !.pager.aInJournal = IF skips THEN @ \cup {p} ELSE @,
             !.stmt.aInStmt = IF inStmt THEN @ \cup {p} ELSE @,
             !.pg[p] = [h EXCEPT !.inJournal = @ \/ skips, !.inStmt = @ \/ inStmt]]

\* sqlite3BtreeBeginTrans: page 1 is read and stays referenced until the transaction
\* is over; sqlite3pager_begin opens the journal and writes its first header; an empty
\* database gets its page 1 (newDatabase).
Begin ==
  /\ at = "idle" /\ Use("call")
  /\ LET opened == [pager |-> [Closed(pager.dbSize) EXCEPT
                                 !.state = "RESERVED", !.origDbSize = pager.dbSize,
                                 !.journalHdr = 1],
                    stmt |-> NoStmt, pg |-> [pg EXCEPT ![1] = Loaded(1)],
                    items |-> <<Header(pager.dbSize)>>]
         m == IF pager.dbSize = 0 THEN Write(opened, 1, Zero) ELSE opened
     IN /\ pager' = m.pager /\ stmt' = m.stmt /\ pg' = m.pg
        /\ jrnl' = [exists |-> TRUE, items |-> m.items, safe |-> 0, named |-> FALSE]
        /\ expect' = [expect EXCEPT !.size = m.pager.dbSize]
  /\ at' = "txn" /\ base' = expect /\ saved' = expect
  /\ UNCHANGED <<level, file, wild, gone, job, unsettled>>

Recall(m) ==
  /\ pager' = m.pager /\ stmt' = m.stmt /\ pg' = m.pg
  /\ jrnl' = [jrnl EXCEPT !.items = m.items]

\* The free list is on page 1; other pages have a content only while in use.
Expecting(size, free, p, c) ==
  expect' = [size |-> size,
             page |-> [q \in Page |-> IF q = p THEN c
                                      ELSE IF q = 1 THEN [expect.page[1] EXCEPT !.free = free]
                                      ELSE expect.page[q]]]

Content(p, k) == [n |-> k, free |-> IF p = 1 THEN Free ELSE {}]
List(free) == [Loaded(1).data EXCEPT !.free = free]

Change ==
  /\ at = "txn" /\ Use("call")
  /\ UNCHANGED <<level, file, wild, gone, at, job, base, saved, unsettled>>

\* A page in use is changed.
Modify(p) ==
  /\ Change /\ p <= pager.dbSize /\ p \notin Free
  /\ LET c == Content(p, IF Loaded(p).data.n = 1 THEN 2 ELSE 1)
     IN /\ Recall(Write(Memory, p, c))
        /\ Expecting(pager.dbSize, Free, p, c)

\* allocatePage when the free list is empty.
Extend ==
  LET p == pager.dbSize + 1 IN
    /\ Change /\ p \in Page /\ Free = {}
    /\ Recall(Write(Memory, p, Content(p, 1)))
    /\ Expecting(p, Free, p, Content(p, 1))

\* freePage, for a page that becomes a leaf of the free list.
FreePage(p) ==
  /\ Change /\ p \in (2..pager.dbSize) \ Free
  /\ Recall(DontWrite(Write(Memory, 1, List(Free \cup {p})), p))
  /\ Expecting(pager.dbSize, Free \cup {p}, p, Zero)

\* allocatePage for a leaf of the free list.
ReusePage(p) ==
  /\ Change /\ p \in Free
  /\ Recall(Write(DontRollback(Write(Memory, 1, List(Free \ {p})), p), p, Content(p, 1)))
  /\ Expecting(pager.dbSize, Free \ {p}, p, Content(p, 1))

\* A page is read and nothing else.
Read(p) ==
  /\ at = "txn" /\ p <= pager.dbSize /\ ~pg[p].in
  /\ pg' = [pg EXCEPT ![p] = Loaded(p)]
  /\ UNCHANGED <<level, diskVars, pager, stmt, at, job, history, left>>

----------------------------------------------------------------------------
\* Statement rollback.

\* The file after pages are copied back: page p from record r, unless the page is
\* cached and its original is not safely in the journal.
Unsynced(p) == pg[p].in /\ pg[p].needSync

\* pager_stmt_playback.  First the statement journal, then what the statement
\* added to the journal: the rest of its segment and every later one, where a
\* header that was not counted yet stands for all that follows it.
StmtItems == stmt.recs \o SubSeq(jrnl.items, stmt.from + 1, Len(jrnl.items))
StmtRecord(items, p) ==
  {i \in 1..Len(items) : items[i].type = "record" /\ items[i].page = p /\ p <= stmt.size}
StmtRollback ==
  /\ at = "txn" /\ stmt.inUse
  /\ LET items == StmtItems
         hit(p) == StmtRecord(items, p) # {}
         was(p) == items[Max(StmtRecord(items, p))].data
         store(p) == pager.state = "EXCLUSIVE" /\ hit(p) /\ ~Unsynced(p)
         cut == IF pager.state = "EXCLUSIVE" THEN Cut(file, stmt.size) ELSE file
     IN /\ Writes([size |-> Max({cut.size} \cup {p \in Page : store(p)}),
                   page |-> [p \in Page |-> IF store(p) THEN was(p) ELSE cut.page[p]]])
        /\ pg' = Committed([p \in Page |->
                   IF pg[p].in /\ hit(p)
                   THEN [pg[p] EXCEPT !.data = was(p), !.dirty = @ /\ ~store(p)]
                   ELSE pg[p]])
  /\ pager' = [pager EXCEPT !.dbSize = stmt.size]
  /\ stmt' = NoStmt /\ expect' = saved /\ saved' = base
  /\ UNCHANGED <<level, jrnl, gone, at, job, base, unsettled, left>>

----------------------------------------------------------------------------
\* Spill, commit, rollback.

Store(p) ==
  Writes([size |-> IF p > file.size THEN p ELSE file.size,
          page |-> [file.page EXCEPT ![p] = pg[p].data]])

\* pager_recycle of a page whose record is on the disk.  The page goes, and with
\* its alwaysRollback flag what sqlite3pager_dont_rollback may do from here on.
Evict(p) ==
  /\ pg' = [pg EXCEPT ![p] = Absent]
  /\ IF pg[p].dirty /\ p <= pager.dbSize THEN Store(p) ELSE UNCHANGED <<file, wild>>
Recycled(p, pgr) ==
  [pgr EXCEPT !.state = IF pg[p].dirty THEN "EXCLUSIVE" ELSE @,
              !.alwaysRollback = @ \/ pg[p].alwaysRollback]
Recycle(p) ==
  /\ at = "txn" /\ p # 1 /\ pg[p].in /\ ~pg[p].needSync
  /\ Evict(p) /\ pager' = Recycled(p, pager)
  /\ UNCHANGED <<level, jrnl, gone, stmt, at, job, history, left>>

\* sqlite3pager_commit, sqlite3pager_sync up to the journal: the change counter on
\* page 1 is written, unless nothing was changed.
Commit ==
  /\ at = "txn" /\ pager.dirtyCache
  /\ LET counted == [Loaded(1).data EXCEPT !.n = (@ + 1) % 4]
         m == Write(Memory, 1, counted)
     IN /\ Recall(m)
        /\ at' = IF m.pager.needSync THEN "sync" ELSE "store"
        /\ Expecting(pager.dbSize, Free, 1, counted)
  /\ job' = 0
  /\ UNCHANGED <<level, file, wild, gone, base, saved, unsettled, left>>

\* syncJournal.  In full-sync mode the records are synced before they are counted.
CountRecordsFirst ==
  /\ jrnl' = [jrnl EXCEPT !.items[pager.journalHdr].nRec = pager.nRec]
  /\ at' = "counted"
  /\ UNCHANGED <<level, file, wild, gone, memVars, history, left>>
CountRecords ==
  /\ LET full == level = "full" IN
       /\ jrnl' = [jrnl EXCEPT !.items[pager.journalHdr].nRec = pager.nRec,
                               !.safe = IF full THEN Len(jrnl.items) ELSE @,
                               !.named = @ \/ full]
       /\ gone' = IF full THEN NotGone ELSE gone
  /\ at' = "counted"
  /\ UNCHANGED <<level, file, wild, memVars, history, left>>

CommitRecords == at = "sync" /\ CountRecords /\ UNCHANGED job

\* pager_recycle of a page whose record is not on the disk: the journal is synced first.
RecycleUnsynced(p) ==
  /\ at = "txn" /\ p # 1 /\ pg[p].in /\ pg[p].needSync
  /\ CountRecords /\ job' = p

\* The second sync; after it no page waits for one.
Cleared == [p \in Page |-> [pg[p] EXCEPT !.needSync = FALSE]]
SyncedItems == [i \in 1..Len(jrnl.items) |-> OnDisk(jrnl.items[i])]
SyncJournal ==
  /\ at = "counted" /\ at' = IF job = 0 THEN "store" ELSE "spill"
  /\ jrnl' = [jrnl EXCEPT !.items = SyncedItems, !.safe = Len(jrnl.items), !.named = TRUE]
  /\ gone' = NotGone
  /\ pager' = [pager EXCEPT !.journalStarted = TRUE, !.needSync = FALSE]
  /\ pg' = Cleared
  /\ UNCHANGED <<level, file, wild, stmt, job, history, left>>

\* journalHdrOffset: a header begins where the records before it end.
HeaderPlaceShort == Len(jrnl.items)
HeaderPlace == Len(jrnl.items) + 1

\* pager_recycle after syncJournal.  In full-sync mode a new header is begun, so
\* that the one just synced is not written again.
Spill ==
  /\ at = "spill" /\ at' = "txn"
  /\ LET full == level = "full"
         new == HeaderPlace
     IN /\ jrnl' = IF full THEN [jrnl EXCEPT !.items = Append(@, Header(pager.dbSize))] ELSE jrnl
        /\ pager' = Recycled(job, IF full THEN [pager EXCEPT !.nRec = 0, !.journalHdr = new]
                                  ELSE pager)
        /\ stmt' = IF full /\ stmt.inUse /\ stmt.hdr = 0 THEN [stmt EXCEPT !.hdr = new] ELSE stmt
  /\ Evict(job) /\ job' = 0
  /\ UNCHANGED <<level, gone, history, left>>

\* pager_write_pagelist of all dirty pages, once the lock is EXCLUSIVE.
Dirty == {p \in Page : pg[p].in /\ pg[p].dirty /\ p <= pager.dbSize}
StorePages ==
  /\ at = "store" /\ at' = "stored"
  /\ Writes([size |-> Max({file.size} \cup Dirty),
             page |-> [p \in Page |-> IF p \in Dirty THEN pg[p].data ELSE file.page[p]]])
  /\ pg' = [p \in Page |-> [pg[p] EXCEPT !.dirty = FALSE]]
  /\ pager' = [pager EXCEPT !.state = "EXCLUSIVE"]
  /\ UNCHANGED <<level, jrnl, gone, stmt, job, history, left>>

\* The sync of the database file that ends sqlite3pager_sync.
SyncFile ==
  /\ at = "stored" /\ at' = "synced"
  /\ wild' = Calm /\ gone' = NotGone /\ unsettled' = FALSE
  /\ pager' = [pager EXCEPT !.state = "SYNCED"]
  /\ UNCHANGED <<level, file, jrnl, stmt, pg, job, expect, base, saved, left>>

\* pager_unwritelock: the journal is removed, and with it the transaction is over.
\* The cache stays only if page 1 is still referenced.
Unwritelock(to, cache) ==
  /\ jrnl' = NoJournal /\ gone' = [jrnl |-> jrnl, to |-> to]
  /\ pager' = Closed(file.size) /\ stmt' = NoStmt
  /\ pg' = cache
  /\ at' = "idle" /\ job' = 0
  /\ base' = expect' /\ saved' = expect'

Kept(cache) == [p \in Page |-> [Committed(cache)[p] EXCEPT !.inJournal = FALSE, !.dirty = FALSE,
                                                             !.needSync = FALSE]]
DeleteJournal ==
  /\ at = "synced" /\ expect' = expect /\ Unwritelock(base, Kept(pg))
  /\ UNCHANGED <<level, file, wild, unsettled, left>>

\* sqlite3pager_commit and sqlite3pager_rollback when nothing was changed.
GiveUp ==
  /\ at = "txn" /\ ~pager.dirtyCache /\ expect' = expect /\ Unwritelock(base, Kept(pg))
  /\ UNCHANGED <<level, file, wild, unsettled, left>>

\* pager_reload_cache: what was changed in memory only is read again.
Rollback ==
  /\ at = "txn" /\ pager.dirtyCache /\ pager.state = "RESERVED"
  /\ expect' = base /\ Unwritelock(base, NoCache)
  /\ UNCHANGED <<level, file, wild, unsettled, left>>

\* pager_playback of the connection's own journal.
RollbackFile ==
  /\ at = "txn" /\ pager.dirtyCache /\ pager.state # "RESERVED"
  /\ Writes(PlaybackFile(jrnl.items)) /\ expect' = base
  /\ at' = "played"
  /\ UNCHANGED <<level, jrnl, gone, memVars, job, base, saved, unsettled, left>>

\* The journal that was played back is removed; the database file is not synced.
PlayedBack ==
  /\ at = "played" /\ expect' = expect /\ Unwritelock(expect, NoCache)
  /\ unsettled' = (wild # Calm)
  /\ UNCHANGED <<level, file, wild, left>>

\* All pages are released: pager_reset.
Forget ==
  /\ at = "idle" /\ pg' = NoCache
  /\ UNCHANGED <<level, diskVars, pager, stmt, at, job, history, left>>

----------------------------------------------------------------------------
\* Failures and recovery.

\* What the database is after a failure: the open transaction is undone.
Target == IF at \in {"idle", "down", "played", "stuck"} THEN expect ELSE base

Falls == /\ Use("fail") /\ at' = "down" /\ job' = 0
         /\ stmt' = NoStmt /\ pg' = NoCache /\ pager' = Closed(file'.size)
         /\ base' = expect' /\ saved' = expect' /\ UNCHANGED level

\* The process dies; the system keeps what it wrote.
Die == /\ expect' = Target /\ UNCHANGED <<diskVars, unsettled>>
       /\ Falls

\* The power fails.
PowerFail ==
  /\ Settled => ~unsettled
  /\ file' \in Survivors /\ wild' = Calm /\ gone' = NotGone /\ unsettled' = FALSE
  /\ \/ /\ jrnl' \in (IF jrnl.exists THEN Leftovers(jrnl) ELSE {})
                       \cup (IF jrnl.named THEN {} ELSE {NoJournal})
        /\ expect' = Target
     \/ /\ gone.jrnl.exists /\ jrnl' \in Leftovers(gone.jrnl)
        /\ expect' = gone.to
  /\ Falls

\* hasHotJournal, for the next connection: the journal of an empty database is
\* removed, any other is played back.
HotJournal ==
  /\ at = "down" /\ expect' = expect
  /\ IF ~jrnl.exists \/ file.size = 0
     THEN /\ Unwritelock(expect, NoCache) /\ UNCHANGED <<file, wild>>
          /\ unsettled' = (unsettled \/ (jrnl.exists /\ wild # Calm))
     ELSE /\ IF CutShort(jrnl.items) THEN at' = "stuck" /\ UNCHANGED <<file, wild>>
             ELSE at' = "played" /\ Writes(PlaybackFile(jrnl.items))
          /\ UNCHANGED <<jrnl, gone, memVars, job, base, saved, unsettled>>
  /\ UNCHANGED <<level, left>>

\* The playback failed: the caller gets SQLITE_IOERR and may try again.
Retry == /\ at = "stuck" /\ at' = "down"
         /\ UNCHANGED <<level, diskVars, memVars, job, history, left>>

\* The system writes everything out in its own time.
Settle ==
  /\ unsettled /\ at = "idle" /\ unsettled' = FALSE
  /\ wild' = Calm /\ gone' = NotGone
  /\ UNCHANGED <<level, file, jrnl, memVars, at, job, expect, base, saved, left>>

JournalNext ==
  \/ Begin \/ StmtBegin \/ StmtCommit \/ StmtRollback \/ Extend
  \/ \E p \in Page : Modify(p) \/ FreePage(p) \/ ReusePage(p) \/ Read(p)
                       \/ Recycle(p) \/ RecycleUnsynced(p)
  \/ Commit \/ CommitRecords \/ SyncJournal \/ Spill \/ StorePages \/ SyncFile
  \/ DeleteJournal \/ GiveUp \/ Rollback \/ RollbackFile \/ PlayedBack \/ Forget
  \/ Die \/ PowerFail \/ HotJournal \/ Retry \/ Settle

JournalSpec == JournalInit /\ [][JournalNext]_vars

----------------------------------------------------------------------------
InTxn == at \in {"txn", "sync", "counted", "spill", "store", "stored", "synced"}

\* Type correctness.  In a transaction the pager's journalHdr is a header, and the
\* records after it are those nRec will count: syncJournal overwrites that place.
Number == -1..3
DatabaseType == [size : 0..MaxPage, page : [Page -> [n : Number, free : SUBSET Page]]]
JournalTypeOK ==
  /\ level \in Levels
  /\ {file, expect, base, saved} \subseteq DatabaseType
  /\ wild.size \subseteq 0..MaxPage
  /\ \A p \in Page : wild.page[p] \subseteq [n : Number, free : SUBSET Page]
  /\ jrnl.safe \in 0..Len(jrnl.items)
  /\ pager.aInJournal \subseteq 1..pager.origDbSize /\ stmt.aInStmt \subseteq Page
  /\ at \in {"idle", "played", "down", "stuck"} \/ InTxn
  /\ job \in {0} \cup Page /\ unsettled \in BOOLEAN
  /\ at \in {"txn", "sync"} =>
       /\ jrnl.exists /\ pager.journalHdr \in Headers(jrnl.items)
       /\ pager.nRec = Len(jrnl.items) - pager.journalHdr

\* Between transactions the database is what the last commit, rollback or
\* recovery must have left, whatever failed in between.
DatabaseRestored == at = "idle" => View = expect

\* Within a transaction the pager shows what was written into it, also after a
\* statement was rolled back and after pages went to the file and came back.
StatementRestored == at = "txn" => View = expect

\* A page of the database the disk may hold a changed content of has its original
\* in the part of the journal that is on the disk and that a header there counts.
OnDiskItems == [i \in 1..jrnl.safe |-> Uncounted(jrnl.items[i])]
JournalFirst ==
  InTxn /\ ~unsettled =>
    \A p \in (1..pager.origDbSize) \ base.page[1].free :
      \/ \A c \in wild.page[p] \cup {file.page[p]} : c = base.page[p]
      \/ \E i \in Played(OnDiskItems) : jrnl.items[i] = Record(p, base.page[p])

\* pager.c:13 says that the pager implements atomic commit and rollback through its
\* journal.  Stated for a power failure at any time: a rolled-back transaction stays
\* rolled back.
AtomicRollback == DatabaseRestored

\* In full-sync mode a journal is never found that ends within its records.
AlwaysPlayable == level = "full" => at # "stuck"
=============================================================================
