-------------------------- MODULE JournalDataProofs --------------------------
(***************************************************************************)
(* What sqlite3pager promises of the data, for one writer over a disk that *)
(* loses power. DataInv (defined in JournalProofs) is inductive relative   *)
(* to LayInv, with one lemma for each action: the calls of the B-tree, the *)
(* ends of statements, syncJournal and the spill, commit, rollback,        *)
(* deaths, power failures and the playback of what they leave.             *)
(*                                                                         *)
(* It is inductive when Settled is TRUE. Otherwise the power may fail      *)
(* while what pager_playback restored is not synced and its journal is     *)
(* deleted already, and DatabaseRestored is false: that is the finding     *)
(* AtomicRollback of the run journal_rollback.                             *)
(***************************************************************************)
EXTENDS JournalProofs

\* Page 1 is in the cache, and lists the free pages of the database the pager shows.
LEMMA FreeIs ==
  ASSUME LayInv, DataInv, at = "txn"
  PROVE  /\ Loaded(1) = pg[1] /\ pg[1].in /\ Loaded(1).data = expect.page[1] /\ Free = expect.page[1].free
         /\ Free \subseteq 2..expect.size /\ pager.dbSize = expect.size /\ expect.size \in Nat /\ 1 <= expect.size
         /\ expect.size <= MaxPage /\ 1 \notin Free /\ Free \subseteq Page
<1>1. TxnOK(Memory, expect, {}) /\ Valid(expect) /\ expect \in DatabaseType
  BY TxnStart
<1>2. SizesOK(Memory, base, file) /\ ShowsOK(Memory, expect, file)
  BY <1>1, DiskFields DEF TxnOK, CoreOK, ShowsOK, ShowsBut
<1>3. pg[1].in /\ pager.dbSize = expect.size /\ 1 <= expect.size
  BY <1>2, MemoryFields DEF SizesOK, ShowsOK, SizeShows
<1>4. expect.size \in Nat /\ expect.size <= MaxPage
  BY <1>1, Contents, PageOne
<1>5. expect.page[1].free \subseteq 2..expect.size
  BY <1>1 DEF Valid
<1>6. 1 \in Needed(expect)
  BY <1>3, <1>4, <1>5 DEF Needed
<1>7. Cur(Memory, file, 1) = expect.page[1]
  BY <1>2, <1>6 DEF ShowsOK, ShowsPage
<1>8. Loaded(1) = pg[1]
  BY <1>3, MemoryFields DEF Loaded, Get
<1>9. pg[1].data = expect.page[1]
  BY <1>3, <1>7, MemoryFields DEF Cur
<1>10. Free = expect.page[1].free
  BY <1>8, <1>9 DEF Free
<1>11. 1 \notin Free /\ Free \subseteq Page
  BY <1>4, <1>5, <1>10, PageOne DEF Page
<1>12. QED
  BY <1>3, <1>4, <1>5, <1>8, <1>9, <1>10, <1>11

\* The databases that the calls are to show.
Expected(size, free, p, c) ==
  /\ size \in 0..MaxPage /\ expect.size <= size /\ size <= expect.size + 1
  /\ free \in SUBSET (2..size) /\ p \in 1..size /\ c \in Cont
  /\ (p = 1 => c.free = free) /\ (p \in free => c = Zero)
  /\ expect.page[1].free \ {p} \subseteq free /\ free \ {p} \subseteq expect.page[1].free
  /\ (size = expect.size \/ p = size)
  /\ Expecting(size, free, p, c)

LEMMA ExpectingValid ==
  ASSUME LayInv, Valid(expect), NEW size, NEW free, NEW p, NEW c, Expected(size, free, p, c)
  PROVE  /\ Valid(expect') /\ expect' \in DatabaseType /\ expect'.size = size /\ expect'.page[p] = c
         /\ expect'.page[1].free = free
         /\ \A q \in Page : q # p /\ q # 1 => expect'.page[q] = expect.page[q]
         /\ p # 1 => expect'.page[1] = [expect.page[1] EXCEPT !.free = free]
         /\ \A q \in Needed(expect') : q = p \/ q \in Needed(expect)
<1>0. /\ size \in 0..MaxPage /\ expect.size <= size /\ size <= expect.size + 1
      /\ free \in SUBSET (2..size) /\ p \in 1..size /\ c \in Cont
      /\ (p = 1 => c.free = free) /\ (p \in free => c = Zero)
      /\ expect.page[1].free \ {p} \subseteq free /\ free \ {p} \subseteq expect.page[1].free
      /\ (size = expect.size \/ p = size)
      /\ Expecting(size, free, p, c)
  BY DEF Expected
<1>1. expect \in DatabaseType /\ expect.size \in Nat /\ size \in Nat /\ MaxPage \in Nat
      /\ expect.page \in [Page -> Cont] /\ expect.page[1].free \subseteq 2..expect.size
  BY <1>0, Typed, Contents, PageOne DEF Valid
<1>2. p \in Page /\ free \in SUBSET Page /\ p \in Nat /\ 1 \in Page
  BY <1>0, <1>1, PageOne DEF Page
<1>3. /\ expect' \in DatabaseType /\ expect'.size = size /\ expect'.page[p] = c
      /\ \A q \in Page : q # p => expect'.page[q] = IF q = 1 THEN [expect.page[1] EXCEPT !.free = free]
                                                    ELSE expect.page[q]
  BY <1>0, <1>2, ExpectingFields DEF LayInv
<1>4. expect'.page[1].free = free
  <2>1. expect.page[1] \in Cont
    BY <1>1, <1>2
  <2>2. p # 1 => expect'.page[1].free = free
    BY <1>2, <1>3, <2>1 DEF Cont
  <2>3. QED
    BY <1>0, <1>3, <2>2
<1>5. ASSUME NEW q \in Page, q \notin Needed(expect') PROVE expect'.page[q] = Zero
  <2>1. q \in free \/ ~(q <= size)
    BY <1>3, <1>4, <1>5, PageOne DEF Needed, Page
  <2>2. CASE q = p
    BY <1>0, <1>3, <2>1, <2>2
  <2>3. CASE q # p
    <3>1. q # 1
      BY <1>0, <1>2, <2>1
    <3>2. expect'.page[q] = expect.page[q]
      BY <1>3, <2>3, <3>1
    <3>3. CASE q \in Needed(expect)
      <4>1. q \in free
        BY <1>0, <1>1, <2>1, <3>3, PageOne DEF Needed
      <4>2. q \in expect.page[1].free
        BY <1>0, <2>3, <4>1
      <4>3. QED
        BY <3>3, <4>2 DEF Needed
    <3>4. CASE q \notin Needed(expect)
      BY <3>2, <3>4 DEF Valid
    <3>5. QED
      BY <3>3, <3>4
  <2>4. QED
    BY <2>2, <2>3
<1>6. ASSUME NEW q \in Needed(expect'), q # p PROVE q \in Needed(expect)
  <2>1. q \in 1..size /\ q \notin free
    BY <1>3, <1>4 DEF Needed
  <2>2. q <= expect.size
    BY <1>0, <1>1, <1>6, <2>1
  <2>3. q \notin expect.page[1].free
    BY <1>0, <1>6, <2>1
  <2>4. QED
    BY <2>1, <2>2, <2>3 DEF Needed
<1>7. Valid(expect')
  BY <1>0, <1>3, <1>4, <1>5 DEF Valid
<1>8. QED
  BY <1>2, <1>3, <1>4, <1>6, <1>7

\* The calls that write one page.
LEMMA OneWrite ==
  ASSUME LayInv, DataInv, at = "txn", NEW p \in Page, NEW c \in Cont, NEW n, n = Write(Memory, p, c), Recall(n),
         NEW size, size = IF p > pager.dbSize THEN p ELSE pager.dbSize, size <= expect.size + 1,
         Expecting(size, Free, p, c), p \notin Free, p = 1 => c.free = Free,
         UNCHANGED <<level, file, wild, gone, base, saved, unsettled>>, job' = 0,
         at' \in {"txn", "sync", "store"}, at' = "store" => ~n.pager.needSync /\ p = 1
  PROVE  DataInv'
<1>1. /\ TxnOK(Memory, expect, {}) /\ FlagsOK(Memory, expect, base, saved) /\ Valid(expect)
      /\ expect \in DatabaseType
  BY TxnStart
<1>2. /\ Free = expect.page[1].free /\ Free \subseteq 2..expect.size /\ pager.dbSize = expect.size
      /\ expect.size \in Nat /\ 1 <= expect.size /\ expect.size <= MaxPage
  BY FreeIs
<1>3. p \in Nat /\ 1 <= p /\ p <= MaxPage /\ MaxPage \in Nat
  BY PageOne DEF Page
<1>4. /\ size \in 0..MaxPage /\ p \in 1..size /\ Free \in SUBSET (2..size) /\ expect.size <= size
      /\ size = expect.size \/ p = size
  BY <1>2, <1>3
<1>5. /\ Valid(expect') /\ expect' \in DatabaseType /\ expect'.size = size /\ expect'.page[p] = c
      /\ expect'.page[1].free = Free
      /\ \A q \in Page : q # p /\ q # 1 => expect'.page[q] = expect.page[q]
      /\ p # 1 => expect'.page[1] = [expect.page[1] EXCEPT !.free = Free]
      /\ \A q \in Needed(expect') : q = p \/ q \in Needed(expect)
  <2> DEFINE free == Free
  <2>1. Expected(size, free, p, c)
    BY <1>2, <1>4 DEF Expected
  <2>2. LayInv /\ Valid(expect)
    BY <1>1
  <2> HIDE DEF free
  <2>3. /\ Valid(expect') /\ expect' \in DatabaseType /\ expect'.size = size /\ expect'.page[p] = c
        /\ expect'.page[1].free = free
        /\ \A q \in Page : q # p /\ q # 1 => expect'.page[q] = expect.page[q]
        /\ p # 1 => expect'.page[1] = [expect.page[1] EXCEPT !.free = free]
        /\ \A q \in Needed(expect') : q = p \/ q \in Needed(expect)
    BY ONLY <2>1, <2>2, ExpectingValid
  <2>4. QED
    BY <2>3 DEF free
<1>6. p # 1 => expect'.page[1] = expect.page[1]
  <2>1. expect.page[1] \in Cont
    BY <1>1, Contents, PageOne
  <2>2. [expect.page[1] EXCEPT !.free = Free] = expect.page[1]
    BY <1>2, <2>1 DEF Cont
  <2>3. QED
    BY <1>5, <2>2
<1>7. /\ n.pg[p].inJournal /\ n.pager.state = pager.state /\ n.pager.journalStarted = pager.journalStarted
      /\ n.pager.dirtyCache /\ n.pager.dbSize = size
      /\ \A q \in Page : Flag(n, q) <=> Flag(Memory, q)
      /\ n.stmt.inUse = stmt.inUse
  <2>1. Memory.pager = pager /\ Memory.stmt = stmt
    BY MemoryFields
  <2> HIDE DEF Memory
  <2>2. QED
    BY <1>1, <2>1, WriteRest
<1>8. Changed(expect, expect', p, c, {}, {})
  <2> SUFFICES ASSUME NEW q \in Needed(expect')
               PROVE  (q = p /\ expect'.page[p] = c) \/ (q # p /\ q \in Needed(expect) /\ expect'.page[q] = expect.page[q])
    BY DEF Changed
  <2>1. q \in Page
    BY <1>5, NeededPages
  <2>2. QED
    BY <1>5, <1>6, <2>1
<1>9. TxnOK(n, expect', {})
  BY <1>1, <1>5, <1>7, <1>8, WriteTxn
<1>10. FlagsOK(n, expect', base, saved)
  <2>1. \A q \in Page : Flag(Memory, q) => Flag(n, q)
    BY <1>7
  <2>2. Memory.stmt = stmt
    BY MemoryFields
  <2>3. Free \subseteq Page /\ saved.page[1].free \subseteq Page
    <3>1. saved \in DatabaseType
      BY TxnStart
    <3>2. saved.page[1] \in Cont
      BY <3>1, PageOne, Contents
    <3>3. QED
      BY <3>2, FreeIs DEF Cont
  <2> HIDE DEF Memory
  <2>4. QED
    BY <1>1, <1>2, <1>5, <1>7, <2>1, <2>2, <2>3 DEF FlagsOK
<1>11. QED
  BY <1>5, <1>7, <1>9, <1>10, RecallData

LEMMA ModifyData == ASSUME LayInv, DataInv, NEW p \in Page, Modify(p) PROVE DataInv'
<1> DEFINE k == IF Loaded(p).data.n = 1 THEN 2 ELSE 1
           c == Content(p, k)
<1>1. /\ at = "txn" /\ p <= pager.dbSize /\ p \notin Free
      /\ Recall(Write(Memory, p, c)) /\ Expecting(pager.dbSize, Free, p, c)
      /\ UNCHANGED <<level, file, wild, gone, at, job, base, saved, unsettled>>
  BY DEF Modify, Change
<1>2. k \in Number
  BY DEF Number
<1>3. c \in Cont
  BY <1>2, LoadedType DEF LayInv
<1>4. p = 1 => c.free = Free
  BY DEF Content
<1>5. job = 0
  BY <1>1, TxnStart
<1>6. pager.dbSize = expect.size /\ expect.size \in Nat /\ p \in Nat
  BY <1>1, FreeIs, PageOne
<1>7. pager.dbSize = (IF p > pager.dbSize THEN p ELSE pager.dbSize) /\ pager.dbSize <= expect.size + 1
  BY <1>1, <1>6
<1> HIDE DEF c, k
<1>8. QED
  BY <1>1, <1>3, <1>4, <1>5, <1>7, OneWrite

LEMMA ExtendData == LayInv /\ DataInv /\ Extend => DataInv'
<1> SUFFICES ASSUME LayInv, DataInv, Extend PROVE DataInv'
  OBVIOUS
<1> DEFINE p == pager.dbSize + 1
           c == Content(p, 1)
<1>1. /\ at = "txn" /\ p \in Page /\ Free = {}
      /\ Recall(Write(Memory, p, c)) /\ Expecting(p, Free, p, c)
      /\ UNCHANGED <<level, file, wild, gone, at, job, base, saved, unsettled>>
  BY DEF Extend, Change
<1>2. c \in Cont
  BY <1>1, LoadedType DEF LayInv, Number
<1>3. job = 0
  BY <1>1, TxnStart
<1>4. pager.dbSize = expect.size /\ expect.size \in Nat /\ 1 <= expect.size
  BY <1>1, FreeIs
<1>5. p = (IF p > pager.dbSize THEN p ELSE pager.dbSize) /\ p <= expect.size + 1 /\ p # 1
  BY <1>4
<1> HIDE DEF c, p
<1>6. QED
  BY <1>1, <1>2, <1>3, <1>5, OneWrite

LEMMA CommitData == LayInv /\ DataInv /\ Commit => DataInv'
<1> SUFFICES ASSUME LayInv, DataInv, Commit PROVE DataInv'
  OBVIOUS
<1> DEFINE c == [Loaded(1).data EXCEPT !.n = (@ + 1) % 4]
           n == Write(Memory, 1, c)
<1>1. /\ at = "txn" /\ Recall(n) /\ Expecting(pager.dbSize, Free, 1, c)
      /\ at' = (IF n.pager.needSync THEN "sync" ELSE "store")
      /\ UNCHANGED <<level, file, wild, gone, base, saved, unsettled>> /\ job' = 0
  BY DEF Commit
<1>2. /\ Loaded(1).data \in Cont /\ Free = expect.page[1].free /\ Loaded(1).data = expect.page[1]
      /\ pager.dbSize = expect.size /\ expect.size \in Nat /\ 1 <= expect.size /\ 1 \notin Free
  BY <1>1, FreeIs, LoadedType, PageOne DEF LayInv
<1>3. c \in Cont /\ c.free = Free
  <2>1. \A x \in Number : (x + 1) % 4 \in Number
    BY DEF Number
  <2>2. QED
    BY <1>2, <2>1 DEF Cont
<1>4. pager.dbSize = (IF 1 > pager.dbSize THEN 1 ELSE pager.dbSize) /\ pager.dbSize <= expect.size + 1
  BY <1>2
<1> HIDE DEF c
<1>5. QED
  BY <1>1, <1>2, <1>3, <1>4, OneWrite, PageOne

\* The calls that change the free list: page 1 becomes List(free).
Relists(p, free, c) ==
  /\ p \in 2..pager.dbSize /\ free \in SUBSET (2..pager.dbSize)
  /\ Free \ {p} \subseteq free /\ free \ {p} \subseteq Free
  /\ c \in Cont /\ (p \in free => c = Zero)
  /\ Expecting(pager.dbSize, free, p, c)

Relisted(p, free, c, m) ==
  /\ Valid(expect') /\ expect' \in DatabaseType /\ expect'.page[p] = c /\ expect'.page[1].free = free
  /\ TxnOK(m, expect', {p}) /\ p \in Page /\ p # 1
  /\ \A q \in Needed(expect') : q # p => q \in Needed(expect)
  /\ m.pager.state = pager.state /\ m.pager.journalStarted = pager.journalStarted
  /\ m.pager.dirtyCache /\ m.pager.dbSize = pager.dbSize /\ m.stmt.inUse = stmt.inUse
  /\ \A q \in Page : Flag(m, q) <=> Flag(Memory, q)

LEMMA ListData ==
  ASSUME LayInv, DataInv, at = "txn", NEW p, NEW free, NEW c, Relists(p, free, c),
         NEW m, m = Write(Memory, 1, List(free))
  PROVE  Relisted(p, free, c, m)
<1>0. /\ p \in 2..pager.dbSize /\ free \in SUBSET (2..pager.dbSize)
      /\ Free \ {p} \subseteq free /\ free \ {p} \subseteq Free
      /\ c \in Cont /\ (p \in free => c = Zero) /\ Expecting(pager.dbSize, free, p, c)
  BY DEF Relists
<1>1. /\ TxnOK(Memory, expect, {}) /\ FlagsOK(Memory, expect, base, saved) /\ Valid(expect)
      /\ expect \in DatabaseType
  BY TxnStart
<1>2. /\ Free = expect.page[1].free /\ Free \subseteq 2..expect.size /\ pager.dbSize = expect.size
      /\ expect.size \in Nat /\ 1 <= expect.size /\ expect.size <= MaxPage /\ Loaded(1).data = expect.page[1]
  BY FreeIs
<1>3. p \in Page /\ p # 1 /\ MaxPage \in Nat /\ free \in SUBSET Page /\ 1 \in Page
  BY <1>0, <1>2, PageOne DEF Page
<1>4. /\ Valid(expect') /\ expect' \in DatabaseType /\ expect'.size = expect.size /\ expect'.page[p] = c
      /\ expect'.page[1].free = free
      /\ \A q \in Page : q # p /\ q # 1 => expect'.page[q] = expect.page[q]
      /\ p # 1 => expect'.page[1] = [expect.page[1] EXCEPT !.free = free]
      /\ \A q \in Needed(expect') : q = p \/ q \in Needed(expect)
  <2>1. Expected(pager.dbSize, free, p, c)
    BY <1>0, <1>2, <1>3 DEF Expected
  <2>2. QED
    BY <1>1, <1>2, <2>1, ExpectingValid
<1>5. expect'.page[1] = List(free) /\ List(free) \in Cont
  <2>1. List(free) \in Cont
    BY <1>3, LoadedType DEF LayInv
  <2>2. QED
    BY <1>2, <1>3, <1>4, <2>1 DEF List
<1>6. /\ m.pager.state = pager.state /\ m.pager.journalStarted = pager.journalStarted
      /\ m.pager.dirtyCache /\ m.pager.dbSize = pager.dbSize /\ m.stmt.inUse = stmt.inUse
      /\ \A q \in Page : Flag(m, q) <=> Flag(Memory, q)
  <2>1. Memory.pager = pager /\ Memory.stmt = stmt
    BY MemoryFields
  <2>2. pager.dbSize = (IF 1 > pager.dbSize THEN 1 ELSE pager.dbSize)
    BY <1>2
  <2> DEFINE k == List(free)
  <2>3. k \in Cont /\ m = Write(Memory, 1, k)
    BY <1>5
  <2> HIDE DEF Memory, k
  <2>4. QED
    BY <1>1, <1>3, <2>1, <2>2, <2>3, WriteRest
<1>7. Changed(expect, expect', 1, List(free), {}, {p})
  <2> SUFFICES ASSUME NEW q \in Needed(expect') \ {p}
               PROVE  \/ q = 1 /\ expect'.page[1] = List(free)
                      \/ q # 1 /\ q \in Needed(expect) \ {} /\ expect'.page[q] = expect.page[q]
    BY DEF Changed
  <2>1. q \in Page
    BY <1>4, NeededPages
  <2>2. QED
    BY <1>4, <1>5, <2>1
<1>8. TxnOK(m, expect', {p})
  <2>1. expect'.size = m.pager.dbSize
    BY <1>2, <1>4, <1>6
  <2> DEFINE k == List(free)
  <2>2. k \in Cont /\ m = Write(Memory, 1, k) /\ Changed(expect, expect', 1, k, {}, {p})
    BY <1>5, <1>7
  <2> HIDE DEF Memory, k
  <2>3. QED
    BY <1>1, <1>3, <1>4, <2>1, <2>2, WriteTxn
<1>9. QED
  BY <1>3, <1>4, <1>6, <1>8 DEF Relisted

LEMMA FreePageData == ASSUME LayInv, DataInv, NEW p \in Page, FreePage(p) PROVE DataInv'
<1> DEFINE free == Free \cup {p}
           m == Write(Memory, 1, List(free))
           n == DontWrite(m, p)
<1>1. /\ at = "txn" /\ p \in (2..pager.dbSize) \ Free
      /\ Recall(n) /\ Expecting(pager.dbSize, free, p, Zero)
      /\ UNCHANGED <<level, file, wild, gone, at, job, base, saved, unsettled>>
  BY DEF FreePage, Change
<1>2. /\ FlagsOK(Memory, expect, base, saved) /\ job = 0 /\ expect.page[1].free = Free
      /\ Free \subseteq 2..pager.dbSize /\ Zero \in Cont
  BY <1>1, TxnStart, FreeIs, Contents
<1>3. free \in SUBSET (2..pager.dbSize) /\ Free \ {p} \subseteq free /\ free \ {p} \subseteq Free
  BY <1>1, <1>2
<1> HIDE DEF free
<1>4. m = Write(Memory, 1, List(free))
  OBVIOUS
<1> HIDE DEF m
<1>5. /\ Valid(expect') /\ expect' \in DatabaseType /\ expect'.page[1].free = free
      /\ TxnOK(m, expect', {p}) /\ m.pager.state = pager.state /\ m.pager.journalStarted = pager.journalStarted
      /\ m.pager.dirtyCache /\ m.stmt.inUse = stmt.inUse
      /\ \A q \in Page : Flag(m, q) <=> Flag(Memory, q)
  <2>1. Relists(p, free, Zero)
    BY <1>1, <1>2, <1>3 DEF Relists
  <2>2. Relisted(p, free, Zero, m)
    BY <1>1, <1>4, <2>1, ListData
  <2> HIDE DEF Memory
  <2>3. QED
    BY <2>2 DEF Relisted
<1>6. p \notin Needed(expect')
  BY <1>5 DEF Needed, free
<1>7. p \notin Needed(expect') \ {p} /\ n = DontWrite(m, p)
  OBVIOUS
<1> HIDE DEF n
<1>8. /\ TxnOK(n, expect', {p}) /\ n.pager = m.pager /\ n.stmt = m.stmt
      /\ Flag(n, p) /\ \A q \in Page : Flag(m, q) => Flag(n, q)
  BY <1>1, <1>5, <1>7, DontWriteTxn
<1>9. TxnOK(n, expect', {})
  BY <1>6, <1>8 DEF TxnOK, ShowsBut
<1>10. FlagsOK(n, expect', base, saved)
  <2>1. \A q \in Page : Flag(Memory, q) => Flag(n, q)
    BY <1>5, <1>8
  <2>2. Memory.stmt = stmt /\ n.stmt.inUse = stmt.inUse
    BY <1>5, <1>8, MemoryFields
  <2>3. Free \subseteq Page /\ saved.page[1].free \subseteq Page
    <3>1. saved \in DatabaseType
      BY <1>1, TxnStart
    <3>2. saved.page[1] \in Cont
      BY <3>1, PageOne, Contents
    <3>3. QED
      BY <1>1, <3>2, FreeIs DEF Cont
  <2>4. free = Free \cup {p}
    BY DEF free
  <2> HIDE DEF Memory
  <2>5. QED
    BY <1>2, <1>5, <1>8, <2>1, <2>2, <2>3, <2>4 DEF FlagsOK
<1>11. QED
  BY <1>1, <1>2, <1>5, <1>8, <1>9, <1>10, RecallData

LEMMA ReusePageData == ASSUME LayInv, DataInv, NEW p \in Page, ReusePage(p) PROVE DataInv'
<1> DEFINE free == Free \ {p}
           c == Content(p, 1)
           m == Write(Memory, 1, List(free))
           k == DontRollback(m, p)
           n == Write(k, p, c)
<1>1. /\ at = "txn" /\ p \in Free
      /\ Recall(n) /\ Expecting(pager.dbSize, free, p, c)
      /\ UNCHANGED <<level, file, wild, gone, at, job, base, saved, unsettled>>
  BY DEF ReusePage, Change
<1>2. /\ FlagsOK(Memory, expect, base, saved) /\ job = 0 /\ expect.page[1].free = Free
      /\ Free \subseteq 2..pager.dbSize /\ c \in Cont /\ p \in 2..pager.dbSize
  BY <1>1, TxnStart, FreeIs, LoadedType DEF LayInv, Number
<1>3. free \in SUBSET (2..pager.dbSize) /\ Free \ {p} \subseteq free /\ free \ {p} \subseteq Free /\ p \notin free
  BY <1>1, <1>2
<1> HIDE DEF free, c
<1>4. m = Write(Memory, 1, List(free)) /\ k = DontRollback(m, p) /\ n = Write(k, p, c)
  OBVIOUS
<1> HIDE DEF m, k, n
<1>5. /\ Valid(expect') /\ expect' \in DatabaseType /\ expect'.page[1].free = free /\ expect'.page[p] = c
      /\ TxnOK(m, expect', {p}) /\ m.pager.state = pager.state /\ m.pager.journalStarted = pager.journalStarted
      /\ m.pager.dirtyCache /\ m.stmt.inUse = stmt.inUse /\ m.pager.dbSize = pager.dbSize
      /\ \A q \in Page : Flag(m, q) <=> Flag(Memory, q)
  <2>1. Relists(p, free, c)
    BY <1>1, <1>2, <1>3 DEF Relists
  <2>2. Relisted(p, free, c, m)
    BY <1>1, <1>4, <2>1, ListData
  <2> HIDE DEF Memory
  <2>3. QED
    BY <2>2 DEF Relisted
<1>6. ~Flag(m, p) => p \notin Needed(base) /\ (m.stmt.inUse => p \notin Needed(saved))
  <2>1. Memory.stmt = stmt
    BY MemoryFields
  <2> HIDE DEF Memory
  <2>2. SUFFICES ASSUME ~Flag(Memory, p) PROVE p \notin Needed(base) /\ (stmt.inUse => p \notin Needed(saved))
    BY <1>5
  <2>3. p \in base.page[1].free
    BY <1>1, <1>2, <2>2 DEF FlagsOK
  <2>4. stmt.inUse => p \in saved.page[1].free
    BY <1>1, <1>2, <2>1, <2>2 DEF FlagsOK
  <2>5. QED
    BY <2>3, <2>4 DEF Needed
<1>7. /\ TxnOK(k, expect', {p}) /\ k.pager.dirtyCache /\ k.stmt.inUse = stmt.inUse
      /\ k.pager.state = pager.state /\ k.pager.journalStarted = pager.journalStarted
      /\ k.pager.dbSize = pager.dbSize
      /\ \A q \in Page : Flag(m, q) => Flag(k, q)
  BY <1>1, <1>4, <1>5, <1>6, DontRollbackTxn
<1>8. /\ n.pager.state = pager.state /\ n.pager.journalStarted = pager.journalStarted /\ n.pager.dirtyCache
      /\ n.stmt.inUse = stmt.inUse
      /\ n.pager.dbSize = IF p > pager.dbSize THEN p ELSE pager.dbSize
      /\ \A q \in Page : Flag(n, q) <=> Flag(k, q)
  BY <1>1, <1>2, <1>4, <1>5, <1>7, WriteRest
<1>9. Changed(expect', expect', p, c, {p}, {})
  BY <1>5 DEF Changed
<1>10. expect'.size = n.pager.dbSize
  <2>1. SizeShows(k, expect', file)
    BY <1>7 DEF TxnOK, ShowsBut
  <2>2. p \in Nat /\ pager.dbSize \in Nat /\ p <= pager.dbSize
    BY <1>1, <1>2, FreeIs
  <2>3. QED
    BY <1>7, <1>8, <2>1, <2>2 DEF SizeShows
<1>11. TxnOK(n, expect', {})
  BY <1>1, <1>2, <1>4, <1>5, <1>7, <1>9, <1>10, WriteTxn
<1>12. FlagsOK(n, expect', base, saved)
  <2>1. \A q \in Page : Flag(Memory, q) => Flag(n, q)
    BY <1>5, <1>7, <1>8
  <2>2. Memory.stmt = stmt /\ n.stmt.inUse = stmt.inUse
    BY <1>8, MemoryFields
  <2>3. Free \subseteq Page /\ saved.page[1].free \subseteq Page
    <3>1. saved \in DatabaseType
      BY <1>1, TxnStart
    <3>2. saved.page[1] \in Cont
      BY <3>1, PageOne, Contents
    <3>3. QED
      BY <1>1, <3>2, FreeIs DEF Cont
  <2>4. free \subseteq Free
    BY DEF free
  <2> HIDE DEF Memory
  <2>5. QED
    BY <1>2, <1>5, <2>1, <2>2, <2>3, <2>4 DEF FlagsOK
<1>13. QED
  BY <1>1, <1>2, <1>5, <1>8, <1>11, <1>12, RecallData

LEMMA ReadData == ASSUME LayInv, DataInv, NEW p \in Page, Read(p) PROVE DataInv'
<1> DEFINE n == LoadPage(Memory, p)
<1>1. /\ at = "txn" /\ pg' = [pg EXCEPT ![p] = Loaded(p)]
      /\ UNCHANGED <<level, diskVars, pager, stmt, at, job, history, left>>
  BY DEF Read
<1>2. /\ TxnOK(Memory, expect, {}) /\ FlagsOK(Memory, expect, base, saved) /\ Valid(expect) /\ job = 0
      /\ expect \in DatabaseType
  BY <1>1, TxnStart
<1>3. LoadedAs(Memory, n, p) /\ TxnOK(n, expect, {})
  BY <1>1, <1>2, LoadTxn
<1>4. n.pager = pager /\ n.stmt = stmt /\ n.items = jrnl.items /\ n.pg = pg'
  BY <1>1, MemoryFields DEF LoadPage, Loaded
<1>5. Recall(n)
  <2>1. [jrnl EXCEPT !.items = jrnl.items] = jrnl
    BY Typed DEF JournalType
  <2>2. QED
    BY <1>1, <1>4, <2>1 DEF Recall, diskVars
<1>6. FlagsOK(n, expect, base, saved)
  <2>1. \A q \in Page : Flag(n, q) <=> Flag(Memory, q)
    BY <1>3, LoadCur
  <2>2. Memory.stmt = stmt
    BY MemoryFields
  <2>3. expect.page[1].free \subseteq Page /\ saved.page[1].free \subseteq Page
    <3>1. saved \in DatabaseType
      BY <1>1, TxnStart
    <3>2. saved.page[1] \in Cont /\ expect.page[1] \in Cont
      BY <1>2, <3>1, PageOne, Contents
    <3>3. QED
      BY <3>2 DEF Cont
  <2> HIDE DEF Memory, n
  <2>4. QED
    BY <1>2, <1>4, <2>1, <2>2, <2>3 DEF FlagsOK
<1>7. pager.dirtyCache \/ expect = base
  BY <1>1, TxnFacts DEF Control, InTxn
<1> HIDE DEF n
<1>8. QED
  BY <1>1, <1>2, <1>3, <1>4, <1>5, <1>6, <1>7, RecallData DEF diskVars, history

\* The calls that open and close a statement.
LEMMA StmtData ==
  ASSUME LayInv, DataInv, at = "txn", UNCHANGED <<level, diskVars, pager, at, job, expect, base, unsettled>>,
         pg' = pg \/ pg' = Committed(pg), Valid(saved'),
         StmtOK(Memory', saved', base, file), FlagsOK(Memory', expect, base, saved')
  PROVE  DataInv'
<1>1. InTxn /\ InTxn'
  BY DEF InTxn
<1>2. /\ TxnInv /\ Valid(expect) /\ Valid(base) /\ FileZero /\ GoneInv
      /\ CoreOK(Memory, base, Disk, jrnl.safe) /\ ShowsOK(Memory, expect, file) /\ Control
      /\ PagerOK(Memory) /\ SizesOK(Memory, base, file)
  BY <1>1, TxnFacts
<1>3. \A p \in Page : /\ pg'[p].in = pg[p].in /\ pg'[p].data = pg[p].data
                      /\ pg'[p].dirty = pg[p].dirty /\ pg'[p].inJournal = pg[p].inJournal
                      /\ pg'[p].needSync = pg[p].needSync
                      /\ (pg[p] = Absent => pg'[p] = Absent)
  <2>1. pg \in [Page -> PgHdr]
    BY Typed
  <2>2. CASE pg' = pg
    BY <2>2
  <2>3. CASE pg' = Committed(pg)
    <3>1. /\ \A p \in Page : pg'[p] = [pg[p] EXCEPT !.inStmt = FALSE]
          /\ \A p \in Page : /\ pg'[p].in = pg[p].in /\ pg'[p].data = pg[p].data
                             /\ pg'[p].dirty = pg[p].dirty /\ pg'[p].inJournal = pg[p].inJournal
                             /\ pg'[p].needSync = pg[p].needSync
      BY <2>1, <2>3, CommittedFields
    <3>2. [Absent EXCEPT !.inStmt = FALSE] = Absent
      <4>1. Absent \in PgHdr /\ Absent.inStmt = FALSE
        BY EmptyTypes DEF Absent
      <4>2. \A h \in PgHdr : h.inStmt = FALSE => [h EXCEPT !.inStmt = FALSE] = h
        BY DEF PgHdr
      <4>3. QED
        BY <4>1, <4>2
    <3>3. QED
      BY <3>1, <3>2
  <2>4. QED
    BY <2>2, <2>3
<1>4. /\ Memory'.pager = pager /\ Memory'.pg = pg' /\ Memory'.items = jrnl.items
      /\ Memory.pager = pager /\ Memory.pg = pg /\ Memory.items = jrnl.items
  BY MemoryFields DEF diskVars
<1>5. Disk' = Disk /\ file' = file /\ wild' = wild /\ jrnl' = jrnl /\ gone' = gone /\ base' = base /\ expect' = expect
      /\ pager' = pager /\ level' = level /\ unsettled' = unsettled /\ at' = at /\ job' = job
  BY QuietDisk DEF diskVars
<1> DEFINE m == Memory
           n == Memory'
<1>6. /\ n.pager = m.pager /\ n.items = m.items
      /\ \A p \in Page : /\ n.pg[p].in = m.pg[p].in /\ n.pg[p].data = m.pg[p].data
                         /\ n.pg[p].dirty = m.pg[p].dirty /\ n.pg[p].inJournal = m.pg[p].inJournal
                         /\ n.pg[p].needSync = m.pg[p].needSync
                         /\ (m.pg[p] = Absent => n.pg[p] = Absent)
  BY <1>3, <1>4
<1>7. CoreOK(m, base, Disk, jrnl.safe) /\ ShowsOK(m, expect, file)
  BY <1>2
<1>8. base \in DatabaseType /\ expect \in DatabaseType
  BY Typed
<1> HIDE DEF m, n
<1>9. CoreOK(n, base, Disk, jrnl.safe)
  <2>1. SizesOK(n, base, Disk.file)
    BY <1>6, <1>7, PageOne DEF CoreOK, SizesOK
  <2>2. PagerOK(n) /\ ItemsOK(n, base)
    BY <1>6, <1>7 DEF CoreOK, PagerOK, ItemsOK
  <2>3. ASSUME NEW p \in Page PROVE CachePage(n, base, p)
    <3>1. CachePage(m, base, p)
      BY <1>7 DEF CoreOK
    <3>2. QED
      BY <1>6, <3>1 DEF CachePage
  <2>4. ASSUME NEW p \in Needed(base) PROVE OriginalPage(n, base, Disk, jrnl.safe, p)
    <3>1. OriginalPage(m, base, Disk, jrnl.safe, p) /\ p \in Page
      BY <1>7, <1>8, NeededPages DEF CoreOK
    <3>2. QED
      BY <1>6, <3>1 DEF OriginalPage, Cur
  <2>5. QED
    BY <2>1, <2>2, <2>3, <2>4 DEF CoreOK
<1>10. ShowsOK(n, expect, file)
  <2>1. SizeShows(n, expect, file)
    <3>1. SizeShows(m, expect, file)
      BY <1>7 DEF ShowsOK
    <3>2. expect.size \in Page
      BY <1>8, <3>1, Contents DEF SizeShows, Page
    <3>3. QED
      BY <1>6, <3>1, <3>2 DEF SizeShows
  <2>2. ASSUME NEW p \in Needed(expect) PROVE ShowsPage(n, expect, file, p)
    <3>1. ShowsPage(m, expect, file, p) /\ p \in Page
      BY <1>7, <1>8, NeededPages DEF ShowsOK
    <3>2. QED
      BY <1>6, <3>1 DEF ShowsPage, Cur
  <2>3. QED
    BY <2>1, <2>2 DEF ShowsOK
<1>11. TxnInv'
  <2>1. /\ CoreOK(Memory', base', Disk', jrnl'.safe) /\ ShowsOK(Memory', expect', file')
        /\ StmtOK(Memory', saved', base', file') /\ FlagsOK(Memory', expect', base', saved')
    BY <1>5, <1>9, <1>10 DEF n
  <2>2. /\ SizesFrom(Disk', base'.size)
        /\ ~jrnl'.named \/ pager'.state = "RESERVED" => Pure(Disk', base')
        /\ pager'.journalStarted => jrnl'.named /\ jrnl'.safe >= 1
        /\ pager'.state # "SYNCED"
    BY <1>2, <1>5 DEF TxnInv, Spilling
  <2>3. Control'
    <3>1. job = 0
      BY <1>2 DEF Control
    <3>2. QED
      BY <1>2, <1>5, <3>1 DEF Control
  <2> HIDE DEF Memory, Disk
  <2>4. QED
    BY <2>1, <2>2, <2>3 DEF TxnInv
<1>12. GoneInv'
  <2>1. \A c, p : Harmless(c, p)' <=> Harmless(c, p)
    BY <1>5 DEF Harmless
  <2>2. QED
    BY <1>1, <1>2, <1>3, <1>5, <2>1 DEF GoneInv, Harmless
<1>13. FileZero'
  BY <1>2, <1>5 DEF FileZero
<1>14. QED
  BY <1>1, <1>2, <1>5, <1>11, <1>12, <1>13 DEF DataInv

LEMMA StmtCommitData == LayInv /\ DataInv /\ StmtCommit => DataInv'
<1> SUFFICES ASSUME LayInv, DataInv, StmtCommit PROVE DataInv'
  OBVIOUS
<1>1. /\ at = "txn" /\ stmt' = NoStmt /\ pg' = Committed(pg) /\ saved' = base
      /\ UNCHANGED <<level, diskVars, pager, at, job, expect, base, unsettled>>
  BY DEF StmtCommit
<1>2. FlagsOK(Memory, expect, base, saved) /\ Valid(base)
  BY <1>1, TxnStart
<1>3. \A p \in Page : ~pg'[p].inStmt /\ pg'[p].alwaysRollback = pg[p].alwaysRollback
  BY <1>1, Typed, CommittedFields
<1>4. StmtOK(Memory', saved', base, file)
  <2>1. Memory'.stmt = NoStmt /\ Memory'.pg = pg'
    BY <1>1, MemoryFields
  <2> HIDE DEF Memory
  <2>2. QED
    BY <1>3, <2>1 DEF StmtOK, NoStmt
<1>5. FlagsOK(Memory', expect, base, saved')
  <2>1. Memory'.stmt = NoStmt /\ Memory'.pg = pg' /\ Memory'.pager = pager /\ Memory.pg = pg /\ Memory.pager = pager
    BY <1>1, MemoryFields
  <2>2. expect.page[1].free \subseteq Page
    BY Typed, PageOne, Contents DEF Cont
  <2>3. ~NoStmt.inUse
    BY DEF NoStmt
  <2> HIDE DEF Memory
  <2>4. \A p \in Page : Flag(Memory, p) => Flag(Memory', p)
    BY <1>3, <2>1 DEF Flag
  <2>5. QED
    BY <1>2, <2>1, <2>2, <2>3, <2>4 DEF FlagsOK
<1>6. QED
  BY <1>1, <1>2, <1>4, <1>5, StmtData

LEMMA StmtBeginData == LayInv /\ DataInv /\ StmtBegin => DataInv'
<1> SUFFICES ASSUME LayInv, DataInv, StmtBegin PROVE DataInv'
  OBVIOUS
<1>1. /\ at = "txn" /\ ~stmt.inUse /\ saved' = expect
      /\ stmt' = [NoStmt EXCEPT !.inUse = TRUE, !.size = pager.dbSize, !.from = Len(jrnl.items)]
      /\ UNCHANGED <<level, diskVars, pager, pg, at, job, expect, base, unsettled>>
  BY DEF StmtBegin
<1>2. /\ FlagsOK(Memory, expect, base, saved) /\ Valid(expect) /\ InTxn /\ expect \in DatabaseType
      /\ base \in DatabaseType
  BY <1>1, TxnStart
<1>3. /\ TxnInv /\ CoreOK(Memory, base, Disk, jrnl.safe) /\ ShowsOK(Memory, expect, file) /\ Control
      /\ PagerOK(Memory) /\ SizesOK(Memory, base, file)
  BY <1>2, TxnFacts
<1>4. /\ stmt'.inUse /\ stmt'.size = pager.dbSize /\ stmt'.from = Len(jrnl.items)
      /\ stmt'.recs = <<>> /\ stmt'.aInStmt = {}
  BY <1>1 DEF NoStmt
<1>5. /\ Memory'.pager = pager /\ Memory'.pg = pg /\ Memory'.items = jrnl.items /\ Memory'.stmt = stmt'
      /\ Memory.pager = pager /\ Memory.pg = pg /\ Memory.stmt = stmt
  BY <1>1, MemoryFields DEF diskVars
<1>6. ASSUME NEW p \in Page PROVE ~pg[p].inStmt
  BY <1>1, <1>3, <1>5 DEF TxnInv, Spilling, StmtOK
<1>7. Len(jrnl.items) \in Nat
  BY Typed
<1> DEFINE n == Memory'
<1>8. /\ n.pager = pager /\ n.pg = pg /\ n.items = jrnl.items /\ n.stmt.inUse /\ n.stmt.size = pager.dbSize
      /\ n.stmt.from = Len(jrnl.items) /\ n.stmt.recs = <<>> /\ n.stmt.aInStmt = {}
  BY <1>4, <1>5
<1> HIDE DEF n
<1>9. \A p : ~Hit(n, p)
  <2>1. Len(<<>>) = 0
    OBVIOUS
  <2>2. \A p : ~InRecs(n, p)
    BY <1>8, <2>1 DEF InRecs
  <2>3. (n.stmt.from + 1)..Len(n.items) = {}
    BY <1>7, <1>8
  <2>4. \A p : ~InTail(n, p)
    BY <2>3 DEF InTail
  <2>5. QED
    BY <2>2, <2>4 DEF Hit
<1>10. StmtOpen(n, expect, base)
  <2>1. pager.dbSize = expect.size /\ 1 <= expect.size /\ (pager.dbSize > file.size => pg[pager.dbSize].dirty)
    BY <1>3, <1>5 DEF ShowsOK, SizeShows
  <2>2. base.size <= pager.dbSize
    BY <1>3, <1>5 DEF SizesOK
  <2>3. pager.state = "RESERVED" => file.size = base.size
    BY <1>3, DiskIs DEF TxnInv, Pure
  <2>4. ~pager.dirtyCache => expect = base
    BY <1>3 DEF Control
  <2>5. expect.size \in Nat
    BY <1>2, Contents
  <2>6. QED
    BY <1>7, <1>8, <2>1, <2>2, <2>3, <2>4, <2>5 DEF StmtOpen
<1>11. StmtRecs(n, expect)
  <2>1. Len(<<>>) = 0
    OBVIOUS
  <2>2. (n.stmt.from + 1)..Len(n.items) = {} /\ 1..Len(n.stmt.recs) = {}
    BY <1>7, <1>8, <2>1
  <2>3. QED
    BY <2>2 DEF StmtRecs
<1>12. ASSUME NEW p \in Page PROVE StmtPage(n, expect, base, file, p)
  <2>1. p \in Needed(expect) => ShowsPage(Memory, expect, file, p)
    BY <1>3 DEF ShowsOK
  <2>2. Cur(n, file, p) = Cur(Memory, file, p)
    BY <1>5, <1>8 DEF Cur
  <2>3. QED
    BY <1>5, <1>6, <1>8, <1>9, <2>1, <2>2 DEF StmtPage, ShowsPage
<1>13. StmtOK(n, expect, base, file)
  BY <1>8, <1>10, <1>11, <1>12 DEF StmtOK
<1>14. FlagsOK(n, expect, base, expect)
  <2>1. \A p : Flag(n, p) <=> Flag(Memory, p)
    BY <1>5, <1>8 DEF Flag
  <2>2. QED
    BY <1>2, <2>1 DEF FlagsOK
<1>15. QED
  BY <1>1, <1>2, <1>13, <1>14, StmtData DEF n

\* The memory once the journal is opened, before a new database gets its page 1.
Opened == [pager |-> [Closed(pager.dbSize) EXCEPT
                        !.state = "RESERVED", !.origDbSize = pager.dbSize, !.journalHdr = 1],
           stmt |-> NoStmt, pg |-> [pg EXCEPT ![1] = Loaded(1)],
           items |-> <<Header(pager.dbSize)>>]

\* What the memory is then, and after the page was written.
OpenOK(m, e, f) ==
  /\ MemoryType(m) /\ CoreOK(m, expect, Disk, 0) /\ StmtOK(m, expect, expect, file)
  /\ ShowsOK(m, e, f) /\ m.pager.state = "RESERVED" /\ ~m.pager.journalStarted
  /\ gone.jrnl.exists /\ ~unsettled => GoneOK(m)
  /\ ~m.pager.dirtyCache => e = expect

LEMMA IdleFacts ==
  ASSUME LayInv, DataInv, at = "idle"
  PROVE  /\ ~InTxn /\ IdleInv /\ pager = Closed(file.size) /\ jrnl = NoJournal /\ stmt = NoStmt /\ job = 0
         /\ base = expect /\ saved = expect /\ \A p \in Page : IdlePage(p)
         /\ Pure(Disk, expect) /\ file.size = expect.size /\ pager.dbSize = expect.size
         /\ \A p \in Needed(expect) : FileIs(Disk, p, expect.page[p]) /\ file.page[p] = expect.page[p]
         /\ Valid(expect) /\ FileZero /\ GoneInv /\ ~jrnl.named /\ jrnl.items = <<>>
<1>1. ~InTxn
  BY NotInTxn
<1>2. /\ IdleInv /\ pager = Closed(file.size) /\ jrnl = NoJournal /\ stmt = NoStmt /\ job = 0
      /\ base = expect /\ saved = expect /\ \A p \in Page : IdlePage(p)
      /\ Valid(expect) /\ FileZero /\ GoneInv
  BY <1>1 DEF DataInv, IdleInv
<1>3. ~jrnl.named /\ jrnl.items = <<>>
  BY <1>2 DEF NoJournal
<1>4. Pure(Disk, expect)
  BY <1>2, <1>3 DEF IdleInv
<1>5. file.size = expect.size /\ \A p \in Needed(expect) : FileIs(Disk, p, expect.page[p])
  BY <1>4, DiskIs DEF Pure
<1>6. \A p \in Needed(expect) : file.page[p] = expect.page[p]
  BY <1>5, DiskIs
<1>7. pager.dbSize = expect.size
  BY <1>2, <1>5 DEF Closed
<1>8. QED
  BY <1>1, <1>2, <1>3, <1>4, <1>5, <1>6, <1>7

LEMMA OpenedFields ==
  ASSUME LayInv, DataInv, at = "idle", NEW o, o = Opened
  PROVE  /\ MemoryType(o) /\ o.stmt = NoStmt /\ Len(o.items) = 1 /\ o.items[1].type = "header"
         /\ o.pager.state = "RESERVED" /\ o.pager.dbSize = expect.size /\ o.pager.origDbSize = expect.size
         /\ o.pager.journalHdr = 1 /\ ~o.pager.needSync /\ ~o.pager.journalStarted
         /\ ~o.pager.alwaysRollback /\ o.pager.aInJournal = {} /\ ~o.pager.dirtyCache
         /\ \A p \in Page : p # 1 => o.pg[p] = pg[p]
         /\ o.pg[1].in /\ Get(o, 1) = o.pg[1]
         /\ \A p \in Page : /\ ~o.pg[p].dirty /\ ~o.pg[p].needSync /\ ~o.pg[p].inJournal /\ ~o.pg[p].inStmt
                            /\ ~o.pg[p].in => o.pg[p] = Absent
                            /\ o.pg[p].in /\ p \in Needed(expect) => o.pg[p].data = expect.page[p]
         /\ o.pg[1].data = IF pg[1].in THEN pg[1].data ELSE file.page[1]
<1>1. /\ pager = Closed(file.size) /\ \A p \in Page : IdlePage(p)
      /\ file.size = expect.size /\ pager.dbSize = expect.size /\ FileZero /\ stmt = NoStmt
      /\ \A p \in Needed(expect) : file.page[p] = expect.page[p]
  BY IdleFacts
<1>2. pager.dbSize \in 0..MaxPage /\ file \in DatabaseType /\ expect \in DatabaseType /\ pg \in [Page -> PgHdr]
      /\ MemoryType(Memory) /\ pager.dbSize \in Nat
  BY Typed
<1>3. /\ o.pager = [Closed(pager.dbSize) EXCEPT !.state = "RESERVED", !.origDbSize = pager.dbSize, !.journalHdr = 1]
      /\ o.stmt = NoStmt /\ o.pg = [pg EXCEPT ![1] = Loaded(1)] /\ o.items = <<Header(pager.dbSize)>>
  BY DEF Opened
<1>4. /\ o.pager.state = "RESERVED" /\ o.pager.dbSize = expect.size /\ o.pager.origDbSize = expect.size
      /\ o.pager.journalHdr = 1 /\ ~o.pager.needSync /\ ~o.pager.journalStarted
      /\ ~o.pager.alwaysRollback /\ o.pager.aInJournal = {} /\ ~o.pager.dirtyCache
  BY <1>1, <1>3 DEF Closed
<1>5. o.pager \in PagerType
  BY <1>2, <1>3, EmptyTypes, PageOne DEF Closed, PagerType
<1>6. o.items \in Seq(Item) /\ Len(o.items) = 1 /\ o.items[1].type = "header"
  BY <1>2, <1>3, Items, OneSeq
<1> DEFINE h == Loaded(1)
<1>7. /\ h \in PgHdr /\ h.in
      /\ h.data = IF pg[1].in THEN pg[1].data
                  ELSE IF 1 <= pager.dbSize /\ 1 <= file.size THEN file.page[1] ELSE Zero
      /\ h.dirty = (pg[1].in /\ pg[1].dirty)
      /\ h.inJournal = IF pg[1].in THEN pg[1].inJournal ELSE 1 \in pager.aInJournal /\ 1 <= pager.origDbSize
      /\ h.needSync = (pg[1].in /\ pg[1].needSync)
      /\ h.inStmt = IF pg[1].in THEN pg[1].inStmt ELSE 1 \in stmt.aInStmt /\ 1 <= stmt.size
  BY <1>2, GetFields, PageOne, MemoryFields DEF Loaded
<1>8. IdlePage(1) /\ 1 \in Page
  BY <1>1, PageOne
<1>9. pager.aInJournal = {} /\ stmt.aInStmt = {}
  BY <1>1 DEF Closed, NoStmt
<1>10. h.data = IF pg[1].in THEN pg[1].data ELSE file.page[1]
  <2>1. CASE pg[1].in
    BY <1>7, <2>1
  <2>2. CASE ~pg[1].in /\ 1 <= pager.dbSize
    BY <1>1, <1>7, <2>2
  <2>3. CASE ~pg[1].in /\ ~(1 <= pager.dbSize)
    <3>1. 1 > file.size
      BY <1>1, <1>2, <2>3
    <3>2. file.page[1] = Zero
      BY <1>1, <1>8, <3>1 DEF FileZero
    <3>3. QED
      BY <1>7, <2>3, <3>2
  <2>4. QED
    BY <2>1, <2>2, <2>3
<1>11. ~h.dirty /\ ~h.needSync /\ ~h.inJournal /\ ~h.inStmt
  BY <1>7, <1>8, <1>9 DEF IdlePage
<1>12. 1 \in Needed(expect) => h.data = expect.page[1]
  BY <1>1, <1>8, <1>10 DEF IdlePage
<1> HIDE DEF h
<1>13. o.pg \in [Page -> PgHdr] /\ o.pg[1] = h /\ \A p \in Page : p # 1 => o.pg[p] = pg[p]
  BY <1>2, <1>3, <1>7, <1>8 DEF h
<1>14. MemoryType(o)
  BY <1>3, <1>5, <1>6, <1>13, EmptyTypes DEF MemoryType
<1>15. Get(o, 1) = o.pg[1]
  BY <1>7, <1>13 DEF Get
<1>16. ASSUME NEW p \in Page
       PROVE  /\ ~o.pg[p].dirty /\ ~o.pg[p].needSync /\ ~o.pg[p].inJournal /\ ~o.pg[p].inStmt
              /\ ~o.pg[p].in => o.pg[p] = Absent
              /\ o.pg[p].in /\ p \in Needed(expect) => o.pg[p].data = expect.page[p]
  <2>1. CASE p = 1
    BY <1>7, <1>11, <1>12, <1>13, <2>1
  <2>2. CASE p # 1
    BY <1>1, <1>13, <2>2 DEF IdlePage
  <2>3. QED
    BY <2>1, <2>2
<1>17. QED
  BY <1>3, <1>4, <1>6, <1>7, <1>10, <1>13, <1>14, <1>15, <1>16

LEMMA OpenedData ==
  ASSUME LayInv, DataInv, at = "idle", NEW o, o = Opened
  PROVE  /\ CoreOK(o, expect, Disk, 0) /\ StmtOK(o, expect, expect, file)
         /\ gone.jrnl.exists /\ ~unsettled => GoneOK(o)
         /\ \A p \in Needed(expect) : ShowsPage(o, expect, file, p)
<1>1. /\ MemoryType(o) /\ o.stmt = NoStmt /\ Len(o.items) = 1 /\ o.items[1].type = "header"
      /\ o.pager.state = "RESERVED" /\ o.pager.dbSize = expect.size /\ o.pager.origDbSize = expect.size
      /\ ~o.pager.needSync /\ ~o.pager.journalStarted
      /\ ~o.pager.alwaysRollback /\ o.pager.aInJournal = {} /\ ~o.pager.dirtyCache
      /\ \A p \in Page : p # 1 => o.pg[p] = pg[p]
      /\ o.pg[1].in
      /\ o.pg[1].data = IF pg[1].in THEN pg[1].data ELSE file.page[1]
  BY OpenedFields
<1>2. \A p \in Page : /\ ~o.pg[p].dirty /\ ~o.pg[p].needSync /\ ~o.pg[p].inJournal /\ ~o.pg[p].inStmt
                      /\ ~o.pg[p].in => o.pg[p] = Absent
                      /\ o.pg[p].in /\ p \in Needed(expect) => o.pg[p].data = expect.page[p]
  BY OpenedFields
<1>3. /\ file.size = expect.size /\ \A p \in Needed(expect) : FileIs(Disk, p, expect.page[p])
      /\ \A p \in Needed(expect) : file.page[p] = expect.page[p]
      /\ GoneInv /\ ~InTxn
  BY IdleFacts
<1>4. expect \in DatabaseType /\ expect.size \in Nat
  BY Typed, Contents
<1>5. \A p \in Needed(expect) : p \in Page
  BY <1>4, NeededPages
<1>6. CoreOK(o, expect, Disk, 0)
  <2>1. SizesOK(o, expect, Disk.file)
    BY <1>1, <1>3, <1>4, DiskFields DEF SizesOK
  <2>2. PagerOK(o)
    BY <1>1 DEF PagerOK
  <2>3. ItemsOK(o, expect)
    BY <1>1 DEF ItemsOK
  <2>4. \A p \in Page : CachePage(o, expect, p)
    BY <1>1, <1>2 DEF CachePage
  <2>5. \A p \in Needed(expect) : OriginalPage(o, expect, Disk, 0, p)
    BY <1>1, <1>2, <1>3, <1>5, DiskFields DEF OriginalPage, Cur
  <2>6. QED
    BY <2>1, <2>2, <2>3, <2>4, <2>5 DEF CoreOK
<1>7. StmtOK(o, expect, expect, file)
  BY <1>1, <1>2 DEF StmtOK, NoStmt
<1>8. \A p \in Needed(expect) : ShowsPage(o, expect, file, p)
  BY <1>2, <1>3, <1>5 DEF ShowsPage, Cur
<1>9. ASSUME gone.jrnl.exists, ~unsettled PROVE GoneOK(o)
  <2>1. \A p \in Page : Harmless(file.page[p], p)
    BY <1>9, GoneFacts
  <2>2. \A p \in Page : pg[p].in => Harmless(pg[p].data, p)
    BY <1>3, <1>9 DEF GoneInv
  <2>3. ASSUME NEW p \in Page, o.pg[p].in PROVE Harmless(o.pg[p].data, p)
    BY <1>1, <2>1, <2>2, <2>3, PageOne
  <2>4. \A i \in 1..Len(o.items) : o.items[i].type # "record"
    BY <1>1
  <2>5. QED
    BY <2>3, <2>4 DEF GoneOK
<1>10. QED
  BY <1>6, <1>7, <1>8, <1>9

LEMMA BeginData == LayInv /\ DataInv /\ Begin => DataInv'
<1> SUFFICES ASSUME LayInv, DataInv, Begin PROVE DataInv'
  OBVIOUS
<1> DEFINE m == IF pager.dbSize = 0 THEN Write(Opened, 1, Zero) ELSE Opened
<1>1. /\ at = "idle" /\ pager' = m.pager /\ stmt' = m.stmt /\ pg' = m.pg
      /\ jrnl' = [exists |-> TRUE, items |-> m.items, safe |-> 0, named |-> FALSE]
      /\ expect' = [expect EXCEPT !.size = m.pager.dbSize]
      /\ at' = "txn" /\ base' = expect /\ saved' = expect
      /\ UNCHANGED <<level, file, wild, gone, job, unsettled>>
  BY DEF Begin, Opened
<1>2. /\ pager.dbSize = expect.size /\ file.size = expect.size /\ Pure(Disk, expect) /\ Valid(expect) /\ FileZero
      /\ GoneInv /\ job = 0
  BY <1>1, IdleFacts
<1>3. expect \in DatabaseType /\ expect.size \in Nat /\ expect.size \in 0..MaxPage /\ file \in DatabaseType
      /\ 1 \in Page /\ Zero \in Cont /\ file.size \in Nat
  BY Typed, Contents, PageOne
<1>4. Disk' = Disk
  BY <1>1, QuietDisk
<1>5. OpenOK(m, expect', file) /\ Valid(expect')
  <2> DEFINE o == Opened
  <2>1. /\ MemoryType(o) /\ o.stmt = NoStmt /\ Len(o.items) = 1
        /\ o.pager.state = "RESERVED" /\ o.pager.dbSize = expect.size /\ o.pager.origDbSize = expect.size
        /\ o.pager.journalHdr = 1 /\ ~o.pager.journalStarted /\ o.pager.aInJournal = {} /\ ~o.pager.dirtyCache
        /\ o.pg[1].in /\ Get(o, 1) = o.pg[1]
    BY <1>1, OpenedFields
  <2>2. /\ CoreOK(o, expect, Disk, 0) /\ StmtOK(o, expect, expect, file)
        /\ gone.jrnl.exists /\ ~unsettled => GoneOK(o)
        /\ \A p \in Needed(expect) : ShowsPage(o, expect, file, p)
    BY <1>1, OpenedData
  <2>3. CASE pager.dbSize # 0
    <3>1. m = o
      BY <2>3
    <3> HIDE DEF o, m
    <3>2. expect' = expect
      BY <1>1, <1>3, <2>1, <3>1, Contents
    <3>3. ShowsOK(o, expect, file)
      <4>1. SizeShows(o, expect, file)
        BY <1>2, <1>3, <2>1, <2>3 DEF SizeShows
      <4>2. QED
        BY <2>2, <4>1 DEF ShowsOK
    <3>4. QED
      BY <1>2, <2>1, <2>2, <3>1, <3>2, <3>3 DEF OpenOK
  <2>4. CASE pager.dbSize = 0
    <3>1. m = Write(o, 1, Zero)
      BY <2>4
    <3> HIDE DEF o, m
    <3>2. Wrote(o, 1, Zero, m, o.pg[1])
      BY <1>3, <2>1, <3>1, WriteFields
    <3>3. Written(o, 1, Zero, m)
      BY <1>3, <2>1, <3>2, WrittenIs
    <3>4. /\ MemoryType(m) /\ m.pager.state = "RESERVED" /\ ~m.pager.journalStarted /\ m.pager.dirtyCache
          /\ m.pager.dbSize = 1
      <4>1. o.pager.dbSize = 0
        BY <1>2, <2>1, <2>4
      <4>2. MemoryType(m) /\ m.pager.state = o.pager.state /\ m.pager.journalStarted = o.pager.journalStarted
            /\ m.pager.dirtyCache /\ m.pager.dbSize = IF 1 > o.pager.dbSize THEN 1 ELSE o.pager.dbSize
        BY <3>2 DEF Wrote
      <4>3. QED
        BY <2>1, <4>1, <4>2
    <3>5. o.pager.journalHdr \in 1..Len(o.items)
      BY <2>1
    <3>6. CoreOK(m, expect, Disk, 0)
      BY <1>3, <2>1, <2>2, <3>3, <3>5, WriteCore, DiskFields
    <3>7. StmtOK(m, expect, expect, file)
      BY <1>3, <2>1, <2>2, <3>3, WriteStmt
    <3>8. Needed(expect) = {} /\ expect.size = 0
      BY <1>2, <2>4 DEF Needed
    <3>9. expect' \in DatabaseType /\ expect'.size = 1 /\ expect'.page = expect.page
      BY <1>1, <1>3, <3>4, PageOne, Contents DEF Page
    <3>10. expect.page[1].free = {} /\ \A p \in Page : expect.page[p] = Zero
      <4>1. \A p \in Page : expect.page[p] = Zero
        BY <1>2, <3>8 DEF Valid
      <4>2. QED
        BY <1>3, <4>1, Contents
    <3>11. Valid(expect')
      BY <3>9, <3>10 DEF Valid
    <3>12. Needed(expect') = {1}
      BY <3>9, <3>10 DEF Needed
    <3>13. Changed(expect, expect', 1, Zero, {}, {})
      BY <1>3, <3>9, <3>10, <3>12 DEF Changed
    <3>14. ShowsBut(m, expect', file, {})
      <4>1. 1 > o.pager.dbSize
        BY <2>1, <3>8
      <4>2. expect'.size = m.pager.dbSize
        BY <3>4, <3>9
      <4>3. \A q \in Needed(expect) \ {} : ShowsPage(o, expect, file, q)
        BY <2>2
      <4>4. QED
        BY <1>3, <2>1, <3>3, <3>9, <3>13, <4>1, <4>2, <4>3, WriteShows
    <3>15. ShowsOK(m, expect', file)
      BY <3>14 DEF ShowsBut, ShowsOK
    <3>16. gone.jrnl.exists /\ ~unsettled => GoneOK(m)
      <4> SUFFICES ASSUME gone.jrnl.exists, ~unsettled PROVE GoneOK(m)
        OBVIOUS
      <4>1. gone.to \in DatabaseType /\ gone.to.size <= file.size
        BY GoneFacts
      <4>2. gone.to.size <= expect.size
        BY <1>2, <4>1
      <4>3. GoneOK(o)
        BY <2>2
      <4>4. QED
        BY <1>3, <2>1, <2>2, <3>3, <3>5, <4>1, <4>2, <4>3, WriteGone
    <3>17. QED
      BY <3>4, <3>6, <3>7, <3>11, <3>15, <3>16 DEF OpenOK
  <2>5. QED
    BY <2>3, <2>4
<1>6. expect'.page[1].free = expect.page[1].free
  BY <1>1, <1>3, Contents
<1> HIDE DEF m
<1>7. jrnl'.exists /\ jrnl'.items = m.items /\ jrnl'.safe = 0 /\ ~jrnl'.named
  BY <1>1
<1>8. /\ CoreOK(Memory', base', Disk', jrnl'.safe) /\ ShowsOK(Memory', expect', file')
      /\ StmtOK(Memory', saved', base', file') /\ FlagsOK(Memory', expect', base', saved')
      /\ gone.jrnl.exists /\ ~unsettled => GoneOK(Memory')
  <2>1. Memory'.pager = m.pager /\ Memory'.stmt = m.stmt /\ Memory'.pg = m.pg /\ Memory'.items = m.items
    BY <1>1, <1>7, MemoryFields
  <2>2. /\ CoreOK(m, expect, Disk, 0) /\ StmtOK(m, expect, expect, file) /\ ShowsOK(m, expect', file)
        /\ gone.jrnl.exists /\ ~unsettled => GoneOK(m)
    BY <1>5 DEF OpenOK
  <2>3. CoreOK(Memory', expect, Disk, 0)
    BY <2>1, <2>2, SameMemory
  <2>4. ShowsOK(Memory', expect', file)
    BY <2>1, <2>2, SameMemory
  <2>5. StmtOK(Memory', expect, expect, file)
    BY <2>1, <2>2, SameMemory
  <2>6. FlagsOK(Memory', expect', expect, expect)
    BY <1>6 DEF FlagsOK
  <2>7. gone.jrnl.exists /\ ~unsettled => GoneOK(Memory')
    BY <2>1, <2>2, SameMemory
  <2> HIDE DEF Memory, Disk
  <2>8. QED
    BY <1>1, <1>4, <1>7, <2>3, <2>4, <2>5, <2>6, <2>7
<1>9. InTxn'
  BY <1>1 DEF InTxn
<1>10. TxnInv'
  <2>1. SizesFrom(Disk', base'.size) /\ Pure(Disk', base')
    <3>1. SizesFrom(Disk, expect.size)
      BY <1>2, <1>3, DiskIs DEF Pure
    <3>2. QED
      BY <1>1, <1>2, <1>4, <3>1
  <2>2. pager'.state = "RESERVED" /\ ~pager'.journalStarted /\ (~pager'.dirtyCache => expect' = expect)
    BY <1>1, <1>5 DEF OpenOK
  <2>3. Control'
    BY <1>1, <1>2, <2>2 DEF Control
  <2>4. QED
    BY <1>8, <2>1, <2>2, <2>3 DEF TxnInv
<1>11. GoneInv'
  <2>2. ASSUME gone'.jrnl.exists, ~unsettled'
        PROVE  /\ Valid(gone'.to) /\ Crash(Disk', gone'.jrnl, gone'.to, level')
               /\ \A i \in 1..Len(jrnl'.items) :
                    jrnl'.items[i].type = "record" => Harmless(jrnl'.items[i].data, jrnl'.items[i].page)
               /\ \A p \in Page : pg'[p].in /\ ~(InTxn' /\ p \in pager'.aInJournal) => Harmless(pg'[p].data, p)
    <3>1. gone.jrnl.exists /\ ~unsettled
      BY <1>1, <2>2
    <3>2. Valid(gone'.to) /\ Crash(Disk', gone'.jrnl, gone'.to, level')
      BY <1>1, <1>2, <1>4, <3>1 DEF GoneInv
    <3>3. GoneOK(m)
      BY <1>5, <3>1 DEF OpenOK
    <3>4. QED
      BY <1>1, <1>7, <1>9, <3>2, <3>3 DEF GoneOK
  <2>3. jrnl'.named => jrnl'.exists /\ ~gone'.jrnl.exists
    BY <1>7
  <2>4. level' = level /\ gone' = gone
    BY <1>1
  <2>5. QED
    BY <2>2, <2>3, <2>4 DEF GoneInv, Harmless
<1>12. FileZero'
  BY <1>1, <1>2 DEF FileZero
<1>13. QED
  BY <1>1, <1>2, <1>5, <1>9, <1>10, <1>11, <1>12 DEF DataInv

----------------------------------------------------------------------------
\* Spill and commit.

\* The journal's records stay the same; its headers are counted, or one is added.
KeepsRecords(old, new) ==
  /\ Len(old) \in Nat /\ Len(new) \in Nat /\ Len(old) <= Len(new)
  /\ \A i \in 1..Len(old) : /\ new[i].type = "record" <=> old[i].type = "record"
                            /\ old[i].type = "record" => new[i] = old[i]
  /\ \A i \in 1..Len(new) : i > Len(old) => new[i].type # "record"

LEMMA KeepsIs ==
  ASSUME NEW old, NEW new, KeepsRecords(old, new)
  PROVE  /\ \A i \in 1..Len(new) : new[i].type = "record" =>
              i \in 1..Len(old) /\ old[i].type = "record" /\ new[i] = old[i]
         /\ \A i \in 1..Len(old) : old[i].type = "record" =>
              i \in 1..Len(new) /\ new[i].type = "record" /\ new[i] = old[i]
         /\ \A p : Recorded(new, p) <=> Recorded(old, p)
<1>1. \A i \in 1..Len(new) : new[i].type = "record" =>
        i \in 1..Len(old) /\ old[i].type = "record" /\ new[i] = old[i]
  BY DEF KeepsRecords
<1>2. \A i \in 1..Len(old) : old[i].type = "record" =>
        i \in 1..Len(new) /\ new[i].type = "record" /\ new[i] = old[i]
  BY DEF KeepsRecords
<1>3. \A p : Recorded(new, p) <=> Recorded(old, p)
  BY <1>1, <1>2 DEF Recorded
<1>4. QED
  BY <1>1, <1>2, <1>3

LEMMA KeepsHits ==
  ASSUME NEW m, NEW n, KeepsRecords(m.items, n.items), n.stmt.recs = m.stmt.recs, n.stmt.from = m.stmt.from,
         m.stmt.from \in Nat
  PROVE  \A p : Hit(n, p) <=> Hit(m, p)
<1>1. \A p : InRecs(n, p) <=> InRecs(m, p)
  BY DEF InRecs
<1>2. \A p : InTail(n, p) <=> InTail(m, p)
  <2>1. \A i \in 1..Len(n.items) : n.items[i].type = "record" =>
          i \in 1..Len(m.items) /\ m.items[i].type = "record" /\ n.items[i] = m.items[i]
    BY KeepsIs
  <2>2. \A i \in 1..Len(m.items) : m.items[i].type = "record" =>
          i \in 1..Len(n.items) /\ n.items[i].type = "record" /\ n.items[i] = m.items[i]
    BY KeepsIs
  <2>3. Len(m.items) \in Nat /\ Len(n.items) \in Nat
    BY DEF KeepsRecords
  <2>4. ASSUME NEW p, InTail(n, p) PROVE InTail(m, p)
    <3>1. PICK i \in (n.stmt.from + 1)..Len(n.items) : n.items[i].type = "record" /\ n.items[i].page = p
      BY <2>4 DEF InTail
    <3>2. i \in 1..Len(n.items)
      BY <2>3, <3>1
    <3>3. i \in 1..Len(m.items) /\ m.items[i].type = "record" /\ n.items[i] = m.items[i]
      BY <2>1, <3>1, <3>2
    <3>4. i \in (m.stmt.from + 1)..Len(m.items)
      BY <2>3, <3>1, <3>3
    <3>5. QED
      BY <3>1, <3>3, <3>4 DEF InTail
  <2>5. ASSUME NEW p, InTail(m, p) PROVE InTail(n, p)
    <3>1. PICK i \in (m.stmt.from + 1)..Len(m.items) : m.items[i].type = "record" /\ m.items[i].page = p
      BY <2>5 DEF InTail
    <3>2. i \in 1..Len(m.items)
      BY <2>3, <3>1
    <3>3. i \in 1..Len(n.items) /\ n.items[i].type = "record" /\ n.items[i] = m.items[i]
      BY <2>2, <3>1, <3>2
    <3>4. i \in (n.stmt.from + 1)..Len(n.items)
      BY <2>3, <3>1, <3>3
    <3>5. QED
      BY <3>1, <3>3, <3>4 DEF InTail
  <2>6. QED
    BY <2>4, <2>5
<1>3. QED
  BY <1>1, <1>2 DEF Hit

\* The memory after the journal was counted or synced, or got a header: pages may no longer need a sync.
SyncedAs(m, n) ==
  /\ KeepsRecords(m.items, n.items)
  /\ n.pager.state = m.pager.state /\ n.pager.dbSize = m.pager.dbSize /\ n.pager.origDbSize = m.pager.origDbSize
  /\ n.pager.alwaysRollback = m.pager.alwaysRollback /\ n.pager.aInJournal = m.pager.aInJournal
  /\ n.pager.dirtyCache = m.pager.dirtyCache
  /\ m.pager.journalStarted => n.pager.journalStarted
  /\ \A p \in Page : /\ n.pg[p].in = m.pg[p].in /\ n.pg[p].data = m.pg[p].data /\ n.pg[p].dirty = m.pg[p].dirty
                     /\ n.pg[p].inJournal = m.pg[p].inJournal /\ n.pg[p].inStmt = m.pg[p].inStmt
                     /\ n.pg[p].alwaysRollback = m.pg[p].alwaysRollback
                     /\ m.pg[p] = Absent => n.pg[p] = Absent
                     /\ n.pg[p].needSync => m.pg[p].needSync
  /\ \/ n.pager.needSync = m.pager.needSync /\ n.pager.journalStarted = m.pager.journalStarted
        /\ \A p \in Page : n.pg[p].needSync = m.pg[p].needSync
     \/ n.pager.journalStarted /\ m.pager.dirtyCache /\ \A p \in Page : ~n.pg[p].needSync
  /\ n.stmt.inUse = m.stmt.inUse /\ n.stmt.size = m.stmt.size /\ n.stmt.from = m.stmt.from
  /\ n.stmt.recs = m.stmt.recs /\ n.stmt.aInStmt = m.stmt.aInStmt
  /\ m.stmt = NoStmt => n.stmt = NoStmt

LEMMA SyncedCore ==
  ASSUME NEW m, NEW n, SyncedAs(m, n), NEW b \in DatabaseType, NEW D, NEW s, NEW t, CoreOK(m, b, D, s),
         \A p \in Needed(b) : /\ Stored(m.items, m.pager.journalHdr, s, p) => Stored(n.items, n.pager.journalHdr, t, p)
                              /\ Recorded(m.items, p) => n.pg[p].needSync = m.pg[p].needSync
                                                           \/ Stored(n.items, n.pager.journalHdr, t, p)
  PROVE  CoreOK(n, b, D, t)
<1>1. SizesOK(n, b, D.file)
  BY PageOne DEF CoreOK, SizesOK, SyncedAs
<1>2. PagerOK(n)
  <2>1. PagerOK(m)
    BY DEF CoreOK
  <2>2. QED
    BY <2>1 DEF PagerOK, SyncedAs
<1>3. ItemsOK(n, b)
  <2>1. ItemsOK(m, b) /\ n.pager.aInJournal = m.pager.aInJournal
    BY DEF CoreOK, SyncedAs
  <2>2. \A i \in 1..Len(n.items) : n.items[i].type = "record" =>
          i \in 1..Len(m.items) /\ m.items[i].type = "record" /\ n.items[i] = m.items[i]
    BY KeepsIs DEF SyncedAs
  <2>3. QED
    BY <2>1, <2>2 DEF ItemsOK
<1>4. ASSUME NEW p \in Page PROVE CachePage(n, b, p)
  <2>1. CachePage(m, b, p)
    BY DEF CoreOK
  <2>2. QED
    BY <2>1 DEF CachePage, SyncedAs
<1>5. ASSUME NEW p \in Needed(b) PROVE OriginalPage(n, b, D, t, p)
  <2>1. OriginalPage(m, b, D, s, p) /\ p \in Page
    BY NeededPages DEF CoreOK
  <2>2. Recorded(n.items, p) <=> Recorded(m.items, p)
    BY KeepsIs DEF SyncedAs
  <2>3. Cur(n, D.file, p) = Cur(m, D.file, p) /\ n.pager.aInJournal = m.pager.aInJournal
    BY <2>1 DEF Cur, SyncedAs
  <2>4. QED
    BY <2>1, <2>2, <2>3 DEF OriginalPage
<1>6. QED
  BY <1>1, <1>2, <1>3, <1>4, <1>5 DEF CoreOK

LEMMA SyncedShows ==
  ASSUME NEW m, NEW n, SyncedAs(m, n), NEW e \in DatabaseType, NEW f, ShowsOK(m, e, f)
  PROVE  ShowsOK(n, e, f)
<1>1. SizeShows(n, e, f)
  <2>1. SizeShows(m, e, f) /\ m.pager.dbSize = e.size /\ 1 <= e.size
    BY DEF ShowsOK, SizeShows
  <2>2. e.size \in Page
    BY <2>1, Contents DEF Page
  <2>3. QED
    BY <2>1, <2>2 DEF SizeShows, SyncedAs
<1>2. ASSUME NEW p \in Needed(e) PROVE ShowsPage(n, e, f, p)
  <2>1. ShowsPage(m, e, f, p) /\ p \in Page
    BY NeededPages DEF ShowsOK
  <2>2. QED
    BY <2>1 DEF ShowsPage, Cur, SyncedAs
<1>3. QED
  BY <1>1, <1>2 DEF ShowsOK

LEMMA SyncedStmt ==
  ASSUME NEW m, NEW n, SyncedAs(m, n), NEW b, NEW s \in DatabaseType, NEW f, MemoryType(m), StmtOK(m, s, b, f)
  PROVE  StmtOK(n, s, b, f)
<1>1. CASE ~m.stmt.inUse
  BY <1>1 DEF StmtOK, SyncedAs
<1>2. CASE m.stmt.inUse
  <2>1. StmtOpen(m, s, b) /\ StmtRecs(m, s) /\ \A p \in Page : StmtPage(m, s, b, f, p)
    BY <1>2 DEF StmtOK
  <2>2. m.stmt.from \in Nat /\ Len(m.items) \in Nat
    BY LenProperties DEF MemoryType, StmtType
  <2>3. KeepsRecords(m.items, n.items)
    BY DEF SyncedAs
  <2>4. \A p : Hit(n, p) <=> Hit(m, p)
    BY <2>2, <2>3, KeepsHits DEF SyncedAs
  <2>5. StmtOpen(n, s, b)
    <3>1. Len(n.items) \in Nat /\ Len(m.items) <= Len(n.items)
      BY <2>3 DEF KeepsRecords
    <3>2. m.stmt.from <= Len(n.items)
      BY <2>1, <2>2, <3>1 DEF StmtOpen
    <3>3. s.size \in Page
      BY <2>1, Contents DEF Page, StmtOpen
    <3>4. QED
      BY <2>1, <3>2, <3>3 DEF StmtOpen, SyncedAs
  <2>6. StmtRecs(n, s)
    <3>1. ASSUME NEW i \in (n.stmt.from + 1)..Len(n.items), n.items[i].type = "record", n.items[i].page \in Needed(s)
          PROVE  n.items[i].data = s.page[n.items[i].page]
      <4>1. Len(n.items) \in Nat /\ n.stmt.from = m.stmt.from
        BY <2>3 DEF KeepsRecords, SyncedAs
      <4>2. i \in 1..Len(n.items)
        BY <2>2, <4>1
      <4>3. i \in 1..Len(m.items) /\ m.items[i].type = "record" /\ n.items[i] = m.items[i]
        BY <2>3, <3>1, <4>2, KeepsIs
      <4>4. i \in (m.stmt.from + 1)..Len(m.items)
        BY <2>2, <4>1, <4>3
      <4>5. QED
        BY <2>1, <3>1, <4>3, <4>4 DEF StmtRecs
    <3>2. n.stmt.recs = m.stmt.recs
      BY DEF SyncedAs
    <3>3. QED
      BY <2>1, <3>1, <3>2 DEF StmtRecs
  <2>7. ASSUME NEW p \in Page PROVE StmtPage(n, s, b, f, p)
    <3>1. StmtPage(m, s, b, f, p)
      BY <2>1
    <3>2. Cur(n, f, p) = Cur(m, f, p)
      BY DEF Cur, SyncedAs
    <3>3. QED
      BY <2>4, <3>1, <3>2 DEF StmtPage, SyncedAs
  <2>8. n.stmt.inUse
    BY <1>2 DEF SyncedAs
  <2>9. QED
    BY <2>5, <2>6, <2>7, <2>8 DEF StmtOK
<1>3. QED
  BY <1>1, <1>2

LEMMA SyncedFlags ==
  ASSUME NEW m, NEW n, SyncedAs(m, n), NEW b \in DatabaseType, NEW e \in DatabaseType, NEW s \in DatabaseType,
         FlagsOK(m, e, b, s)
  PROVE  FlagsOK(n, e, b, s)
<1>1. \A p \in Page : Flag(n, p) <=> Flag(m, p)
  BY DEF Flag, SyncedAs
<1>2. e.page[1].free \subseteq Page /\ s.page[1].free \subseteq Page
  BY PageOne, Contents DEF Cont
<1>3. n.stmt.inUse = m.stmt.inUse
  BY DEF SyncedAs
<1>4. QED
  BY <1>1, <1>2, <1>3 DEF FlagsOK

LEMMA TxnStepData ==
  ASSUME DataInv, InTxn, InTxn', UNCHANGED <<expect, base, saved>>, FileZero', TxnInv', GoneInv'
  PROVE  DataInv'
<1>1. Valid(expect) /\ Valid(base) /\ Valid(saved)
  BY DEF DataInv
<1>2. QED
  BY <1>1 DEF DataInv, Valid

LEMMA NoGone ==
  ASSUME jrnl'.named => jrnl'.exists, ~gone'.jrnl.exists
  PROVE  GoneInv'
  BY DEF GoneInv

\* syncJournal's first half.
LEMMA CountData ==
  ASSUME LayInv, DataInv, CountRecords,
         \/ at = "sync" /\ job' = job
         \/ at = "txn" /\ job' \in Page \ {1} /\ pg[job'].in /\ pg[job'].needSync
  PROVE  DataInv'
<1>1. InTxn /\ InTxn'
  BY DEF InTxn, CountRecords
<1>2. /\ TxnInv /\ FileZero /\ GoneInv /\ CoreOK(Memory, base, Disk, jrnl.safe) /\ ShowsOK(Memory, expect, file)
      /\ Control
  BY <1>1, TxnFacts
<1>3. /\ jrnl'.exists /\ jrnl'.items = Count(jrnl.items, pager.journalHdr, pager.nRec)
      /\ jrnl'.safe = IF level = "full" THEN Len(jrnl.items) ELSE jrnl.safe
      /\ jrnl'.named = (jrnl.named \/ level = "full")
      /\ gone' = IF level = "full" THEN NotGone ELSE gone
      /\ at' = "counted" /\ UNCHANGED <<level, file, wild, pager, stmt, pg, history, left>>
  BY <1>1, CountRecordsFields
<1>4. /\ Shape(jrnl.items, jrnl.safe, pager.journalHdr, pager.origDbSize, level)
      /\ pager.nRec = Len(jrnl.items) - pager.journalHdr /\ pager.journalHdr \in Headers(jrnl.items)
      /\ pager.journalHdr \in 1..Len(jrnl.items) /\ jrnl.exists
  BY <1>1, OpenJournal
<1>5. jrnl.items \in Seq(Item) /\ Len(jrnl.items) \in Nat /\ jrnl.safe \in Nat /\ jrnl.safe <= Len(jrnl.items)
      /\ jrnl.named \in BOOLEAN
  BY Typed DEF JournalType
<1> DEFINE old == jrnl.items
           new == jrnl'.items
           H == pager.journalHdr
<1>6. /\ Len(new) = Len(old) /\ \A i \in 1..Len(old) : i # H => new[i] = old[i]
      /\ new[H] \in HeaderType /\ new[H].was = old[H].was /\ old[H].type = "header"
  <2>1. old[H].type = "header"
    BY <1>4 DEF Headers
  <2> HIDE DEF new
  <2>2. new = Count(old, H, pager.nRec) /\ pager.nRec = Len(old) - H
    BY <1>3, <1>4 DEF new
  <2>3. Shape(old, jrnl.safe, H, pager.origDbSize, level) /\ old \in Seq(Item) /\ jrnl.safe \in Nat
    BY <1>4, <1>5
  <2> HIDE DEF old, H
  <2>4. /\ Len(new) = Len(old) /\ \A i \in 1..Len(old) : i # H => new[i] = old[i]
        /\ new[H] \in HeaderType /\ new[H].was = old[H].was
    BY <2>2, <2>3, CountShape
  <2>5. QED
    BY <2>1, <2>4
<1>7. KeepsRecords(old, new)
  <2>1. new[H].type = "header"
    BY <1>6 DEF HeaderType
  <2> HIDE DEF old, new, H
  <2>2. Len(old) \in Nat
    BY <1>5 DEF old
  <2>3. QED
    BY <1>6, <2>1, <2>2 DEF KeepsRecords
<1>8. \A p : Stored(old, H, jrnl.safe, p) => Stored(new, H, jrnl'.safe, p)
  <2>1. SUFFICES ASSUME NEW p, NEW i \in 1..Len(old), Safely(old, H, jrnl.safe, i), old[i].page = p
                 PROVE  Safely(new, H, jrnl'.safe, i) /\ new[i].page = p /\ i \in 1..Len(new)
    BY DEF Stored
  <2>2. old[i].type = "record" /\ i <= jrnl.safe /\ (i < H \/ i - H <= old[H].was)
    BY <2>1 DEF Safely
  <2>3. new[i] = old[i] /\ i \in 1..Len(new)
    BY <1>6, <2>2
  <2>4. i <= jrnl'.safe
    BY <1>3, <1>5, <2>2
  <2>5. QED
    BY <1>6, <2>1, <2>2, <2>3, <2>4 DEF Safely
<1>9. Disk' = Disk /\ expect' = expect /\ base' = base /\ saved' = saved /\ unsettled' = unsettled
  BY <1>3, QuietDisk DEF history
<1>10. /\ Memory.pager = pager /\ Memory.stmt = stmt /\ Memory.pg = pg /\ Memory.items = old
       /\ Memory'.pager = pager /\ Memory'.stmt = stmt /\ Memory'.pg = pg /\ Memory'.items = new
  BY <1>3, MemoryFields
<1>11. SyncedAs(Memory, Memory')
  <2> HIDE DEF Memory, old, new, H
  <2>1. QED
    BY <1>7, <1>10 DEF SyncedAs
<1>12. base \in DatabaseType /\ expect \in DatabaseType /\ saved \in DatabaseType /\ MemoryType(Memory)
  BY Typed
<1> HIDE DEF Memory, Disk, old, new, H
<1>13. CoreOK(Memory', base, Disk, jrnl'.safe)
  <2>1. \A p \in Needed(base) :
          /\ Stored(Memory.items, Memory.pager.journalHdr, jrnl.safe, p)
               => Stored(Memory'.items, Memory'.pager.journalHdr, jrnl'.safe, p)
          /\ Memory'.pg[p].needSync = Memory.pg[p].needSync
    BY <1>8, <1>10 DEF H
  <2>2. QED
    BY <1>2, <1>11, <1>12, <2>1, SyncedCore
<1>14. ShowsOK(Memory', expect, file)
  BY <1>2, <1>11, <1>12, SyncedShows
<1>15. pager.dirtyCache
  <2>1. CASE at = "sync"
    BY <1>2, <2>1 DEF Control
  <2>2. CASE at = "txn"
    <3>1. job' \in Page /\ pg[job'].needSync
      BY <2>2
    <3>2. CachePage(Memory, base, job')
      BY <1>2, <3>1 DEF CoreOK
    <3>3. QED
      BY <1>10, <3>1, <3>2 DEF CachePage
  <2>3. QED
    BY <2>1, <2>2
<1>16. job' # 0 => job' # 1 /\ pg[job'].in /\ Spilling
  <2>1. at = "sync" => job = 0
    BY <1>2 DEF Control
  <2>2. QED
    BY <2>1 DEF Spilling
<1>17. TxnInv'
  <2>1. CoreOK(Memory', base', Disk', jrnl'.safe) /\ ShowsOK(Memory', expect', file')
    BY <1>3, <1>9, <1>13, <1>14
  <2>2. SizesFrom(Disk', base'.size) /\ (~jrnl'.named \/ pager'.state = "RESERVED" => Pure(Disk', base'))
    BY <1>2, <1>3, <1>9 DEF TxnInv
  <2>3. pager'.journalStarted => jrnl'.named /\ jrnl'.safe >= 1
    <3>1. pager.journalStarted => jrnl.named /\ jrnl.safe >= 1
      BY <1>2 DEF TxnInv
    <3>2. QED
      BY <1>3, <1>5, <3>1
  <2>4. Spilling' => /\ StmtOK(Memory', saved', base', file') /\ FlagsOK(Memory', expect', base', saved')
                     /\ pager'.state # "SYNCED"
    <3>1. SUFFICES ASSUME Spilling' PROVE StmtOK(Memory', saved, base, file) /\ FlagsOK(Memory', expect, base, saved)
                                          /\ pager.state # "SYNCED"
      BY <1>3, <1>9
    <3>2. Spilling
      BY <1>3, <1>16, <3>1 DEF Spilling
    <3>3. StmtOK(Memory, saved, base, file) /\ FlagsOK(Memory, expect, base, saved) /\ pager.state # "SYNCED"
      BY <1>2, <3>2 DEF TxnInv
    <3>4. StmtOK(Memory', saved, base, file)
      BY <1>11, <1>12, <3>3, SyncedStmt
    <3>5. FlagsOK(Memory', expect, base, saved)
      BY <1>11, <1>12, <3>3, SyncedFlags
    <3>6. QED
      BY <3>3, <3>4, <3>5
  <2>5. Control'
    BY <1>3, <1>15, <1>16 DEF Control
  <2>6. QED
    BY <2>1, <2>2, <2>3, <2>4, <2>5 DEF TxnInv
<1>18. GoneInv'
  <2>1. CASE level = "full"
    BY <1>3, <2>1, NoGone DEF NotGone, NoJournal
  <2>2. CASE level # "full"
    <3>1. gone' = gone /\ jrnl'.named = jrnl.named /\ level' = level /\ pager' = pager /\ pg' = pg
      BY <1>3, <1>5, <2>2
    <3>2. \A i \in 1..Len(new) : new[i].type = "record" =>
            i \in 1..Len(old) /\ old[i].type = "record" /\ new[i] = old[i]
      BY <1>7, KeepsIs
    <3>3. ASSUME gone.jrnl.exists, ~unsettled
          PROVE  /\ Valid(gone.to) /\ Crash(Disk, gone.jrnl, gone.to, level)
                 /\ \A i \in 1..Len(new) : new[i].type = "record" => Harmless(new[i].data, new[i].page)
                 /\ \A p \in Page : pg[p].in /\ ~(InTxn /\ p \in pager.aInJournal) => Harmless(pg[p].data, p)
      <4>1. /\ Valid(gone.to) /\ Crash(Disk, gone.jrnl, gone.to, level)
            /\ \A i \in 1..Len(old) : old[i].type = "record" => Harmless(old[i].data, old[i].page)
            /\ \A p \in Page : pg[p].in /\ ~(InTxn /\ p \in pager.aInJournal) => Harmless(pg[p].data, p)
        BY <1>2, <3>3 DEF GoneInv, old
      <4>2. QED
        BY <3>2, <4>1
    <3>4. jrnl'.named => jrnl'.exists /\ ~gone.jrnl.exists
      BY <1>2, <1>3, <3>1 DEF GoneInv
    <3>5. \A c, p : Harmless(c, p)' <=> Harmless(c, p)
      BY <3>1 DEF Harmless
    <3>6. QED
      BY <1>1, <1>9, <3>1, <3>3, <3>4 DEF GoneInv, Harmless, new
  <2>3. QED
    BY <2>1, <2>2
<1>19. FileZero'
  BY <1>2, <1>3 DEF FileZero
<1>20. QED
  BY <1>1, <1>9, <1>17, <1>18, <1>19, TxnStepData

LEMMA CommitRecordsData == LayInv /\ DataInv /\ CommitRecords => DataInv'
  BY CountData DEF CommitRecords

LEMMA RecycleUnsyncedData == ASSUME LayInv, DataInv, NEW p \in Page, RecycleUnsynced(p) PROVE DataInv'
<1>1. CountRecords /\ at = "txn" /\ job' \in Page \ {1} /\ pg[job'].in /\ pg[job'].needSync
  BY DEF RecycleUnsynced
<1>2. QED
  BY <1>1, CountData

\* syncJournal's second half: every record is on the disk and counted there.
LEMMA SyncJournalData == LayInv /\ DataInv /\ SyncJournal => DataInv'
<1> SUFFICES ASSUME LayInv, DataInv, SyncJournal PROVE DataInv'
  OBVIOUS
<1>1. /\ InTxn /\ jrnl'.exists /\ jrnl'.safe = Len(jrnl.items) /\ Len(jrnl'.items) = Len(jrnl.items) /\ jrnl'.named
      /\ gone' = NotGone /\ pg' = Cleared
      /\ pager' = [pager EXCEPT !.journalStarted = TRUE, !.needSync = FALSE]
      /\ at = "counted" /\ at' = IF job = 0 THEN "store" ELSE "spill"
      /\ UNCHANGED <<level, file, wild, stmt, job, history, left>>
      /\ Headers(jrnl'.items) = Headers(jrnl.items)
      /\ \A i \in 1..Len(jrnl.items) : i \notin Headers(jrnl.items) => jrnl'.items[i] = jrnl.items[i]
      /\ \A g \in Headers(jrnl.items) : jrnl'.items[g].was = jrnl.items[g].nRec
  BY SyncJournalFields
<1>2. /\ TxnInv /\ FileZero /\ CoreOK(Memory, base, Disk, jrnl.safe) /\ ShowsOK(Memory, expect, file)
      /\ Control
  BY <1>1, TxnFacts
<1>3. /\ pager.nRec = Len(jrnl.items) - pager.journalHdr /\ pager.journalHdr \in Headers(jrnl.items)
      /\ pager.journalHdr \in 1..Len(jrnl.items) /\ Counting
  BY <1>1, OpenJournal
<1>4. jrnl.items \in Seq(Item) /\ Len(jrnl.items) \in Nat
  BY Typed
<1>5. InTxn' /\ at' \in {"store", "spill"}
  BY <1>1 DEF InTxn
<1> DEFINE old == jrnl.items
           new == jrnl'.items
           H == pager.journalHdr
<1>6. \A i \in 1..Len(old) : /\ new[i].type = "record" <=> old[i].type = "record"
                             /\ old[i].type = "record" => new[i] = old[i]
  <2> SUFFICES ASSUME NEW i \in 1..Len(old)
               PROVE  /\ new[i].type = "record" <=> old[i].type = "record"
                      /\ old[i].type = "record" => new[i] = old[i]
    OBVIOUS
  <2>1. CASE i \in Headers(jrnl.items)
    <3>1. i \in Headers(jrnl'.items)
      BY <1>1, <2>1
    <3>2. old[i].type = "header" /\ new[i].type = "header"
      BY <2>1, <3>1 DEF Headers
    <3>3. QED
      BY <3>2
  <2>2. CASE i \notin Headers(jrnl.items)
    BY <1>1, <2>2
  <2>3. QED
    BY <2>1, <2>2
<1>7. KeepsRecords(old, new)
  <2>1. Len(new) = Len(old) /\ Len(old) \in Nat
    BY <1>1, <1>4
  <2> HIDE DEF old, new
  <2>2. QED
    BY <1>6, <2>1 DEF KeepsRecords
<1>8. new[H].was = Len(old) - H
  BY <1>1, <1>3 DEF Counting
<1>9. \A p : Recorded(old, p) => Stored(new, H, jrnl'.safe, p)
  <2>1. SUFFICES ASSUME NEW p, NEW i \in 1..Len(old), old[i].type = "record", old[i].page = p
                 PROVE  Safely(new, H, jrnl'.safe, i) /\ new[i].page = p /\ i \in 1..Len(new)
    BY DEF Stored, Recorded
  <2>2. new[i] = old[i] /\ new[i].type = "record" /\ i \in 1..Len(new)
    BY <1>1, <1>6, <2>1
  <2>3. i <= jrnl'.safe /\ i - H <= new[H].was
    BY <1>1, <1>3, <1>4, <1>8, <2>1
  <2>4. QED
    BY <2>1, <2>2, <2>3 DEF Safely
<1>10. \A p : Stored(old, H, jrnl.safe, p) => Recorded(old, p)
  BY DEF Stored, Recorded, Safely
<1>11. Disk' = Disk /\ expect' = expect /\ base' = base /\ saved' = saved /\ unsettled' = unsettled
  BY <1>1, QuietDisk DEF history
<1>12. /\ Memory.pager = pager /\ Memory.stmt = stmt /\ Memory.pg = pg /\ Memory.items = old
       /\ Memory'.pager = pager' /\ Memory'.stmt = stmt /\ Memory'.pg = pg' /\ Memory'.items = new
  BY <1>1, MemoryFields
<1>13. \A p \in Page : /\ pg'[p].in = pg[p].in /\ pg'[p].data = pg[p].data
                       /\ pg'[p].dirty = pg[p].dirty /\ pg'[p].inJournal = pg[p].inJournal
                       /\ ~pg'[p].needSync /\ pg'[p].inStmt = pg[p].inStmt
                       /\ pg'[p].alwaysRollback = pg[p].alwaysRollback
                       /\ (pg[p] = Absent => pg'[p] = Absent)
  <2>1. \A p \in Page : pg'[p] = [pg[p] EXCEPT !.needSync = FALSE]
    BY <1>1, Typed, ClearedFields
  <2>2. [Absent EXCEPT !.needSync = FALSE] = Absent
    <3>1. Absent \in PgHdr /\ Absent.needSync = FALSE
      BY EmptyTypes DEF Absent
    <3>2. \A h \in PgHdr : h.needSync = FALSE => [h EXCEPT !.needSync = FALSE] = h
      BY DEF PgHdr
    <3>3. QED
      BY <3>1, <3>2
  <2>3. \A p \in Page : pg[p] = Absent => pg'[p] = Absent
    BY <2>1, <2>2
  <2>4. QED
    BY <1>1, <2>3, Typed, ClearedFields
<1>14. /\ pager'.state = pager.state /\ pager'.dbSize = pager.dbSize /\ pager'.origDbSize = pager.origDbSize
       /\ pager'.alwaysRollback = pager.alwaysRollback /\ pager'.aInJournal = pager.aInJournal
       /\ pager'.dirtyCache = pager.dirtyCache /\ pager'.journalHdr = pager.journalHdr
       /\ pager'.journalStarted /\ ~pager'.needSync /\ pager.dirtyCache
  <2>1. pager.dirtyCache
    BY <1>1, <1>2 DEF Control
  <2>2. pager \in PagerType
    BY Typed
  <2>3. QED
    BY <1>1, <2>1, <2>2 DEF PagerType
<1>15. SyncedAs(Memory, Memory')
  <2> HIDE DEF Memory, old, new, H
  <2>1. QED
    BY <1>7, <1>12, <1>13, <1>14, Zenon DEF SyncedAs
<1>16. base \in DatabaseType /\ expect \in DatabaseType /\ saved \in DatabaseType /\ MemoryType(Memory)
  BY Typed
<1>17. GoneInv'
  BY <1>1, NoGone DEF NotGone, NoJournal
<1> HIDE DEF Memory, Disk, old, new, H
<1>18. CoreOK(Memory', base, Disk, jrnl'.safe)
  <2>1. \A p \in Needed(base) :
          /\ Stored(Memory.items, Memory.pager.journalHdr, jrnl.safe, p)
               => Stored(Memory'.items, Memory'.pager.journalHdr, jrnl'.safe, p)
          /\ Recorded(Memory.items, p) => Stored(Memory'.items, Memory'.pager.journalHdr, jrnl'.safe, p)
    BY <1>9, <1>10, <1>12, <1>14 DEF H
  <2>2. QED
    BY <1>2, <1>15, <1>16, <2>1, SyncedCore
<1>19. ShowsOK(Memory', expect, file)
  BY <1>2, <1>15, <1>16, SyncedShows
<1>20. TxnInv'
  <2>1. CoreOK(Memory', base', Disk', jrnl'.safe) /\ ShowsOK(Memory', expect', file')
    BY <1>1, <1>11, <1>18, <1>19
  <2>2. SizesFrom(Disk', base'.size) /\ (~jrnl'.named \/ pager'.state = "RESERVED" => Pure(Disk', base'))
    BY <1>1, <1>2, <1>11, <1>14 DEF TxnInv
  <2>3. jrnl'.named /\ jrnl'.safe >= 1
    BY <1>1, <1>3, <1>4
  <2>4. Spilling' => /\ StmtOK(Memory', saved', base', file') /\ FlagsOK(Memory', expect', base', saved')
                     /\ pager'.state # "SYNCED"
    <3>1. SUFFICES ASSUME Spilling' PROVE StmtOK(Memory', saved, base, file) /\ FlagsOK(Memory', expect, base, saved)
                                          /\ pager.state # "SYNCED"
      BY <1>1, <1>11, <1>14
    <3>2. Spilling
      BY <1>1, <1>5, <3>1 DEF Spilling
    <3>3. StmtOK(Memory, saved, base, file) /\ FlagsOK(Memory, expect, base, saved) /\ pager.state # "SYNCED"
      BY <1>2, <3>2 DEF TxnInv
    <3>4. StmtOK(Memory', saved, base, file)
      BY <1>15, <1>16, <3>3, SyncedStmt
    <3>5. FlagsOK(Memory', expect, base, saved)
      BY <1>15, <1>16, <3>3, SyncedFlags
    <3>6. QED
      BY <3>3, <3>4, <3>5
  <2>5. Control'
    <3>1. job # 0 => job # 1 /\ job \in Page /\ pg[job].in
      BY <1>2, Typed DEF Control
    <3>2. job' # 0 => job' # 1 /\ pg'[job'].in
      BY <1>1, <1>13, <3>1
    <3>3. at' = "store" => job' = 0
      BY <1>1
    <3>4. QED
      BY <1>5, <1>14, <3>2, <3>3 DEF Control
  <2>6. QED
    BY <2>1, <2>2, <2>3, <2>4, <2>5 DEF TxnInv
<1>21. FileZero'
  BY <1>1, <1>2 DEF FileZero
<1>22. QED
  BY <1>1, <1>5, <1>11, <1>17, <1>20, <1>21, TxnStepData

\* Page p leaves the cache and, when it was changed, goes to the file.
Stores(m, p) == m.pg[p].dirty /\ p <= m.pager.dbSize
Evicted(m, p, n) ==
  /\ MemoryType(m) /\ p \in Page /\ p # 1 /\ m.pg[p].in /\ ~m.pg[p].needSync
  /\ n.items = m.items /\ n.stmt = m.stmt /\ n.pg[p] = Absent
  /\ \A q \in Page : q # p => n.pg[q] = m.pg[q]
  /\ n.pager.state = IF m.pg[p].dirty THEN "EXCLUSIVE" ELSE m.pager.state
  /\ n.pager.alwaysRollback = (m.pager.alwaysRollback \/ m.pg[p].alwaysRollback)
  /\ n.pager.dbSize = m.pager.dbSize /\ n.pager.origDbSize = m.pager.origDbSize
  /\ n.pager.journalHdr = m.pager.journalHdr /\ n.pager.needSync = m.pager.needSync
  /\ n.pager.journalStarted = m.pager.journalStarted /\ n.pager.aInJournal = m.pager.aInJournal
  /\ n.pager.dirtyCache = m.pager.dirtyCache
EvictedFile(m, p) ==
  /\ unsettled' = unsettled
  /\ ~Stores(m, p) => file' = file /\ wild' = wild
  /\ Stores(m, p) => /\ file'.size = IF p > file.size THEN p ELSE file.size
                     /\ file'.page[p] = m.pg[p].data
                     /\ \A q \in Page : q # p => file'.page[q] = file.page[q]
                     /\ wild'.size \subseteq wild.size \cup {file.size}
                     /\ \A q \in Page : q # p => wild'.page[q] = wild.page[q]

LEMMA AbsentFields ==
  /\ ~Absent.in /\ ~Absent.dirty /\ ~Absent.inJournal /\ ~Absent.needSync /\ ~Absent.inStmt
  /\ ~Absent.alwaysRollback
  BY DEF Absent

\* Only a page that was changed is stored, and its original is on the disk then.
LEMMA EvictsSafe ==
  ASSUME NEW m, NEW p, NEW n, Evicted(m, p, n), NEW b \in DatabaseType, NEW D, NEW safe, CoreOK(m, b, D, safe)
  PROVE  /\ m.pg[p].dirty => m.pager.journalStarted /\ m.pg[p].inJournal
         /\ p \in m.pager.aInJournal /\ p <= b.size => m.pager.journalStarted
         /\ p <= b.size => (m.pg[p].inJournal <=> p \in m.pager.aInJournal)
         /\ p \in Needed(b) /\ p \in m.pager.aInJournal =>
              Recorded(m.items, p) /\ Stored(m.items, m.pager.journalHdr, safe, p)
         /\ p \in Needed(b) => p <= b.size
<1>1. CachePage(m, b, p) /\ p \in Page /\ m.pg[p].in /\ ~m.pg[p].needSync
  BY DEF CoreOK, Evicted
<1>2. p \in Needed(b) => OriginalPage(m, b, D, safe, p) /\ p <= b.size
  BY NeededPages DEF CoreOK
<1>3. QED
  BY <1>1, <1>2 DEF CachePage, OriginalPage

LEMMA EvictCore ==
  ASSUME NEW m, NEW p, NEW n, Evicted(m, p, n), EvictedFile(m, p), file \in DatabaseType,
         NEW b \in DatabaseType, NEW safe, CoreOK(m, b, Disk, safe), m.pager.aInJournal \subseteq 1..b.size
  PROVE  CoreOK(n, b, Disk', safe)
<1>1. /\ m.pg[p].dirty => m.pager.journalStarted /\ m.pg[p].inJournal
      /\ p \in m.pager.aInJournal /\ p <= b.size => m.pager.journalStarted
      /\ p <= b.size => (m.pg[p].inJournal <=> p \in m.pager.aInJournal)
      /\ p \in Needed(b) /\ p \in m.pager.aInJournal =>
           Recorded(m.items, p) /\ Stored(m.items, m.pager.journalHdr, safe, p)
      /\ p \in Needed(b) => p <= b.size
  BY EvictsSafe
<1>2. p \in Page /\ p # 1 /\ m.pg[p].in /\ ~m.pg[p].needSync /\ p \in Nat /\ n.pg[p] = Absent
      /\ \A q \in Page : q # p => n.pg[q] = m.pg[q]
  BY PageOne DEF Evicted
<1>3. b.size \in Nat /\ file.size \in Nat
  BY Contents
<1>4. SizesOK(n, b, Disk'.file)
  <2>1. SizesOK(m, b, file)
    BY DiskFields DEF CoreOK
  <2>2. n.pg[1].in
    BY <1>2, <2>1, PageOne DEF SizesOK
  <2>3. n.pager.dbSize = m.pager.dbSize /\ n.pager.origDbSize = m.pager.origDbSize
    BY DEF Evicted
  <2>4. file'.size <= m.pager.dbSize
    <3>1. CASE Stores(m, p)
      <4>1. file'.size = p \/ file'.size = file.size
        BY <3>1 DEF EvictedFile
      <4>2. QED
        BY <2>1, <3>1, <4>1 DEF Stores, SizesOK
    <3>2. CASE ~Stores(m, p)
      BY <2>1, <3>2 DEF EvictedFile, SizesOK
    <3>3. QED
      BY <3>1, <3>2
  <2>5. QED
    BY <2>1, <2>2, <2>3, <2>4, DiskFields DEF SizesOK
<1>5. PagerOK(n)
  <2>1. PagerOK(m)
    BY DEF CoreOK
  <2>2. QED
    BY <1>1, <2>1 DEF PagerOK, Evicted
<1>6. ItemsOK(n, b)
  BY DEF CoreOK, ItemsOK, Evicted
<1>7. ASSUME NEW q \in Page PROVE CachePage(n, b, q)
  <2>1. CASE q = p
    <3>1. q \in n.pager.aInJournal => n.pager.journalStarted
      <4>1. q \in m.pager.aInJournal => q <= b.size
        BY <1>3
      <4>2. QED
        BY <1>1, <2>1, <4>1 DEF Evicted
    <3>2. QED
      BY <1>2, <2>1, <3>1, AbsentFields DEF CachePage
  <2>2. CASE q # p
    <3>1. CachePage(m, b, q)
      BY DEF CoreOK
    <3>2. n.pg[q] = m.pg[q]
      BY <1>2, <2>2
    <3>3. QED
      BY <3>1, <3>2 DEF CachePage, Evicted
  <2>3. QED
    BY <2>1, <2>2
<1>8. ASSUME NEW q \in Needed(b) PROVE OriginalPage(n, b, Disk', safe, q)
  <2>1. OriginalPage(m, b, Disk, safe, q) /\ q \in Page /\ q <= b.size
    BY NeededPages DEF CoreOK
  <2>2. /\ n.items = m.items /\ n.pager.journalHdr = m.pager.journalHdr
        /\ n.pager.aInJournal = m.pager.aInJournal
    BY DEF Evicted
  <2>3. CASE q # p
    <3>1. n.pg[q] = m.pg[q]
      BY <1>2, <2>1, <2>3
    <3>2. file'.page[q] = file.page[q] /\ (wild'.page[q] = wild.page[q])
      BY <2>1, <2>3 DEF EvictedFile
    <3>3. Cur(n, Disk'.file, q) = Cur(m, Disk.file, q)
      BY <3>1, <3>2, DiskFields DEF Cur
    <3>4. FileIs(Disk', q, b.page[q]) <=> FileIs(Disk, q, b.page[q])
      <4>1. unsettled' = unsettled
        BY DEF EvictedFile
      <4>2. QED
        BY <3>2, <4>1, DiskIs
    <3>5. QED
      BY <2>1, <2>2, <3>1, <3>3, <3>4 DEF OriginalPage
  <2>4. CASE q = p /\ p \in m.pager.aInJournal
    <3>1. Recorded(m.items, p) /\ Stored(m.items, m.pager.journalHdr, safe, p)
      BY <1>1, <2>4
    <3>2. QED
      BY <2>2, <2>4, <3>1 DEF OriginalPage
  <2>5. CASE q = p /\ p \notin m.pager.aInJournal
    <3>1. ~m.pg[p].inJournal /\ ~m.pg[p].dirty
      BY <1>1, <2>1, <2>5
    <3>2. file' = file /\ wild' = wild /\ unsettled' = unsettled
      BY <3>1 DEF EvictedFile, Stores
    <3>3. ~Stored(m.items, m.pager.journalHdr, safe, p)
      BY <2>5 DEF Stored, Safely, CoreOK, ItemsOK
    <3>4. FileIs(Disk, p, b.page[p])
      BY <2>1, <2>5, <3>3 DEF OriginalPage
    <3>5. file'.page[p] = b.page[p] /\ FileIs(Disk', p, b.page[p])
      BY <3>2, <3>4, DiskIs
    <3>6. Cur(n, Disk'.file, p) = b.page[p]
      BY <1>2, <3>5, AbsentFields, DiskFields DEF Cur
    <3>7. QED
      BY <2>2, <2>5, <3>5, <3>6 DEF OriginalPage
  <2>6. QED
    BY <2>3, <2>4, <2>5
<1>9. QED
  BY <1>4, <1>5, <1>6, <1>7, <1>8 DEF CoreOK

LEMMA EvictShows ==
  ASSUME NEW m, NEW p, NEW n, Evicted(m, p, n), EvictedFile(m, p), file \in DatabaseType,
         NEW e \in DatabaseType, ShowsOK(m, e, file)
  PROVE  ShowsOK(n, e, file')
<1>1. SizeShows(m, e, file) /\ m.pager.dbSize = e.size /\ 1 <= e.size /\ n.pager.dbSize = m.pager.dbSize
      /\ e.size \in Page /\ e.size \in Nat
  <2>1. SizeShows(m, e, file) /\ m.pager.dbSize = e.size /\ 1 <= e.size /\ n.pager.dbSize = m.pager.dbSize
    BY DEF ShowsOK, SizeShows, Evicted
  <2>2. QED
    BY <2>1, Contents DEF Page
<1>2. p \in Page /\ p \in Nat /\ n.pg[p] = Absent /\ m.pg[p].in /\ \A q \in Page : q # p => n.pg[q] = m.pg[q]
  BY PageOne DEF Evicted
<1>3. file.size \in Nat
  BY Contents
<1>4. SizeShows(n, e, file')
  <2>1. SUFFICES ASSUME e.size > file'.size PROVE n.pg[e.size].dirty
    BY <1>1 DEF SizeShows
  <2>2. CASE Stores(m, p)
    <3>1. file'.size = IF p > file.size THEN p ELSE file.size
      BY <2>2 DEF EvictedFile
    <3>2. e.size > file.size /\ e.size # p
      BY <1>1, <1>2, <1>3, <2>1, <3>1
    <3>3. m.pg[e.size].dirty
      BY <1>1, <3>2 DEF SizeShows
    <3>4. QED
      BY <1>1, <1>2, <3>2, <3>3
  <2>3. CASE ~Stores(m, p)
    <3>1. file' = file
      BY <2>3 DEF EvictedFile
    <3>2. m.pg[e.size].dirty
      BY <1>1, <2>1, <3>1 DEF SizeShows
    <3>3. e.size # p
      BY <1>1, <1>2, <2>3, <3>2 DEF Stores
    <3>4. QED
      BY <1>1, <1>2, <3>2, <3>3
  <2>4. QED
    BY <2>2, <2>3
<1>5. ASSUME NEW q \in Needed(e) PROVE ShowsPage(n, e, file', q)
  <2>1. ShowsPage(m, e, file, q) /\ q \in Page /\ q <= e.size
    BY NeededPages DEF ShowsOK
  <2>2. CASE q # p
    <3>1. n.pg[q] = m.pg[q] /\ file'.page[q] = file.page[q]
      BY <1>2, <2>1, <2>2 DEF EvictedFile
    <3>2. QED
      BY <2>1, <3>1 DEF ShowsPage, Cur
  <2>3. CASE q = p
    <3>1. m.pg[p].data = e.page[p]
      BY <1>2, <2>1, <2>3 DEF ShowsPage, Cur
    <3>2. file'.page[p] = m.pg[p].data
      <4>1. CASE m.pg[p].dirty
        <5>1. Stores(m, p)
          BY <1>1, <2>1, <2>3, <4>1 DEF Stores
        <5>2. QED
          BY <5>1 DEF EvictedFile
      <4>2. CASE ~m.pg[p].dirty
        <5>1. file' = file
          BY <4>2 DEF EvictedFile, Stores
        <5>2. QED
          BY <1>2, <2>1, <2>3, <4>2, <5>1 DEF ShowsPage
      <4>3. QED
        BY <4>1, <4>2
    <3>3. QED
      BY <1>2, <2>3, <3>1, <3>2, AbsentFields DEF ShowsPage, Cur
  <2>4. QED
    BY <2>2, <2>3
<1>6. QED
  BY <1>4, <1>5 DEF ShowsOK

LEMMA EvictStmt ==
  ASSUME NEW m, NEW p, NEW n, Evicted(m, p, n), EvictedFile(m, p), file \in DatabaseType,
         NEW b \in DatabaseType, NEW s \in DatabaseType, m.pager.state # "SYNCED", m.pager.state # "SHARED",
         MemoryType(m), StmtOK(m, s, b, file)
  PROVE  StmtOK(n, s, b, file') /\ n.pager.state # "SYNCED" /\ n.pager.state # "SHARED"
<1>1. p \in Page /\ n.pg[p] = Absent /\ m.pg[p].in /\ ~m.pg[p].needSync /\ n.stmt = m.stmt
      /\ \A q \in Page : q # p => n.pg[q] = m.pg[q]
  BY DEF Evicted
<1>2. m.pager.state = "EXCLUSIVE" \/ m.pager.state = "RESERVED"
  BY DEF MemoryType, PagerType
<1>3. n.pager.state # "SYNCED" /\ n.pager.state # "SHARED" /\ (n.pager.state = "EXCLUSIVE" \/ n.pager.state = "RESERVED")
  BY <1>2 DEF Evicted
<1>4. CASE ~m.stmt.inUse
  <2>1. m.stmt = NoStmt /\ \A q \in Page : ~m.pg[q].inStmt
    BY <1>4 DEF StmtOK
  <2>2. \A q \in Page : ~n.pg[q].inStmt
    BY <1>1, <2>1, AbsentFields
  <2>3. QED
    BY <1>1, <1>3, <1>4, <2>1, <2>2 DEF StmtOK
<1>5. CASE m.stmt.inUse
  <2>1. StmtOpen(m, s, b) /\ StmtRecs(m, s) /\ \A q \in Page : StmtPage(m, s, b, file, q)
    BY <1>5 DEF StmtOK
  <2>2. StmtOpen(n, s, b)
    <3>1. s.size \in Page
      BY <2>1, Contents DEF Page, StmtOpen
    <3>2. ASSUME n.pager.state = "RESERVED", s.size > b.size PROVE n.pg[s.size].dirty
      <4>1. ~m.pg[p].dirty /\ m.pager.state = "RESERVED"
        BY <3>2 DEF Evicted
      <4>2. m.pg[s.size].dirty
        BY <2>1, <3>2, <4>1 DEF StmtOpen
      <4>3. QED
        BY <1>1, <3>1, <4>1, <4>2
    <3>3. n.items = m.items /\ n.pager.dbSize = m.pager.dbSize /\ n.pager.dirtyCache = m.pager.dirtyCache
      BY DEF Evicted
    <3>4. QED
      BY <1>1, <2>1, <3>2, <3>3 DEF StmtOpen
  <2>3. StmtRecs(n, s)
    BY <2>1, SMTT(20) DEF StmtRecs, Evicted
  <2>4. \A q : Hit(n, q) <=> Hit(m, q)
    BY DEF Hit, InRecs, InTail, Evicted
  <2>5. ASSUME NEW q \in Page PROVE StmtPage(n, s, b, file', q)
    <3>1. StmtPage(m, s, b, file, q)
      BY <2>1
    <3>2. n.pager.aInJournal = m.pager.aInJournal /\ (m.pager.state = "EXCLUSIVE" => n.pager.state = "EXCLUSIVE")
          /\ (m.pg[p].dirty => n.pager.state = "EXCLUSIVE")
      BY DEF Evicted
    <3>3. CASE q # p
      <4>1. n.pg[q] = m.pg[q] /\ file'.page[q] = file.page[q]
        BY <1>1, <3>3 DEF EvictedFile
      <4>2. Cur(n, file', q) = Cur(m, file, q)
        BY <4>1 DEF Cur
      <4>3. QED
        BY <1>1, <2>4, <3>1, <3>2, <4>1, <4>2 DEF StmtPage
    <3>4. CASE q = p
      <4>1. q \in Needed(s) => (q \in m.stmt.aInStmt <=> Hit(m, q))
        BY <3>1 DEF StmtPage
      <4>2. q \in Needed(s) /\ ~Hit(m, q) => file'.page[q] = s.page[q]
        <5> SUFFICES ASSUME q \in Needed(s), ~Hit(m, q) PROVE file'.page[q] = s.page[q]
          OBVIOUS
        <5>1. m.pg[p].data = s.page[q] /\ (~m.pg[p].dirty => file.page[q] = s.page[q])
          BY <1>1, <3>1, <3>4 DEF StmtPage, Cur
        <5>2. CASE m.pg[p].dirty
          <6>1. q <= s.size /\ s.size <= m.pager.dbSize /\ q \in Nat /\ s.size \in Nat
            BY <2>1, NeededPages DEF StmtOpen
          <6>2. m.pager.dbSize \in Nat
            BY DEF MemoryType, PagerType
          <6>3. Stores(m, p)
            BY <3>4, <5>2, <6>1, <6>2 DEF Stores
          <6>4. QED
            BY <3>4, <5>1, <6>3 DEF EvictedFile
        <5>3. CASE ~m.pg[p].dirty
          BY <5>1, <5>3 DEF EvictedFile, Stores
        <5>4. QED
          BY <5>2, <5>3
      <4>3. Hit(m, q) /\ q <= s.size => (q <= b.size => q \in m.pager.aInJournal) /\ n.pager.state = "EXCLUSIVE"
        BY <3>1, <3>2, <3>4 DEF StmtPage
      <4>4. QED
        BY <1>1, <2>4, <3>2, <3>4, <4>1, <4>2, <4>3, AbsentFields DEF StmtPage, Cur
    <3>5. QED
      BY <3>3, <3>4
  <2>6. QED
    BY <1>1, <1>3, <1>5, <2>2, <2>3, <2>5 DEF StmtOK
<1>6. QED
  BY <1>4, <1>5

LEMMA EvictFlags ==
  ASSUME NEW m, NEW p, NEW n, Evicted(m, p, n), NEW b \in DatabaseType, NEW e \in DatabaseType,
         NEW s \in DatabaseType, FlagsOK(m, e, b, s)
  PROVE  FlagsOK(n, e, b, s)
<1>1. ASSUME NEW q \in Page, Flag(m, q) PROVE Flag(n, q)
  <2>1. n.pager.alwaysRollback = (m.pager.alwaysRollback \/ m.pg[p].alwaysRollback)
        /\ (q # p => n.pg[q] = m.pg[q])
    BY DEF Evicted
  <2>2. QED
    BY <1>1, <2>1 DEF Flag
<1>2. e.page[1].free \subseteq Page /\ s.page[1].free \subseteq Page
  BY PageOne, Contents DEF Cont
<1>3. n.stmt.inUse = m.stmt.inUse
  BY DEF Evicted
<1>4. QED
  BY <1>1, <1>2, <1>3 DEF FlagsOK

\* pager_recycle, once the page needs no sync and the memory is m.
LEMMA EvictData ==
  ASSUME LayInv, DataInv, InTxn, Spilling, NEW m, NEW p, Evicted(m, p, Memory'), EvictedFile(m, p),
         CoreOK(m, base, Disk, jrnl.safe), ShowsOK(m, expect, file), StmtOK(m, saved, base, file),
         FlagsOK(m, expect, base, saved), m.pager.state = pager.state, m.pg = pg, m.pager.dirtyCache = pager.dirtyCache,
         m.pager.journalStarted = pager.journalStarted, m.pager.aInJournal = pager.aInJournal,
         UNCHANGED <<level, gone, expect, base, saved>>,
         jrnl'.safe = jrnl.safe, jrnl'.named = jrnl.named, jrnl'.exists = jrnl.exists,
         jrnl'.items = jrnl.items \/ pager.journalStarted, at' = "txn", job' = 0
  PROVE  DataInv'
<1>1. InTxn'
  BY DEF InTxn
<1>2. TxnInv /\ FileZero /\ GoneInv /\ Control /\ SizesOK(Memory, base, file)
  BY TxnFacts
<1>3. /\ base \in DatabaseType /\ expect \in DatabaseType /\ saved \in DatabaseType /\ file \in DatabaseType
      /\ pager.aInJournal \subseteq 1..pager.origDbSize
  BY OpenJournal, Typed
<1>4. pager.origDbSize = base.size
  BY <1>2, MemoryFields DEF SizesOK
<1>5. /\ p \in Page /\ MemoryType(m) /\ pg[p].in /\ unsettled' = unsettled /\ pg'[p] = Absent
      /\ \A q \in Page : q # p => pg'[q] = pg[q]
      /\ pager'.dirtyCache = pager.dirtyCache /\ pager'.journalStarted = pager.journalStarted
      /\ pager'.aInJournal = pager.aInJournal
      /\ pager'.state = IF pg[p].dirty THEN "EXCLUSIVE" ELSE pager.state
  BY MemoryFields DEF Evicted, EvictedFile
<1>6. /\ pager.journalStarted => jrnl.named /\ jrnl.safe >= 1
      /\ SizesFrom(Disk, base.size) /\ (~jrnl.named \/ pager.state = "RESERVED" => Pure(Disk, base))
      /\ pager.state # "SYNCED"
  BY <1>2 DEF TxnInv
<1>7. pg[p].dirty => pager.journalStarted
  BY <1>3, EvictsSafe
<1>8. ~pg[p].dirty => file' = file /\ wild' = wild
  BY DEF EvictedFile, Stores
<1>9. m.pager.state # "SHARED"
  BY DEF CoreOK, PagerOK
<1>10. CoreOK(Memory', base, Disk', jrnl.safe)
  BY <1>3, <1>4, EvictCore
<1>11. ShowsOK(Memory', expect, file')
  BY <1>3, EvictShows
<1>12. StmtOK(Memory', saved, base, file') /\ Memory'.pager.state # "SYNCED"
  BY <1>3, <1>5, <1>6, <1>9, EvictStmt
<1>13. FlagsOK(Memory', expect, base, saved)
  BY <1>3, EvictFlags
<1>14. SizesFrom(Disk', base.size)
  <2>1. CASE Stores(m, p)
    <3>1. /\ file'.size = IF p > file.size THEN p ELSE file.size
          /\ wild'.size \subseteq wild.size \cup {file.size}
      BY <2>1 DEF EvictedFile
    <3>2. file.size \in Nat /\ p \in Nat /\ base.size \in Nat
      BY <1>3, <1>5, Contents, PageOne
    <3>3. file.size >= base.size /\ (~unsettled => \A s \in wild.size : s >= base.size)
      BY <1>6, DiskIs
    <3>4. file'.size >= base.size
      BY <3>1, <3>2, <3>3
    <3>5. QED
      BY <1>5, <3>1, <3>3, <3>4, DiskIs
  <2>2. CASE ~Stores(m, p)
    BY <1>5, <1>6, <2>2, DiskIs DEF EvictedFile
  <2>3. QED
    BY <2>1, <2>2
<1>15. ~jrnl'.named \/ pager'.state = "RESERVED" => Pure(Disk', base)
  <2>1. SUFFICES ASSUME ~jrnl.named \/ pager'.state = "RESERVED" PROVE Pure(Disk', base)
    OBVIOUS
  <2>2. ~pg[p].dirty
    BY <1>5, <1>6, <1>7, <2>1
  <2>3. Disk' = Disk
    BY <1>5, <1>8, <2>2, QuietDisk
  <2>4. QED
    BY <1>5, <1>6, <2>1, <2>2, <2>3
<1> HIDE DEF Memory, Disk
<1>16. TxnInv'
  <2>1. Control'
    BY <1>2, <1>5 DEF Control
  <2>2. pager'.state # "SYNCED"
    BY <1>5, <1>6
  <2>3. pager'.journalStarted => jrnl'.named /\ jrnl'.safe >= 1
    BY <1>5, <1>6
  <2>4. QED
    BY <1>10, <1>11, <1>12, <1>13, <1>14, <1>15, <2>1, <2>2, <2>3 DEF TxnInv
<1>17. GoneInv'
  <2>1. jrnl'.named => jrnl'.exists /\ ~gone'.jrnl.exists
    BY <1>2 DEF GoneInv
  <2>2. CASE pager.journalStarted
    BY <1>6, <2>1, <2>2, NoGone
  <2>3. CASE ~pager.journalStarted
    <3>1. Disk' = Disk /\ jrnl'.items = jrnl.items
      BY <1>5, <1>7, <1>8, <2>3, QuietDisk
    <3>2. \A q \in Page : pg'[q].in => pg'[q] = pg[q]
      BY <1>5, AbsentFields
    <3>3. QED
      BY <1>1, <1>2, <1>5, <2>1, <3>1, <3>2 DEF GoneInv, Harmless
  <2>4. QED
    BY <2>2, <2>3
<1>18. FileZero'
  <2>1. CASE Stores(m, p)
    <3>1. SUFFICES ASSUME NEW q \in Page, q > file'.size PROVE file'.page[q] = Zero
      BY DEF FileZero
    <3>2. file'.size = IF p > file.size THEN p ELSE file.size
      BY <2>1 DEF EvictedFile
    <3>3. p \in Nat /\ q \in Nat /\ file.size \in Nat
      BY <1>3, <1>5, Contents, PageOne
    <3>4. q # p /\ q > file.size
      BY <3>1, <3>2, <3>3
    <3>5. QED
      BY <1>2, <2>1, <3>1, <3>4 DEF FileZero, EvictedFile
  <2>2. CASE ~Stores(m, p)
    BY <1>2, <2>2 DEF FileZero, EvictedFile
  <2>3. QED
    BY <2>1, <2>2
<1>19. QED
  BY <1>1, <1>16, <1>17, <1>18, TxnStepData

LEMMA EvictIs ==
  ASSUME LayInv, NEW p \in Page, Evict(p), unsettled' = unsettled, NEW m, m.pg = pg, m.pager.dbSize = pager.dbSize
  PROVE  /\ EvictedFile(m, p) /\ pg'[p] = Absent /\ \A q \in Page : q # p => pg'[q] = pg[q]
<1>1. /\ file' \in DatabaseType /\ wild' \in WildType /\ pg' \in [Page -> PgHdr]
      /\ pg' = [pg EXCEPT ![p] = Absent]
      /\ ~(pg[p].dirty /\ p <= pager.dbSize) => UNCHANGED <<file, wild>>
      /\ pg[p].dirty /\ p <= pager.dbSize =>
           /\ file'.size = IF p > file.size THEN p ELSE file.size
           /\ file'.page = [file.page EXCEPT ![p] = pg[p].data]
           /\ wild'.size = IF file'.size = file.size THEN wild.size ELSE wild.size \cup {file.size}
           /\ \A q \in Page : wild'.page[q] = IF file'.page[q] = file.page[q] THEN wild.page[q]
                                              ELSE wild.page[q] \cup {file.page[q]}
  BY EvictFields
<1>2. pg'[p] = Absent /\ \A q \in Page : q # p => pg'[q] = pg[q]
  BY <1>1, Typed
<1>3. ASSUME Stores(m, p)
      PROVE  /\ file'.size = IF p > file.size THEN p ELSE file.size
             /\ file'.page[p] = m.pg[p].data
             /\ \A q \in Page : q # p => file'.page[q] = file.page[q]
             /\ wild'.size \subseteq wild.size \cup {file.size}
             /\ \A q \in Page : q # p => wild'.page[q] = wild.page[q]
  <2>1. pg[p].dirty /\ p <= pager.dbSize
    BY <1>3 DEF Stores
  <2>2. file'.page = [file.page EXCEPT ![p] = pg[p].data]
    BY <1>1, <2>1
  <2>3. file.page \in [Page -> Cont]
    BY Typed, Contents
  <2>4. file'.page[p] = m.pg[p].data /\ \A q \in Page : q # p => file'.page[q] = file.page[q]
    BY <2>2, <2>3
  <2>5. \A q \in Page : q # p => wild'.page[q] = wild.page[q]
    BY <1>1, <2>1, <2>4
  <2>6. wild'.size \subseteq wild.size \cup {file.size}
    BY <1>1, <2>1
  <2>7. file'.size = IF p > file.size THEN p ELSE file.size
    BY <1>1, <2>1
  <2>8. QED
    BY <2>4, <2>5, <2>6, <2>7
<1>4. ~Stores(m, p) => file' = file /\ wild' = wild
  BY <1>1 DEF Stores
<1>5. QED
  BY <1>2, <1>3, <1>4 DEF EvictedFile

LEMMA RecycleData == ASSUME LayInv, DataInv, NEW p \in Page, Recycle(p) PROVE DataInv'
<1>1. /\ at = "txn" /\ p # 1 /\ pg[p].in /\ ~pg[p].needSync /\ Evict(p) /\ pager' = Recycled(p, pager)
      /\ UNCHANGED <<level, jrnl, gone, stmt, at, job, history, left>>
  BY DEF Recycle
<1>2. InTxn /\ Spilling
  BY <1>1 DEF InTxn, Spilling
<1>3. /\ TxnInv /\ CoreOK(Memory, base, Disk, jrnl.safe) /\ ShowsOK(Memory, expect, file) /\ Control
  BY <1>2, TxnFacts
<1>4. StmtOK(Memory, saved, base, file) /\ FlagsOK(Memory, expect, base, saved)
  BY <1>2, <1>3 DEF TxnInv
<1>5. /\ Memory.pager = pager /\ Memory.stmt = stmt /\ Memory.pg = pg /\ Memory.items = jrnl.items
      /\ Memory'.pager = pager' /\ Memory'.stmt = stmt /\ Memory'.pg = pg' /\ Memory'.items = jrnl.items
  BY <1>1, MemoryFields
<1>6. pager \in PagerType /\ MemoryType(Memory)
  BY Typed
<1>7. /\ pager'.state = IF pg[p].dirty THEN "EXCLUSIVE" ELSE pager.state
      /\ pager'.alwaysRollback = (pager.alwaysRollback \/ pg[p].alwaysRollback)
      /\ pager'.dbSize = pager.dbSize /\ pager'.origDbSize = pager.origDbSize
      /\ pager'.journalHdr = pager.journalHdr /\ pager'.needSync = pager.needSync
      /\ pager'.journalStarted = pager.journalStarted
      /\ pager'.aInJournal = pager.aInJournal /\ pager'.dirtyCache = pager.dirtyCache
  BY <1>1, <1>6, RecycledFields
<1>8. unsettled' = unsettled /\ expect' = expect /\ base' = base /\ saved' = saved
  BY <1>1 DEF history
<1>9. EvictedFile(Memory, p) /\ pg'[p] = Absent /\ \A q \in Page : q # p => pg'[q] = pg[q]
  BY <1>1, <1>5, <1>8, EvictIs
<1>10. job = 0
  BY <1>1, <1>3 DEF Control
<1> HIDE DEF Memory, Disk
<1>11. Evicted(Memory, p, Memory')
  BY <1>1, <1>5, <1>6, <1>7, <1>9 DEF Evicted
<1>12. QED
  BY <1>1, <1>2, <1>3, <1>4, <1>5, <1>8, <1>9, <1>10, <1>11, EvictData

LEMMA SpillData == LayInv /\ DataInv /\ Spill => DataInv'
<1> SUFFICES ASSUME LayInv, DataInv, Spill PROVE DataInv'
  OBVIOUS
<1>1. /\ InTxn /\ job \in Page /\ at = "spill" /\ at' = "txn" /\ job' = 0
      /\ Evict(job) /\ UNCHANGED <<level, gone, history, left>>
      /\ jrnl'.exists /\ jrnl'.safe = jrnl.safe /\ jrnl'.named = jrnl.named
      /\ jrnl' \in JournalType /\ jrnl.safe = Len(jrnl.items)
      /\ \A i \in 1..Len(jrnl.items) : jrnl'.items[i] = jrnl.items[i]
      /\ Headers(jrnl'.items) = Headers(jrnl.items) \cup {pager'.journalHdr}
      /\ Len(jrnl.items) <= Len(jrnl'.items)
      /\ \A i \in 1..Len(jrnl'.items) : i \in 1..Len(jrnl.items) \/ i = pager'.journalHdr
      /\ (pager.journalHdr = pager'.journalHdr \/ pager'.journalHdr = Len(jrnl.items) + 1)
      /\ pager' \in PagerType /\ pager'.state = (IF pg[job].dirty THEN "EXCLUSIVE" ELSE pager.state)
      /\ pager'.alwaysRollback = (pager.alwaysRollback \/ pg[job].alwaysRollback)
      /\ pager'.dbSize = pager.dbSize /\ pager'.origDbSize = pager.origDbSize
      /\ pager'.needSync = pager.needSync /\ pager'.journalStarted = pager.journalStarted
      /\ pager'.aInJournal = pager.aInJournal /\ pager'.dirtyCache = pager.dirtyCache
      /\ stmt' \in StmtType /\ stmt' = [stmt EXCEPT !.hdr = stmt'.hdr]
      /\ (~stmt.inUse => stmt' = stmt)
  BY SpillFields
<1>2. /\ TxnInv /\ CoreOK(Memory, base, Disk, jrnl.safe) /\ ShowsOK(Memory, expect, file) /\ Control
  BY <1>1, TxnFacts
<1>3. job # 0 /\ job # 1 /\ pg[job].in /\ ~pager.needSync /\ pager.journalStarted /\ Spilling
  BY <1>1, <1>2, PageOne DEF Control, Spilling, Page
<1>4. StmtOK(Memory, saved, base, file) /\ FlagsOK(Memory, expect, base, saved)
  BY <1>2, <1>3 DEF TxnInv
<1>5. /\ pager.journalHdr \in Headers(jrnl.items) /\ pager.journalHdr \in 1..Len(jrnl.items)
      /\ pager.nRec = Len(jrnl.items) - pager.journalHdr /\ jrnl.exists
      /\ jrnl.items[pager.journalHdr].was = pager.nRec
  BY <1>1, OpenJournal DEF Counting
<1>6. /\ jrnl.items \in Seq(Item) /\ Len(jrnl.items) \in Nat /\ pager \in PagerType /\ stmt \in StmtType
      /\ pg \in [Page -> PgHdr] /\ MemoryType(Memory) /\ jrnl'.items \in Seq(Item) /\ Len(jrnl'.items) \in Nat
      /\ base \in DatabaseType /\ expect \in DatabaseType /\ saved \in DatabaseType
  BY <1>1, Typed, LenProperties DEF JournalType
<1> DEFINE m == [pager |-> [[pager' EXCEPT !.state = pager.state] EXCEPT !.alwaysRollback = pager.alwaysRollback],
                 stmt |-> stmt', pg |-> pg, items |-> jrnl'.items]
           old == jrnl.items
           new == jrnl'.items
           H == pager.journalHdr
           G == pager'.journalHdr
<1>7. /\ m.stmt = stmt' /\ m.pg = pg /\ m.items = new
      /\ m.pager \in PagerType /\ m.pager.state = pager.state /\ m.pager.alwaysRollback = pager.alwaysRollback
      /\ m.pager.dbSize = pager.dbSize /\ m.pager.origDbSize = pager.origDbSize
      /\ m.pager.journalHdr = G /\ m.pager.needSync = pager.needSync
      /\ m.pager.journalStarted = pager.journalStarted
      /\ m.pager.aInJournal = pager.aInJournal /\ m.pager.dirtyCache = pager.dirtyCache
  <2>1. pager.state \in {"SHARED", "RESERVED", "EXCLUSIVE", "SYNCED"} /\ pager.alwaysRollback \in BOOLEAN
    BY <1>6 DEF PagerType
  <2> DEFINE q == [pager' EXCEPT !.state = pager.state]
  <2>2. /\ q \in PagerType /\ q.state = pager.state
        /\ q.dbSize = pager.dbSize /\ q.origDbSize = pager.origDbSize
        /\ q.journalHdr = G /\ q.needSync = pager.needSync
        /\ q.journalStarted = pager.journalStarted
        /\ q.aInJournal = pager.aInJournal /\ q.dirtyCache = pager.dirtyCache
    BY <1>1, <2>1 DEF PagerType
  <2>3. m.pager = [q EXCEPT !.alwaysRollback = pager.alwaysRollback] /\ m.stmt = stmt' /\ m.pg = pg /\ m.items = new
    OBVIOUS
  <2> HIDE DEF q, m, new, G
  <2>4. QED
    BY <2>1, <2>2, <2>3 DEF PagerType
<1>8. /\ stmt'.inUse = stmt.inUse /\ stmt'.size = stmt.size /\ stmt'.from = stmt.from
      /\ stmt'.recs = stmt.recs /\ stmt'.aInStmt = stmt.aInStmt
      /\ stmt = NoStmt => stmt' = NoStmt
  <2>1. stmt = NoStmt => ~stmt.inUse
    BY DEF NoStmt
  <2>2. QED
    BY <1>1, <1>6, <2>1 DEF StmtType
<1>9. KeepsRecords(old, new)
  <2>1. ASSUME NEW i \in 1..Len(new), i > Len(old) PROVE new[i].type # "record"
    <3>1. i = G
      BY <1>1, <1>6, <2>1
    <3>2. i \in Headers(new)
      BY <1>1, <3>1
    <3>3. QED
      BY <3>2 DEF Headers
  <2> HIDE DEF old, new
  <2>2. QED
    BY <1>1, <1>6, <2>1 DEF KeepsRecords, old, new
<1>10. \A p : Stored(old, H, jrnl.safe, p) => Stored(new, G, jrnl.safe, p)
  <2>1. SUFFICES ASSUME NEW p, NEW i \in 1..Len(old), Safely(old, H, jrnl.safe, i), old[i].page = p
                 PROVE  Safely(new, G, jrnl.safe, i) /\ new[i].page = p /\ i \in 1..Len(new)
    BY DEF Stored
  <2>2. new[i] = old[i] /\ old[i].type = "record" /\ i <= jrnl.safe /\ i \in 1..Len(new)
    BY <1>1, <1>6, <2>1 DEF Safely
  <2>3. CASE G = H
    <3>1. new[H] = old[H]
      BY <1>1, <1>5
    <3>2. QED
      BY <2>1, <2>2, <2>3, <3>1 DEF Safely
  <2>4. CASE G = Len(old) + 1
    BY <1>6, <2>1, <2>2, <2>4 DEF Safely
  <2>5. QED
    BY <1>1, <2>3, <2>4
<1>11. /\ Memory.pager = pager /\ Memory.stmt = stmt /\ Memory.pg = pg /\ Memory.items = old
       /\ Memory'.pager = pager' /\ Memory'.stmt = stmt' /\ Memory'.pg = pg' /\ Memory'.items = new
  BY MemoryFields
<1> HIDE DEF Memory, Disk, m, old, new, H
<1>12. SyncedAs(Memory, m)
  BY <1>7, <1>8, <1>9, <1>11 DEF SyncedAs
<1>13. CoreOK(m, base, Disk, jrnl.safe)
  <2>1. \A p \in Needed(base) :
          /\ Stored(Memory.items, Memory.pager.journalHdr, jrnl.safe, p)
               => Stored(m.items, m.pager.journalHdr, jrnl.safe, p)
          /\ m.pg[p].needSync = Memory.pg[p].needSync
    BY <1>7, <1>10, <1>11 DEF H
  <2>2. QED
    BY <1>2, <1>6, <1>12, <2>1, SyncedCore
<1>14. ShowsOK(m, expect, file)
  BY <1>2, <1>6, <1>12, SyncedShows
<1>15. StmtOK(m, saved, base, file)
  BY <1>4, <1>6, <1>12, SyncedStmt
<1>16. FlagsOK(m, expect, base, saved)
  BY <1>4, <1>6, <1>12, SyncedFlags
<1>17. MemoryType(m)
  BY <1>1, <1>6, <1>7 DEF MemoryType, new
<1>18. unsettled' = unsettled /\ expect' = expect /\ base' = base /\ saved' = saved
  BY <1>1 DEF history
<1>19. EvictedFile(m, job) /\ pg'[job] = Absent /\ \A q \in Page : q # job => pg'[q] = pg[q]
  BY <1>1, <1>7, <1>18, EvictIs
<1>20. ~pg[job].needSync
  <2>1. CachePage(Memory, base, job)
    BY <1>1, <1>2 DEF CoreOK
  <2>2. QED
    BY <1>3, <1>11, <2>1 DEF CachePage
<1>21. Evicted(m, job, Memory')
  <2>1. job \in Page /\ job # 1 /\ m.pg[job].in /\ ~m.pg[job].needSync
    BY <1>1, <1>3, <1>7, <1>20
  <2>2. /\ Memory'.items = m.items /\ Memory'.stmt = m.stmt /\ Memory'.pg[job] = Absent
        /\ \A q \in Page : q # job => Memory'.pg[q] = m.pg[q]
    BY <1>7, <1>11, <1>19
  <2>3. /\ pager'.state = IF m.pg[job].dirty THEN "EXCLUSIVE" ELSE m.pager.state
        /\ pager'.alwaysRollback = (m.pager.alwaysRollback \/ m.pg[job].alwaysRollback)
    BY <1>1, <1>7, Zenon
  <2>4. /\ pager'.dbSize = m.pager.dbSize /\ pager'.origDbSize = m.pager.origDbSize
        /\ pager'.journalHdr = m.pager.journalHdr /\ pager'.needSync = m.pager.needSync
        /\ pager'.journalStarted = m.pager.journalStarted /\ pager'.aInJournal = m.pager.aInJournal
        /\ pager'.dirtyCache = m.pager.dirtyCache
    BY <1>1, <1>7
  <2>5. QED
    BY <1>11, <1>17, <2>1, <2>2, <2>3, <2>4, Zenon DEF Evicted
<1>22. jrnl'.exists = jrnl.exists
  BY <1>1, <1>5
<1>23. QED
  BY <1>1, <1>3, <1>7, <1>13, <1>14, <1>15, <1>16, <1>18, <1>19, <1>21, <1>22, EvictData

LEMMA StorePagesData == LayInv /\ DataInv /\ StorePages => DataInv'
<1> SUFFICES ASSUME LayInv, DataInv, StorePages PROVE DataInv'
  OBVIOUS
<1>1. /\ at = "store" /\ at' = "stored" /\ pager' = [pager EXCEPT !.state = "EXCLUSIVE"]
      /\ UNCHANGED <<level, jrnl, gone, stmt, job, history, left>>
      /\ file'.size \in {file.size} \cup Dirty /\ file'.size >= file.size
      /\ \A p \in Dirty : file'.size >= p
      /\ \A p \in Page : file'.page[p] = IF p \in Dirty THEN pg[p].data ELSE file.page[p]
      /\ wild'.size = IF file'.size = file.size THEN wild.size ELSE wild.size \cup {file.size}
      /\ \A p \in Page : wild'.page[p] = IF file'.page[p] = file.page[p] THEN wild.page[p]
                                         ELSE wild.page[p] \cup {file.page[p]}
      /\ \A p \in Page : pg'[p] = [pg[p] EXCEPT !.dirty = FALSE]
  BY StorePagesFields
<1>2. InTxn /\ InTxn'
  BY <1>1 DEF InTxn
<1>3. /\ TxnInv /\ FileZero /\ GoneInv /\ CoreOK(Memory, base, Disk, jrnl.safe) /\ ShowsOK(Memory, expect, file)
      /\ Control /\ SizesOK(Memory, base, file) /\ PagerOK(Memory)
  BY <1>2, TxnFacts
<1>4. /\ pager.dirtyCache /\ ~pager.needSync /\ pager.journalStarted /\ job = 0
  BY <1>1, <1>3 DEF Control
<1>5. /\ pager \in PagerType /\ base \in DatabaseType /\ expect \in DatabaseType /\ pg \in [Page -> PgHdr]
      /\ file \in DatabaseType /\ file.size \in Nat /\ expect.size \in Nat /\ base.size \in Nat
  BY Typed, Contents
<1>6. /\ pager'.state = "EXCLUSIVE" /\ pager'.dbSize = pager.dbSize /\ pager'.origDbSize = pager.origDbSize
      /\ pager'.journalHdr = pager.journalHdr /\ pager'.needSync = pager.needSync
      /\ pager'.journalStarted = pager.journalStarted /\ pager'.aInJournal = pager.aInJournal
      /\ pager'.dirtyCache = pager.dirtyCache
  BY <1>1, <1>5 DEF PagerType
<1>7. \A p \in Page : /\ pg'[p].in = pg[p].in /\ pg'[p].data = pg[p].data /\ ~pg'[p].dirty
                      /\ pg'[p].inJournal = pg[p].inJournal /\ pg'[p].needSync = pg[p].needSync
                      /\ (pg[p] = Absent => pg'[p] = Absent)
  <2>1. [Absent EXCEPT !.dirty = FALSE] = Absent
    <3>1. Absent \in PgHdr /\ Absent.dirty = FALSE
      BY EmptyTypes DEF Absent
    <3>2. \A h \in PgHdr : h.dirty = FALSE => [h EXCEPT !.dirty = FALSE] = h
      BY DEF PgHdr
    <3>3. QED
      BY <3>1, <3>2
  <2>2. \A p \in Page : pg[p] = Absent => pg'[p] = Absent
    BY <1>1, <2>1
  <2>3. \A h \in PgHdr : /\ [h EXCEPT !.dirty = FALSE].in = h.in /\ [h EXCEPT !.dirty = FALSE].data = h.data
                         /\ ~[h EXCEPT !.dirty = FALSE].dirty
                         /\ [h EXCEPT !.dirty = FALSE].inJournal = h.inJournal
                         /\ [h EXCEPT !.dirty = FALSE].needSync = h.needSync
    BY DEF PgHdr
  <2>4. \A p \in Page : pg[p] \in PgHdr /\ pg'[p] = [pg[p] EXCEPT !.dirty = FALSE]
    BY <1>1, <1>5
  <2>5. QED
    BY <2>2, <2>3, <2>4
<1>8. /\ Memory.pager = pager /\ Memory.pg = pg /\ Memory.items = jrnl.items
      /\ Memory'.pager = pager' /\ Memory'.pg = pg' /\ Memory'.items = jrnl.items
  BY <1>1, MemoryFields
<1>9. expect' = expect /\ base' = base /\ saved' = saved /\ unsettled' = unsettled
  BY <1>1 DEF history
<1>10. /\ pager.dbSize = expect.size /\ 1 <= expect.size /\ (expect.size > file.size => pg[expect.size].dirty)
       /\ file.size <= expect.size /\ base.size <= expect.size /\ pager.origDbSize = base.size /\ pg[1].in
       /\ expect.size \in Page
  <2>1. SizeShows(Memory, expect, file)
    BY <1>3 DEF ShowsOK
  <2>2. /\ pager.dbSize = expect.size /\ 1 <= expect.size /\ (expect.size > file.size => pg[expect.size].dirty)
    BY <1>8, <2>1 DEF SizeShows
  <2>3. QED
    BY <1>3, <1>5, <1>8, <2>2, Contents DEF SizesOK, Page
<1>11. \A p \in Page : CachePage(Memory, base, p)
  BY <1>3 DEF CoreOK
<1>12. \A p \in Page : (p \in Dirty <=> pg[p].dirty /\ p <= expect.size) /\ ~pg[p].needSync
  <2> SUFFICES ASSUME NEW p \in Page PROVE (p \in Dirty <=> pg[p].dirty /\ p <= expect.size) /\ ~pg[p].needSync
    OBVIOUS
  <2>1. CachePage(Memory, base, p)
    BY <1>11
  <2>2. (~pg[p].in => ~pg[p].dirty) /\ ~pg[p].needSync
    BY <1>4, <1>8, <2>1, AbsentFields DEF CachePage
  <2>3. QED
    BY <1>10, <2>2 DEF Dirty
<1>13. file'.size = expect.size
  <2>1. file'.size <= expect.size
    BY <1>1, <1>10, <1>12 DEF Dirty
  <2>2. file'.size >= expect.size
    <3>1. CASE expect.size > file.size
      <4>1. expect.size \in Dirty
        BY <1>5, <1>10, <1>12, <3>1
      <4>2. QED
        BY <1>1, <4>1
    <3>2. CASE ~(expect.size > file.size)
      BY <1>1, <1>5, <1>10, <3>2
    <3>3. QED
      BY <3>1, <3>2
  <2>3. file'.size \in Nat
    BY <1>1, <1>5, PageOne DEF Dirty
  <2>4. QED
    BY <1>5, <2>1, <2>2, <2>3
<1>14. \A q \in Page : q \notin Dirty => file'.page[q] = file.page[q] /\ wild'.page[q] = wild.page[q]
  BY <1>1
<1> HIDE DEF Memory, Disk
<1>15. CoreOK(Memory', base, Disk', jrnl.safe)
  <2>1. SizesOK(Memory', base, Disk'.file)
    BY <1>5, <1>6, <1>7, <1>8, <1>10, <1>13, DiskFields, PageOne DEF SizesOK
  <2>2. PagerOK(Memory')
    BY <1>3, <1>4, <1>6, <1>8 DEF PagerOK
  <2>3. ItemsOK(Memory', base)
    BY <1>3, <1>6, <1>8 DEF CoreOK, ItemsOK
  <2>4. ASSUME NEW p \in Page PROVE CachePage(Memory', base, p)
    <3>1. CachePage(Memory, base, p)
      BY <1>11
    <3>2. QED
      BY <1>6, <1>7, <1>8, <3>1 DEF CachePage
  <2>5. ASSUME NEW q \in Needed(base) PROVE OriginalPage(Memory', base, Disk', jrnl.safe, q)
    <3>1. OriginalPage(Memory, base, Disk, jrnl.safe, q) /\ q \in Page /\ q <= base.size /\ CachePage(Memory, base, q)
          /\ ~pg[q].needSync
      BY <1>3, <1>5, <1>11, <1>12, NeededPages DEF CoreOK
    <3>2. CASE q \in pager.aInJournal
      <4>1. Recorded(jrnl.items, q) /\ Stored(jrnl.items, pager.journalHdr, jrnl.safe, q)
        BY <1>8, <3>1, <3>2 DEF OriginalPage
      <4>2. QED
        BY <1>6, <1>8, <3>2, <4>1 DEF OriginalPage
    <3>3. CASE q \notin pager.aInJournal
      <4>1. ~pg[q].dirty
        BY <1>8, <3>1, <3>3, AbsentFields DEF CachePage
      <4>2. file'.page[q] = file.page[q] /\ wild'.page[q] = wild.page[q]
        BY <1>12, <1>14, <3>1, <4>1
      <4>3. Cur(Memory', file', q) = Cur(Memory, file, q)
        BY <1>7, <1>8, <3>1, <4>2 DEF Cur
      <4>4. FileIs(Disk', q, base.page[q]) <=> FileIs(Disk, q, base.page[q])
        BY <1>9, <4>2, DiskIs
      <4>5. QED
        BY <1>6, <1>8, <3>1, <3>3, <4>3, <4>4, DiskFields DEF OriginalPage
    <3>4. QED
      BY <3>2, <3>3
  <2>6. QED
    BY <2>1, <2>2, <2>3, <2>4, <2>5 DEF CoreOK
<1>16. \A q \in Needed(expect) : Cur(Memory', file', q) = expect.page[q] /\ file'.page[q] = expect.page[q]
                                /\ (pg[q].in => pg[q].data = expect.page[q])
  <2> SUFFICES ASSUME NEW q \in Needed(expect)
               PROVE  Cur(Memory', file', q) = expect.page[q] /\ file'.page[q] = expect.page[q]
                      /\ (pg[q].in => pg[q].data = expect.page[q])
    OBVIOUS
  <2>1. ShowsPage(Memory, expect, file, q) /\ q \in Page /\ q <= expect.size
    BY <1>3, <1>5, NeededPages DEF ShowsOK
  <2>2. pg[q].in => pg[q].data = expect.page[q]
    BY <1>8, <2>1 DEF ShowsPage, Cur
  <2>3. file'.page[q] = expect.page[q]
    <3>1. CASE q \in Dirty
      <4>1. pg[q].in /\ file'.page[q] = pg[q].data
        BY <1>1, <2>1, <3>1 DEF Dirty
      <4>2. QED
        BY <2>2, <4>1
    <3>2. CASE q \notin Dirty
      <4>1. ~pg[q].dirty /\ file'.page[q] = file.page[q]
        BY <1>12, <1>14, <2>1, <3>2
      <4>2. QED
        BY <1>8, <2>1, <4>1 DEF ShowsPage, Cur
    <3>3. QED
      BY <3>1, <3>2
  <2>4. QED
    BY <1>7, <1>8, <2>1, <2>2, <2>3 DEF Cur
<1>17. ShowsOK(Memory', expect, file')
  <2>1. SizeShows(Memory', expect, file')
    BY <1>5, <1>6, <1>8, <1>10, <1>13 DEF SizeShows
  <2>2. ASSUME NEW q \in Needed(expect) PROVE ShowsPage(Memory', expect, file', q)
    <3>1. q \in Page
      BY <1>5, NeededPages
    <3>2. QED
      BY <1>7, <1>8, <1>16, <3>1 DEF ShowsPage
  <2>3. QED
    BY <2>1, <2>2 DEF ShowsOK
<1>18. SizesFrom(Disk', base.size)
  <2>1. file.size >= base.size /\ (~unsettled => \A s \in wild.size : s >= base.size)
    BY <1>3, DiskIs DEF TxnInv
  <2>2. wild'.size \subseteq wild.size \cup {file.size} /\ file'.size >= base.size
    BY <1>1, <1>10, <1>13
  <2>3. QED
    BY <1>9, <2>1, <2>2, DiskIs
<1>19. jrnl.named /\ jrnl.safe >= 1
  BY <1>3, <1>4 DEF TxnInv
<1>20. Pure(Loosely(Disk'), expect)
  BY <1>13, <1>16, LooselyPure
<1>21. TxnInv'
  <2>1. Control'
    <3>1. Pure(Loosely(Disk'), expect')
      BY <1>9, <1>20
    <3>2. QED
      BY <1>1, <1>4, <1>6, <3>1 DEF Control
  <2>2. ~Spilling'
    BY <1>1, <1>4 DEF Spilling
  <2>3. pager'.state # "RESERVED" /\ jrnl'.named /\ jrnl'.safe >= 1 /\ jrnl'.safe = jrnl.safe
    BY <1>1, <1>6, <1>19
  <2>4. QED
    BY <1>9, <1>15, <1>17, <1>18, <2>1, <2>2, <2>3 DEF TxnInv
<1>22. GoneInv'
  <2>1. jrnl.exists /\ ~gone.jrnl.exists
    BY <1>3, <1>19 DEF GoneInv
  <2>2. QED
    BY <1>1, <2>1, NoGone
<1>23. FileZero'
  <2>1. SUFFICES ASSUME NEW q \in Page, q > file'.size PROVE file'.page[q] = Zero
    BY DEF FileZero
  <2>2. q \notin Dirty /\ q > file.size
    BY <1>5, <1>10, <1>12, <1>13, <2>1, PageOne
  <2>3. QED
    BY <1>3, <1>14, <2>2 DEF FileZero
<1>24. QED
  BY <1>2, <1>9, <1>21, <1>22, <1>23, TxnStepData

LEMMA SyncFileData == LayInv /\ DataInv /\ SyncFile => DataInv'
<1> SUFFICES ASSUME LayInv, DataInv, SyncFile PROVE DataInv'
  OBVIOUS
<1>1. /\ at = "stored" /\ at' = "synced" /\ wild' = Calm /\ gone' = NotGone /\ unsettled' = FALSE
      /\ pager' = [pager EXCEPT !.state = "SYNCED"]
      /\ UNCHANGED <<level, file, jrnl, stmt, pg, job, expect, base, saved, left>>
  BY DEF SyncFile
<1>2. InTxn /\ InTxn'
  BY <1>1 DEF InTxn
<1>3. /\ TxnInv /\ FileZero /\ GoneInv /\ CoreOK(Memory, base, Disk, jrnl.safe) /\ ShowsOK(Memory, expect, file)
      /\ Control
  BY <1>2, TxnFacts
<1>4. /\ pager.dirtyCache /\ ~pager.needSync /\ pager.journalStarted /\ job = 0 /\ Pure(Loosely(Disk), expect)
  BY <1>1, <1>3 DEF Control
<1>5. pager \in PagerType /\ base \in DatabaseType
  BY Typed
<1>6. /\ pager'.state = "SYNCED" /\ pager'.dbSize = pager.dbSize /\ pager'.origDbSize = pager.origDbSize
      /\ pager'.journalHdr = pager.journalHdr /\ pager'.needSync = pager.needSync
      /\ pager'.journalStarted = pager.journalStarted /\ pager'.aInJournal = pager.aInJournal
      /\ pager'.dirtyCache = pager.dirtyCache
  BY <1>1, <1>5 DEF PagerType
<1>7. /\ Memory.pager = pager /\ Memory.pg = pg /\ Memory.items = jrnl.items
      /\ Memory'.pager = pager' /\ Memory'.pg = pg /\ Memory'.items = jrnl.items
  BY <1>1, MemoryFields
<1>8. \A p \in Page : \A c : FileIs(Disk, p, c) => FileIs(Disk', p, c)
  <2>1. \A p \in Page : wild'.page[p] = {}
    BY <1>1, CalmFields
  <2>2. QED
    BY <1>1, <2>1, DiskIs
<1>9. \A k : SizesFrom(Disk, k) => SizesFrom(Disk', k)
  <2>1. wild'.size = {}
    BY <1>1, CalmFields
  <2>2. QED
    BY <1>1, <2>1, DiskIs
<1>10. Disk'.file = file /\ Disk.file = file
  BY <1>1, DiskFields
<1> HIDE DEF Memory, Disk
<1>11. CoreOK(Memory', base, Disk', jrnl.safe)
  <2>1. SizesOK(Memory', base, Disk'.file) /\ ItemsOK(Memory', base)
    BY <1>3, <1>6, <1>7, <1>10 DEF CoreOK, SizesOK, ItemsOK
  <2>2. PagerOK(Memory')
    BY <1>3, <1>4, <1>6, <1>7 DEF CoreOK, PagerOK
  <2>3. ASSUME NEW p \in Page PROVE CachePage(Memory', base, p)
    <3>1. CachePage(Memory, base, p)
      BY <1>3 DEF CoreOK
    <3>2. QED
      BY <1>6, <1>7, <3>1 DEF CachePage
  <2>4. ASSUME NEW p \in Needed(base) PROVE OriginalPage(Memory', base, Disk', jrnl.safe, p)
    <3>1. OriginalPage(Memory, base, Disk, jrnl.safe, p) /\ p \in Page
      BY <1>3, <1>5, NeededPages DEF CoreOK
    <3>2. Cur(Memory', Disk'.file, p) = Cur(Memory, Disk.file, p)
      BY <1>7, <1>10 DEF Cur
    <3>3. QED
      BY <1>6, <1>7, <1>8, <3>1, <3>2 DEF OriginalPage
  <2>5. QED
    BY <2>1, <2>2, <2>3, <2>4 DEF CoreOK
<1>12. ShowsOK(Memory', expect, file)
  <2>1. SizeShows(Memory', expect, file)
    BY <1>3, <1>6, <1>7 DEF ShowsOK, SizeShows
  <2>2. \A p : ShowsPage(Memory', expect, file, p) <=> ShowsPage(Memory, expect, file, p)
    BY <1>7 DEF ShowsPage, Cur
  <2>3. QED
    BY <1>3, <2>1, <2>2 DEF ShowsOK
<1>13. TxnInv'
  <2>1. Control'
    <3>1. Pure(Loosely(Disk'), expect')
      BY <1>1, <1>4, LooselyPure
    <3>2. QED
      BY <1>1, <1>4, <1>6, <3>1 DEF Control
  <2>2. ~Spilling'
    BY <1>1, <1>4 DEF Spilling
  <2>3. SizesFrom(Disk', base.size) /\ jrnl.named /\ jrnl.safe >= 1
    BY <1>3, <1>4, <1>9 DEF TxnInv
  <2>4. QED
    BY <1>1, <1>6, <1>11, <1>12, <2>1, <2>2, <2>3 DEF TxnInv
<1>14. GoneInv'
  <2>1. jrnl.named => jrnl.exists
    BY <1>3 DEF GoneInv
  <2>2. QED
    BY <1>1, <2>1, NoGone DEF NotGone, NoJournal
<1>15. FileZero'
  BY <1>1, <1>3 DEF FileZero
<1>16. QED
  BY <1>1, <1>2, <1>13, <1>14, <1>15, TxnStepData

----------------------------------------------------------------------------
\* Rolling a statement back.

LEMMA StmtItemsAre ==
  ASSUME LayInv, stmt.from <= Len(jrnl.items)
  PROVE  /\ StmtItems \in Seq(Item) /\ Len(StmtItems) \in Nat
         /\ \A i \in 1..Len(StmtItems) :
              \/ i \in 1..Len(stmt.recs) /\ StmtItems[i] = stmt.recs[i]
              \/ \E k \in (stmt.from + 1)..Len(jrnl.items) : StmtItems[i] = jrnl.items[k]
         /\ \A k \in 1..Len(stmt.recs) : \E i \in 1..Len(StmtItems) : StmtItems[i] = stmt.recs[k]
         /\ \A k \in (stmt.from + 1)..Len(jrnl.items) : \E i \in 1..Len(StmtItems) : StmtItems[i] = jrnl.items[k]
<1> DEFINE r == stmt.recs
           t == jrnl.items
           a == stmt.from + 1
           u == SubSeq(t, a, Len(t))
<1>1. r \in Seq(Item) /\ t \in Seq(Item) /\ stmt.from \in Nat /\ Len(t) \in Nat /\ Len(r) \in Nat
  BY Typed, LenProperties DEF StmtType
<1>2. a \in Int /\ \A i \in a..Len(t) : t[i] \in Item
  <2>1. \A i \in 1..Len(t) : t[i] \in Item
    BY <1>1, ItemAt
  <2>2. QED
    BY <1>1, <2>1
<1> HIDE DEF a
<1>3. /\ u \in Seq(Item) /\ Len(u) = IF a <= Len(t) THEN Len(t) - a + 1 ELSE 0
      /\ \A i \in 1..(Len(t) - a + 1) : u[i] = t[a + i - 1]
  BY <1>1, <1>2, SubSeqProperties
<1>4. Len(u) = Len(t) - stmt.from
  BY <1>1, <1>3 DEF a
<1>5. \A i \in 1..(Len(t) - stmt.from) : u[i] = t[stmt.from + i]
  <2>1. SUFFICES ASSUME NEW i \in 1..(Len(t) - stmt.from) PROVE u[i] = t[stmt.from + i]
    OBVIOUS
  <2>2. i \in 1..(Len(t) - a + 1) /\ a + i - 1 = stmt.from + i
    BY <1>1 DEF a
  <2>3. u[i] = t[a + i - 1]
    BY <1>3, <2>2
  <2>4. QED
    BY <2>2, <2>3
<1>6. StmtItems = r \o u
  BY DEF StmtItems, a
<1> HIDE DEF u, r, t
<1>7. /\ StmtItems \in Seq(Item) /\ Len(StmtItems) = Len(r) + Len(u)
      /\ \A i \in 1..(Len(r) + Len(u)) : StmtItems[i] = IF i <= Len(r) THEN r[i] ELSE u[i - Len(r)]
  BY <1>1, <1>3, <1>6, ConcatProperties, Zenon
<1>8. Len(u) \in Nat /\ Len(u) = Len(t) - stmt.from /\ Len(StmtItems) = Len(r) + Len(u) /\ Len(StmtItems) \in Nat
  BY <1>1, <1>4, <1>7 DEF t
<1>9. ASSUME NEW i \in 1..Len(StmtItems)
      PROVE  \/ i \in 1..Len(r) /\ StmtItems[i] = r[i]
             \/ \E k \in (stmt.from + 1)..Len(t) : StmtItems[i] = t[k]
  <2>1. CASE i <= Len(r)
    BY <1>1, <1>7, <1>8, <2>1
  <2>2. CASE ~(i <= Len(r))
    <3>1. i - Len(r) \in 1..(Len(t) - stmt.from) /\ stmt.from + (i - Len(r)) \in (stmt.from + 1)..Len(t)
      BY <1>1, <1>8, <2>2, SMTT(20)
    <3>2. StmtItems[i] = u[i - Len(r)]
      BY <1>1, <1>7, <1>8, <2>2
    <3>3. u[i - Len(r)] = t[stmt.from + (i - Len(r))]
      BY <1>5, <3>1
    <3>4. QED
      BY <3>1, <3>2, <3>3
  <2>3. QED
    BY <2>1, <2>2
<1>10. ASSUME NEW k \in 1..Len(r) PROVE \E i \in 1..Len(StmtItems) : StmtItems[i] = r[k]
  <2>1. k \in 1..Len(StmtItems) /\ k <= Len(r) /\ k \in 1..(Len(r) + Len(u))
    BY <1>1, <1>8
  <2>2. StmtItems[k] = r[k]
    BY <1>7, <2>1
  <2>3. QED
    BY <2>1, <2>2
<1>11. ASSUME NEW k \in (stmt.from + 1)..Len(t) PROVE \E i \in 1..Len(StmtItems) : StmtItems[i] = t[k]
  <2> DEFINE x == k - stmt.from
             i == Len(r) + x
  <2>1. x \in 1..(Len(t) - stmt.from) /\ stmt.from + x = k /\ i \in 1..Len(StmtItems)
        /\ i \in 1..(Len(r) + Len(u)) /\ ~(i <= Len(r)) /\ i - Len(r) = x
    <3>1. k \in Nat /\ Len(r) \in Nat /\ Len(u) \in Nat /\ Len(t) \in Nat /\ stmt.from \in Nat
          /\ Len(u) = Len(t) - stmt.from /\ k \in (stmt.from + 1)..Len(t)
      BY <1>1, <1>8
    <3>2. PICK f \in Nat : f = stmt.from
      BY ONLY <3>1
    <3>3. PICK g \in Nat, l \in Nat, n \in Nat : g = Len(r) /\ l = Len(u) /\ n = Len(t)
      BY ONLY <3>1
    <3>4. l = n - f /\ k \in Nat /\ k \in (f + 1)..n
      BY ONLY <3>1, <3>2, <3>3
    <3>5. k - f \in 1..(n - f) /\ f + (k - f) = k
      BY ONLY <3>4
    <3>6. g + (k - f) \in 1..(g + l) /\ ~(g + (k - f) <= g) /\ (g + (k - f)) - g = k - f
      BY ONLY <3>4
    <3>7. Len(StmtItems) = Len(r) + Len(u)
      BY <1>8
    <3>8. QED
      BY ONLY <3>2, <3>3, <3>5, <3>6, <3>7
  <2>2. StmtItems[i] = u[i - Len(r)]
    BY <1>7, <2>1
  <2>3. u[x] = t[stmt.from + x]
    BY <1>5, <2>1
  <2>4. QED
    BY <2>1, <2>2, <2>3
<1>12. QED
  BY <1>7, <1>8, <1>9, <1>10, <1>11 DEF r, t

\* A page is played back when its original went to either journal since the statement began.
LEMMA StmtHitIs ==
  ASSUME LayInv, NEW s \in DatabaseType, NEW b, StmtOpen(Memory, s, b), StmtRecs(Memory, s)
  PROVE  /\ \A p \in Page : StmtHit(p) <=> (Hit(Memory, p) /\ p <= s.size)
         /\ \A p \in Needed(s) : StmtHit(p) => StmtWas(p) = s.page[p]
<1>1. stmt.size = s.size /\ stmt.from <= Len(jrnl.items)
  BY MemoryFields DEF StmtOpen
<1>2. /\ \A i \in 1..Len(stmt.recs) :
           /\ stmt.recs[i] \in RecordType
           /\ stmt.recs[i].page \in Needed(s) => stmt.recs[i].data = s.page[stmt.recs[i].page]
      /\ \A i \in (stmt.from + 1)..Len(jrnl.items) :
           jrnl.items[i].type = "record" /\ jrnl.items[i].page \in Needed(s)
             => jrnl.items[i].data = s.page[jrnl.items[i].page]
  BY MemoryFields DEF StmtRecs
<1>3. /\ \A i \in 1..Len(StmtItems) :
           \/ i \in 1..Len(stmt.recs) /\ StmtItems[i] = stmt.recs[i]
           \/ \E k \in (stmt.from + 1)..Len(jrnl.items) : StmtItems[i] = jrnl.items[k]
      /\ \A k \in 1..Len(stmt.recs) : \E i \in 1..Len(StmtItems) : StmtItems[i] = stmt.recs[k]
      /\ \A k \in (stmt.from + 1)..Len(jrnl.items) : \E i \in 1..Len(StmtItems) : StmtItems[i] = jrnl.items[k]
  BY <1>1, StmtItemsAre
<1>4. \A p : Hit(Memory, p) <=> \/ \E i \in 1..Len(stmt.recs) : stmt.recs[i].page = p
                                \/ \E i \in (stmt.from + 1)..Len(jrnl.items) :
                                     jrnl.items[i].type = "record" /\ jrnl.items[i].page = p
  BY MemoryFields DEF Hit, InRecs, InTail
<1>5. \A p : StmtHit(p) <=> \E i \in 1..Len(StmtItems) :
                              StmtItems[i].type = "record" /\ StmtItems[i].page = p /\ p <= stmt.size
  BY DEF StmtHit, StmtRecord
<1>6. \A k \in 1..Len(stmt.recs) : stmt.recs[k].type = "record"
  BY <1>2 DEF RecordType
<1>7. ASSUME NEW p \in Page, StmtHit(p) PROVE Hit(Memory, p) /\ p <= s.size
  <2>1. PICK i \in 1..Len(StmtItems) : StmtItems[i].type = "record" /\ StmtItems[i].page = p /\ p <= stmt.size
    BY <1>5, <1>7
  <2>2. QED
    BY <1>1, <1>3, <1>4, <2>1, SMTT(20)
<1>8. ASSUME NEW p \in Page, Hit(Memory, p), p <= s.size PROVE StmtHit(p)
  <2>1. CASE \E i \in 1..Len(stmt.recs) : stmt.recs[i].page = p
    BY <1>1, <1>3, <1>5, <1>6, <1>8, <2>1
  <2>2. CASE \E i \in (stmt.from + 1)..Len(jrnl.items) : jrnl.items[i].type = "record" /\ jrnl.items[i].page = p
    BY <1>1, <1>3, <1>5, <1>8, <2>2
  <2>3. QED
    BY <1>4, <1>8, <2>1, <2>2
<1>9. ASSUME NEW p \in Needed(s), StmtHit(p) PROVE StmtWas(p) = s.page[p]
  <2>1. p \in Page
    BY NeededPages
  <2> DEFINE i == Max(StmtRecord(StmtItems, p))
  <2>2. i \in StmtRecord(StmtItems, p)
    BY <1>9, <2>1, StmtItemsType DEF StmtHit
  <2>3. StmtWas(p) = StmtItems[i].data
    BY DEF StmtWas
  <2> HIDE DEF i
  <2>4. i \in 1..Len(StmtItems) /\ StmtItems[i].type = "record" /\ StmtItems[i].page = p
    BY <2>2 DEF StmtRecord
  <2>5. QED
    BY <1>2, <1>3, <2>3, <2>4, SMTT(20)
<1>10. QED
  BY <1>7, <1>8, <1>9

\* The pages pager_stmt_playback changes, in the cache and in the file.
StmtRolled(s) ==
  /\ \A p \in Page : /\ pg'[p].in = pg[p].in
                     /\ pg'[p].data = IF pg[p].in /\ StmtHit(p) THEN StmtWas(p) ELSE pg[p].data
                     /\ pg'[p].dirty <=> pg[p].dirty /\ ~(pg[p].in /\ StmtStore(p))
                     /\ pg'[p].inJournal = pg[p].inJournal /\ pg'[p].needSync = pg[p].needSync
                     /\ pg'[p].alwaysRollback = pg[p].alwaysRollback /\ ~pg'[p].inStmt
                     /\ pg[p] = Absent => pg'[p] = Absent
  /\ \A p \in Page : StmtStore(p) => StmtHit(p) /\ ~(pg[p].in /\ pg[p].needSync)
  /\ \A p \in Page : ~StmtStore(p) /\ p <= s => file'.page[p] = file.page[p] /\ wild'.page[p] = wild.page[p]
  /\ \A p \in Page : StmtStore(p) => file'.page[p] = StmtWas(p)
  /\ pager.state = "EXCLUSIVE" => /\ file'.size = s
                                  /\ \A p \in Page : p > s => file'.page[p] = Zero
                                  /\ \A p \in Page : StmtStore(p) <=> StmtHit(p) /\ ~(pg[p].in /\ pg[p].needSync)
  /\ pager.state # "EXCLUSIVE" => file' = file /\ wild' = wild /\ \A p \in Page : ~StmtStore(p)
  /\ wild'.size \subseteq wild.size \cup {file.size}

LEMMA StmtRolledIs ==
  ASSUME LayInv, StmtRollback, NEW s \in DatabaseType, stmt.size = s.size,
         \A p \in Page : StmtHit(p) => p <= s.size
  PROVE  StmtRolled(s.size)
<1>1. /\ StmtCut \in DatabaseType /\ StmtFile \in DatabaseType /\ StmtCache \in [Page -> PgHdr]
      /\ StmtFile.size \in {StmtCut.size} \cup {p \in Page : StmtStore(p)}
      /\ StmtFile.size >= StmtCut.size /\ \A p \in Page : StmtStore(p) => StmtFile.size >= p
      /\ \A p \in Page : StmtHit(p) => StmtWas(p) \in Cont
      /\ \A p \in Page : StmtFile.page[p] = IF StmtStore(p) THEN StmtWas(p) ELSE StmtCut.page[p]
      /\ Writes(StmtFile) /\ pg' = Committed(StmtCache)
  BY StmtRollbackFields
<1>2. file \in DatabaseType /\ wild \in WildType /\ pg \in [Page -> PgHdr] /\ file.size \in Nat /\ s.size \in Nat
      /\ s.size \in 0..MaxPage /\ Page \subseteq Nat
  BY Typed, Contents, PageOne
<1>3. /\ file' = StmtFile /\ file' \in DatabaseType /\ wild' \in WildType
      /\ wild'.size = IF StmtFile.size = file.size THEN wild.size ELSE wild.size \cup {file.size}
      /\ \A p \in Page : wild'.page[p] = IF StmtFile.page[p] = file.page[p] THEN wild.page[p]
                                         ELSE wild.page[p] \cup {file.page[p]}
  BY <1>1, <1>2, WritesFields
<1>4. \A p \in Page : StmtStore(p) => StmtHit(p) /\ ~(pg[p].in /\ pg[p].needSync) /\ pager.state = "EXCLUSIVE"
  BY DEF StmtStore, Unsynced
<1>5. \A p \in Page : pager.state = "EXCLUSIVE" /\ StmtHit(p) /\ ~(pg[p].in /\ pg[p].needSync) => StmtStore(p)
  BY DEF StmtStore, Unsynced
<1>6. ASSUME NEW p \in Page
      PROVE  /\ pg'[p].in = pg[p].in
             /\ pg'[p].data = IF pg[p].in /\ StmtHit(p) THEN StmtWas(p) ELSE pg[p].data
             /\ pg'[p].dirty <=> pg[p].dirty /\ ~(pg[p].in /\ StmtStore(p))
             /\ pg'[p].inJournal = pg[p].inJournal /\ pg'[p].needSync = pg[p].needSync
             /\ pg'[p].alwaysRollback = pg[p].alwaysRollback /\ ~pg'[p].inStmt
             /\ pg[p] = Absent => pg'[p] = Absent
  <2> DEFINE h == pg[p]
             d == h.dirty /\ ~StmtStore(p)
             k == [[h EXCEPT !.data = StmtWas(p)] EXCEPT !.dirty = d]
  <2>1. h \in PgHdr /\ d \in BOOLEAN
    BY <1>2 DEF PgHdr
  <2>2. StmtCache[p] = IF h.in /\ StmtHit(p) THEN k ELSE h
    BY DEF StmtCache
  <2>3. pg'[p].in = StmtCache[p].in /\ pg'[p].data = StmtCache[p].data
        /\ pg'[p].dirty = StmtCache[p].dirty /\ pg'[p].inJournal = StmtCache[p].inJournal
        /\ pg'[p].needSync = StmtCache[p].needSync /\ ~pg'[p].inStmt
        /\ pg'[p].alwaysRollback = StmtCache[p].alwaysRollback
        /\ pg'[p] = [StmtCache[p] EXCEPT !.inStmt = FALSE]
    BY <1>1, CommittedFields
  <2>4. StmtHit(p) => /\ k.in = h.in /\ k.data = StmtWas(p) /\ k.dirty = d /\ k.inJournal = h.inJournal
                      /\ k.needSync = h.needSync /\ k.alwaysRollback = h.alwaysRollback
    <3> SUFFICES ASSUME StmtHit(p)
                 PROVE  /\ k.in = h.in /\ k.data = StmtWas(p) /\ k.dirty = d /\ k.inJournal = h.inJournal
                        /\ k.needSync = h.needSync /\ k.alwaysRollback = h.alwaysRollback
      OBVIOUS
    <3> DEFINE j == [h EXCEPT !.data = StmtWas(p)]
    <3>1. StmtWas(p) \in Cont
      BY <1>1
    <3> HIDE DEF h, d
    <3>2. /\ j \in PgHdr /\ j.in = h.in /\ j.data = StmtWas(p) /\ j.inJournal = h.inJournal
          /\ j.needSync = h.needSync /\ j.alwaysRollback = h.alwaysRollback
      BY <2>1, <3>1 DEF PgHdr
    <3>3. k = [j EXCEPT !.dirty = d]
      OBVIOUS
    <3> HIDE DEF j, k
    <3>4. QED
      BY <2>1, <3>2, <3>3 DEF PgHdr
  <2>5. h = Absent => pg'[p] = Absent
    <3>1. Absent \in PgHdr /\ Absent.inStmt = FALSE
      BY EmptyTypes DEF Absent
    <3>2. \A x \in PgHdr : x.inStmt = FALSE => [x EXCEPT !.inStmt = FALSE] = x
      BY DEF PgHdr
    <3>3. h = Absent => StmtCache[p] = Absent
      BY <2>2, AbsentFields
    <3> HIDE DEF h
    <3>4. QED
      BY <2>3, <3>1, <3>2, <3>3
  <2> HIDE DEF k
  <2>6. CASE h.in /\ StmtHit(p)
    BY <2>2, <2>3, <2>4, <2>5, <2>6
  <2>7. CASE ~(h.in /\ StmtHit(p))
    <3>1. StmtCache[p] = h
      BY <2>2, <2>7
    <3>2. ~(h.in /\ StmtStore(p))
      BY <1>4, <2>7
    <3>3. QED
      BY <2>3, <2>5, <2>7, <3>1, <3>2
  <2>8. QED
    BY <2>6, <2>7
<1>7. \A p \in Page : StmtStore(p) => file'.page[p] = StmtWas(p)
  BY <1>1, <1>3
<1>8. wild'.size \subseteq wild.size \cup {file.size}
  BY <1>3
<1>9. CASE pager.state = "EXCLUSIVE"
  <2>1. StmtCut = Cut(file, s.size)
    BY <1>9 DEF StmtCut
  <2>2. StmtCut.size = s.size /\ \A p \in Page : StmtCut.page[p] = IF p > s.size THEN Zero ELSE file.page[p]
    BY <1>2, <2>1, CutFields
  <2>3. file'.size = s.size
    <3>1. \A p \in Page : StmtStore(p) => p <= s.size
      BY <1>4
    <3>2. StmtFile.size <= s.size /\ StmtFile.size >= s.size /\ StmtFile.size \in Nat
      BY <1>1, <1>2, <2>2, <3>1
    <3>3. QED
      BY <1>2, <1>3, <3>2
  <2>4. ASSUME NEW p \in Page, p > s.size PROVE file'.page[p] = Zero
    <3>1. ~(p <= s.size)
      BY <1>2, <2>4
    <3>2. ~StmtStore(p)
      BY <1>4, <3>1
    <3>3. QED
      BY <1>1, <1>3, <2>2, <2>4, <3>2
  <2>5. ASSUME NEW p \in Page, ~StmtStore(p), p <= s.size
        PROVE  file'.page[p] = file.page[p] /\ wild'.page[p] = wild.page[p]
    <3>1. ~(p > s.size)
      BY <1>2, <2>5
    <3>2. StmtFile.page[p] = file.page[p]
      BY <1>1, <2>2, <2>5, <3>1
    <3>3. QED
      BY <1>3, <3>2
  <2>6. QED
    BY <1>4, <1>5, <1>6, <1>7, <1>8, <1>9, <2>3, <2>4, <2>5 DEF StmtRolled
<1>10. CASE pager.state # "EXCLUSIVE"
  <2>1. StmtCut = file /\ \A p \in Page : ~StmtStore(p)
    BY <1>4, <1>10 DEF StmtCut
  <2>2. file'.size = file.size /\ \A p \in Page : file'.page[p] = file.page[p]
    BY <1>1, <1>3, <2>1
  <2>3. wild'.size = wild.size /\ \A p \in Page : wild'.page[p] = wild.page[p]
    BY <1>3, <2>2
  <2>4. file' = file
    <3>1. /\ file = [size |-> file.size, page |-> file.page] /\ file.page \in [Page -> Cont]
          /\ file' = [size |-> file'.size, page |-> file'.page] /\ file'.page \in [Page -> Cont]
      BY <1>2, <1>3, Contents
    <3>2. file'.page = file.page
      BY <2>2, <3>1
    <3>3. QED
      BY <2>2, <3>1, <3>2
  <2>5. wild' = wild
    <3>1. /\ wild = [size |-> wild.size, page |-> wild.page] /\ wild.page \in [Page -> SUBSET Cont]
          /\ wild' = [size |-> wild'.size, page |-> wild'.page] /\ wild'.page \in [Page -> SUBSET Cont]
      BY <1>2, <1>3 DEF WildType
    <3>2. wild'.page = wild.page
      BY <2>3, <3>1
    <3>3. QED
      BY <2>3, <3>1, <3>2
  <2>6. QED
    BY <1>4, <1>6, <1>7, <1>8, <1>10, <2>1, <2>4, <2>5 DEF StmtRolled
<1>11. QED
  BY <1>9, <1>10

\* A statement is undone: s is what the database was when it began.
Undo(m, s, p) == Hit(m, p) /\ p <= s.size
Rewrite(m, s, p) == m.pager.state = "EXCLUSIVE" /\ Undo(m, s, p) /\ ~(m.pg[p].in /\ m.pg[p].needSync)
Undone(m, s, n) ==
  /\ n.items = m.items /\ n.stmt = NoStmt /\ n.pager = [m.pager EXCEPT !.dbSize = s.size]
  /\ \A p \in Page :
       /\ n.pg[p].in = m.pg[p].in /\ n.pg[p].inJournal = m.pg[p].inJournal
       /\ n.pg[p].needSync = m.pg[p].needSync /\ n.pg[p].alwaysRollback = m.pg[p].alwaysRollback
       /\ ~n.pg[p].inStmt /\ (m.pg[p] = Absent => n.pg[p] = Absent)
       /\ n.pg[p].dirty <=> m.pg[p].dirty /\ ~(m.pg[p].in /\ Rewrite(m, s, p))
       /\ ~Undo(m, s, p) => n.pg[p].data = m.pg[p].data
       /\ Undo(m, s, p) /\ m.pg[p].in /\ p \in Needed(s) => n.pg[p].data = s.page[p]
UndoneFile(m, s) ==
  /\ unsettled' = unsettled
  /\ \A p \in Page :
       /\ Rewrite(m, s, p) /\ p \in Needed(s) => file'.page[p] = s.page[p]
       /\ ~Rewrite(m, s, p) /\ p <= s.size => file'.page[p] = file.page[p] /\ wild'.page[p] = wild.page[p]
  /\ m.pager.state = "EXCLUSIVE" => file'.size = s.size
  /\ m.pager.state # "EXCLUSIVE" => file' = file /\ wild' = wild
  /\ wild'.size \subseteq wild.size \cup {file.size}

LEMMA UndonePager ==
  ASSUME NEW m, MemoryType(m), NEW s \in DatabaseType, NEW n, Undone(m, s, n)
  PROVE  /\ n.pager.dbSize = s.size /\ n.pager.state = m.pager.state /\ n.pager.origDbSize = m.pager.origDbSize
         /\ n.pager.nRec = m.pager.nRec /\ n.pager.journalHdr = m.pager.journalHdr
         /\ n.pager.needSync = m.pager.needSync /\ n.pager.journalStarted = m.pager.journalStarted
         /\ n.pager.alwaysRollback = m.pager.alwaysRollback /\ n.pager.aInJournal = m.pager.aInJournal
         /\ n.pager.dirtyCache = m.pager.dirtyCache
<1>1. m.pager \in PagerType /\ n.pager = [m.pager EXCEPT !.dbSize = s.size]
  BY DEF MemoryType, Undone
<1>2. QED
  BY <1>1 DEF PagerType

\* What is undone has its original in the journal, if there is one; what is not
\* rewritten has it on the disk too.
LEMMA UndoSafe ==
  ASSUME NEW m, NEW s \in DatabaseType, NEW b \in DatabaseType, NEW safe, NEW D,
         StmtOpen(m, s, b), CoreOK(m, b, D, safe), NEW p \in Needed(b), StmtPage(m, s, b, D.file, p)
  PROVE  /\ p \in Page /\ p <= s.size /\ (Undo(m, s, p) => p \in m.pager.aInJournal)
         /\ Rewrite(m, s, p) => Stored(m.items, m.pager.journalHdr, safe, p)
<1>1. p \in Page /\ p <= b.size /\ p \in Nat /\ b.size \in Nat /\ b.size <= s.size /\ s.size \in Nat
  BY NeededPages, Contents, PageOne DEF StmtOpen
<1>2. p <= s.size
  BY <1>1
<1>3. Undo(m, s, p) => p \in m.pager.aInJournal
  BY <1>1 DEF Undo, StmtPage
<1>4. p \in m.pager.aInJournal => m.pg[p].needSync \/ Stored(m.items, m.pager.journalHdr, safe, p)
  BY DEF CoreOK, OriginalPage
<1>5. m.pg[p].needSync => m.pg[p].in
  <2>1. ~m.pg[p].in => m.pg[p] = Absent
    BY <1>1 DEF CoreOK, CachePage
  <2>2. QED
    BY <2>1, AbsentFields
<1>6. QED
  BY <1>1, <1>2, <1>3, <1>4, <1>5 DEF Rewrite

LEMMA UndoneCore ==
  ASSUME NEW m, MemoryType(m), NEW s \in DatabaseType, NEW b \in DatabaseType, NEW safe,
         StmtOpen(m, s, b), CoreOK(m, b, Disk, safe), \A p \in Page : StmtPage(m, s, b, file, p),
         file \in DatabaseType, m.pager.state # "EXCLUSIVE" => file.size <= s.size,
         NEW n, Undone(m, s, n), UndoneFile(m, s)
  PROVE  CoreOK(n, b, Disk', safe)
<1>1. /\ n.pager.dbSize = s.size /\ n.pager.state = m.pager.state /\ n.pager.origDbSize = m.pager.origDbSize
      /\ n.pager.journalHdr = m.pager.journalHdr
      /\ n.pager.needSync = m.pager.needSync /\ n.pager.journalStarted = m.pager.journalStarted
      /\ n.pager.aInJournal = m.pager.aInJournal /\ n.pager.dirtyCache = m.pager.dirtyCache
      /\ n.items = m.items
  BY UndonePager DEF Undone
<1>2. \A p \in Page :
       /\ n.pg[p].in = m.pg[p].in /\ n.pg[p].inJournal = m.pg[p].inJournal
       /\ n.pg[p].needSync = m.pg[p].needSync /\ (m.pg[p] = Absent => n.pg[p] = Absent)
       /\ n.pg[p].dirty => m.pg[p].dirty
       /\ ~Undo(m, s, p) => n.pg[p].data = m.pg[p].data
  BY DEF Undone
<1>3. SizesOK(n, b, Disk'.file)
  <2>1. SizesOK(m, b, Disk.file)
    BY DEF CoreOK
  <2>2. m.pager.origDbSize = b.size /\ m.pg[1].in /\ b.size <= s.size
    BY <2>1 DEF SizesOK, StmtOpen
  <2>3. file'.size <= s.size
    <3>1. s.size \in Nat
      BY Contents, PageOne
    <3>2. QED
      BY <3>1 DEF UndoneFile
  <2>4. QED
    BY <1>1, <1>2, <2>2, <2>3, DiskFields, PageOne DEF SizesOK
<1>4. PagerOK(n)
  <2>1. PagerOK(m)
    BY DEF CoreOK
  <2>2. QED
    BY <1>1, <2>1 DEF PagerOK
<1>5. ItemsOK(n, b)
  <2>1. ItemsOK(m, b)
    BY DEF CoreOK
  <2>2. QED
    BY <1>1, <2>1 DEF ItemsOK
<1>6. ASSUME NEW p \in Page PROVE CachePage(n, b, p)
  <2>1. CachePage(m, b, p)
    BY DEF CoreOK
  <2>2. QED
    BY <1>1, <1>2, <2>1 DEF CachePage
<1>7. ASSUME NEW p \in Needed(b) PROVE OriginalPage(n, b, Disk', safe, p)
  <2>1. OriginalPage(m, b, Disk, safe, p)
    BY DEF CoreOK
  <2>2. p \in Page /\ StmtPage(m, s, b, Disk.file, p)
    BY NeededPages, DiskFields
  <2>3. /\ p <= s.size /\ (Undo(m, s, p) => p \in m.pager.aInJournal)
        /\ Rewrite(m, s, p) => Stored(m.items, m.pager.journalHdr, safe, p)
    BY <2>2, UndoSafe
  <2>4. ~Rewrite(m, s, p) => file'.page[p] = file.page[p] /\ wild'.page[p] = wild.page[p]
    BY <2>2, <2>3 DEF UndoneFile
  <2>5. p \in n.pager.aInJournal => /\ Recorded(n.items, p)
                                    /\ n.pg[p].needSync \/ Stored(n.items, n.pager.journalHdr, safe, p)
    BY <1>1, <1>2, <2>1, <2>2 DEF OriginalPage
  <2>6. ASSUME p \notin n.pager.aInJournal PROVE Cur(n, Disk'.file, p) = b.page[p]
    <3>1. Cur(m, Disk.file, p) = b.page[p]
      BY <1>1, <2>1, <2>6 DEF OriginalPage
    <3>2. ~Undo(m, s, p) /\ ~Rewrite(m, s, p)
      BY <1>1, <2>3, <2>6 DEF Rewrite
    <3>3. n.pg[p].in = m.pg[p].in /\ n.pg[p].data = m.pg[p].data /\ file'.page[p] = file.page[p]
      BY <1>2, <2>2, <2>4, <3>2
    <3>4. QED
      BY <3>1, <3>3, DiskFields DEF Cur
  <2>7. FileIs(Disk', p, b.page[p]) \/ Stored(n.items, n.pager.journalHdr, safe, p)
    <3>1. CASE Stored(m.items, m.pager.journalHdr, safe, p)
      BY <1>1, <3>1
    <3>2. CASE ~Stored(m.items, m.pager.journalHdr, safe, p)
      <4>1. FileIs(Disk, p, b.page[p])
        BY <2>1, <3>2 DEF OriginalPage
      <4>2. file'.page[p] = file.page[p] /\ wild'.page[p] = wild.page[p] /\ unsettled' = unsettled
        BY <2>3, <2>4, <3>2 DEF UndoneFile
      <4>3. QED
        BY <4>1, <4>2, DiskIs
    <3>3. QED
      BY <3>1, <3>2
  <2>8. QED
    BY <2>5, <2>6, <2>7 DEF OriginalPage
<1>8. QED
  BY <1>3, <1>4, <1>5, <1>6, <1>7 DEF CoreOK

LEMMA UndoneShows ==
  ASSUME NEW m, MemoryType(m), NEW s \in DatabaseType, NEW b \in DatabaseType, NEW safe,
         StmtOpen(m, s, b), CoreOK(m, b, Disk, safe), \A p \in Page : StmtPage(m, s, b, file, p),
         file \in DatabaseType,
         m.pager.state # "EXCLUSIVE" => m.pager.state = "RESERVED" /\ file.size = b.size,
         NEW n, Undone(m, s, n), UndoneFile(m, s)
  PROVE  ShowsOK(n, s, file')
<1>1. n.pager.dbSize = s.size
  BY UndonePager
<1>2. s.size \in Nat /\ s.size \in 0..MaxPage /\ b.size \in Nat /\ 1 <= s.size /\ s.size \in Page /\ Page \subseteq Nat
  <2>1. s.size \in 0..MaxPage /\ b.size \in 0..MaxPage /\ 1 <= s.size
    BY Contents DEF StmtOpen
  <2>2. QED
    BY <2>1, PageOne DEF Page
<1>3. s.size > file'.size => n.pg[s.size].dirty
  <2>1. CASE m.pager.state = "EXCLUSIVE"
    BY <1>2, <2>1 DEF UndoneFile
  <2>2. CASE m.pager.state # "EXCLUSIVE"
    <3>1. file' = file /\ file.size = b.size /\ m.pager.state = "RESERVED"
      BY <2>2 DEF UndoneFile
    <3>2. s.size > b.size => m.pg[s.size].dirty
      BY <3>1 DEF StmtOpen
    <3>3. ~Rewrite(m, s, s.size)
      BY <2>2 DEF Rewrite
    <3>4. m.pg[s.size].dirty => n.pg[s.size].dirty
      BY <1>2, <3>3 DEF Undone
    <3>5. QED
      BY <3>1, <3>2, <3>4
  <2>3. QED
    BY <2>1, <2>2
<1>4. ASSUME NEW p \in Needed(s) PROVE ShowsPage(n, s, file', p)
  <2>1. p \in Page /\ p <= s.size
    BY NeededPages
  <2>2. /\ ~Hit(m, p) => /\ Cur(m, file, p) = s.page[p]
                         /\ m.pg[p].in /\ ~m.pg[p].dirty => m.pg[p].data = file.page[p]
        /\ Hit(m, p) => /\ m.pager.state = "EXCLUSIVE" \/ m.pg[p].dirty
                        /\ m.pg[p].needSync => m.pg[p].dirty
    <3>1. StmtPage(m, s, b, file, p)
      BY <2>1
    <3>2. QED
      BY <2>1, <3>1 DEF StmtPage
  <2>3. m.pg[p].dirty => m.pg[p].in
    <3>1. ~m.pg[p].in => m.pg[p] = Absent
      BY <2>1 DEF CoreOK, CachePage
    <3>2. QED
      BY <3>1, AbsentFields
  <2>4. /\ n.pg[p].in = m.pg[p].in
        /\ n.pg[p].dirty <=> m.pg[p].dirty /\ ~(m.pg[p].in /\ Rewrite(m, s, p))
        /\ ~Undo(m, s, p) => n.pg[p].data = m.pg[p].data
        /\ Undo(m, s, p) /\ m.pg[p].in => n.pg[p].data = s.page[p]
    BY <2>1 DEF Undone
  <2>5. /\ Rewrite(m, s, p) => file'.page[p] = s.page[p]
        /\ ~Rewrite(m, s, p) => file'.page[p] = file.page[p]
    BY <2>1 DEF UndoneFile
  <2>6. CASE Hit(m, p)
    <3>1. Undo(m, s, p)
      BY <2>1, <2>6 DEF Undo
    <3>2. ~m.pg[p].dirty => Rewrite(m, s, p)
      BY <2>2, <2>6, <3>1 DEF Rewrite
    <3>3. QED
      BY <2>3, <2>4, <2>5, <3>1, <3>2 DEF ShowsPage, Cur
  <2>7. CASE ~Hit(m, p)
    <3>1. ~Undo(m, s, p) /\ ~Rewrite(m, s, p)
      BY <2>7 DEF Undo, Rewrite
    <3>2. QED
      BY <2>2, <2>4, <2>5, <2>7, <3>1 DEF ShowsPage, Cur
  <2>8. QED
    BY <2>6, <2>7
<1>5. QED
  BY <1>1, <1>2, <1>3, <1>4 DEF ShowsOK, SizeShows

\* pager_stmt_playback: the pages are again what the statement found, and the journal still undoes the transaction.
LEMMA StmtRollbackData == LayInv /\ DataInv /\ StmtRollback => DataInv'
<1> SUFFICES ASSUME LayInv, DataInv, StmtRollback PROVE DataInv'
  OBVIOUS
<1> DEFINE s == saved
           b == base
<1>1. /\ at = "txn" /\ stmt.inUse /\ pager' = [pager EXCEPT !.dbSize = stmt.size]
      /\ stmt' = NoStmt /\ expect' = saved /\ saved' = base /\ Writes(StmtFile)
      /\ UNCHANGED <<level, jrnl, gone, at, job, base, unsettled, left>>
  BY StmtRollbackFields
<1>2. /\ InTxn /\ FlagsOK(Memory, expect, base, saved) /\ job = 0 /\ Valid(base) /\ Valid(saved) /\ FileZero
      /\ base \in DatabaseType /\ saved \in DatabaseType /\ file \in DatabaseType
      /\ gone.jrnl.exists /\ ~unsettled => /\ gone.to \in DatabaseType /\ gone.to.size <= base.size
                                           /\ \A p \in Page : Harmless(file.page[p], p)
  BY <1>1, TxnStart
<1>3. /\ TxnInv /\ CoreOK(Memory, base, Disk, jrnl.safe) /\ Control /\ PagerOK(Memory) /\ GoneInv
  BY <1>2, TxnFacts
<1>4. /\ StmtOK(Memory, saved, base, file) /\ pager.state # "SYNCED"
      /\ SizesFrom(Disk, base.size) /\ (~jrnl.named \/ pager.state = "RESERVED" => Pure(Disk, base))
      /\ pager.journalStarted => jrnl.named /\ jrnl.safe >= 1
  BY <1>1, <1>3 DEF TxnInv, Spilling
<1>5. MemoryType(Memory) /\ wild \in WildType /\ file' \in DatabaseType
  BY <1>1, <1>2, Typed, StmtRollbackFields, WritesFields
<1>6. /\ StmtOpen(Memory, s, b) /\ StmtRecs(Memory, s) /\ \A p \in Page : StmtPage(Memory, s, b, file, p)
  BY <1>1, <1>4, MemoryFields DEF StmtOK
<1>7. pager.state \in {"RESERVED", "EXCLUSIVE"} /\ (pager.state = "EXCLUSIVE" => jrnl.named)
  <2>1. pager.state \in {"SHARED", "RESERVED", "EXCLUSIVE", "SYNCED"}
    BY Typed DEF PagerType
  <2>2. pager.state = "RESERVED" \/ (pager.journalStarted /\ pager.state # "SHARED")
    BY <1>3, MemoryFields DEF PagerOK
  <2>3. QED
    BY <1>4, <2>1, <2>2
<1>8. /\ stmt.size = s.size /\ \A p \in Page : StmtHit(p) <=> Undo(Memory, s, p)
      /\ \A p \in Needed(s) : StmtHit(p) => StmtWas(p) = s.page[p]
  <2>1. stmt.size = s.size
    BY <1>6, MemoryFields DEF StmtOpen
  <2>2. QED
    BY <1>2, <1>6, <2>1, StmtHitIs DEF Undo
<1>9. StmtRolled(s.size)
  <2>1. \A p \in Page : StmtHit(p) => p <= s.size
    BY <1>8 DEF Undo
  <2>2. QED
    BY <1>2, <1>8, <2>1, StmtRolledIs
<1>10. /\ Memory'.pager = [Memory.pager EXCEPT !.dbSize = s.size] /\ Memory'.stmt = NoStmt
       /\ Memory'.items = Memory.items /\ Memory'.pg = pg' /\ Memory.pg = pg /\ Memory.pager = pager
       /\ Memory.items = jrnl.items /\ Memory.stmt = stmt
  BY <1>1, <1>8, MemoryFields
<1> HIDE DEF Memory, Disk
<1>11. \A p \in Page : StmtStore(p) <=> Rewrite(Memory, s, p)
  <2>1. ASSUME NEW p \in Page PROVE StmtStore(p) <=> Rewrite(Memory, s, p)
    <3>1. CASE pager.state = "EXCLUSIVE"
      BY <1>8, <1>9, <1>10, <3>1 DEF StmtRolled, Rewrite
    <3>2. CASE pager.state # "EXCLUSIVE"
      BY <1>9, <1>10, <3>2 DEF StmtRolled, Rewrite
    <3>3. QED
      BY <3>1, <3>2
  <2>2. QED
    BY <2>1
<1>12. Undone(Memory, s, Memory')
  <2>1. ASSUME NEW p \in Page
        PROVE  /\ pg'[p].in = pg[p].in /\ pg'[p].inJournal = pg[p].inJournal
               /\ pg'[p].needSync = pg[p].needSync /\ pg'[p].alwaysRollback = pg[p].alwaysRollback
               /\ ~pg'[p].inStmt /\ (pg[p] = Absent => pg'[p] = Absent)
               /\ pg'[p].dirty <=> pg[p].dirty /\ ~(pg[p].in /\ Rewrite(Memory, s, p))
               /\ ~Undo(Memory, s, p) => pg'[p].data = pg[p].data
               /\ Undo(Memory, s, p) /\ pg[p].in /\ p \in Needed(s) => pg'[p].data = s.page[p]
    BY <1>8, <1>9, <1>11 DEF StmtRolled
  <2>2. QED
    BY <1>10, <2>1 DEF Undone
<1>13. UndoneFile(Memory, s)
  <2>1. ASSUME NEW p \in Page
        PROVE  /\ Rewrite(Memory, s, p) /\ p \in Needed(s) => file'.page[p] = s.page[p]
               /\ ~Rewrite(Memory, s, p) /\ p <= s.size => file'.page[p] = file.page[p] /\ wild'.page[p] = wild.page[p]
    <3>1. Rewrite(Memory, s, p) => Undo(Memory, s, p)
      BY DEF Rewrite
    <3>2. QED
      BY <1>8, <1>9, <1>11, <3>1 DEF StmtRolled
  <2>2. QED
    BY <1>1, <1>9, <1>10, <2>1 DEF UndoneFile, StmtRolled
<1>14. pager.state # "EXCLUSIVE" => /\ pager.state = "RESERVED" /\ file.size = b.size /\ file.size <= s.size
                                    /\ Disk' = Disk /\ Pure(Disk, b)
  <2>1. SUFFICES ASSUME pager.state # "EXCLUSIVE"
                 PROVE  /\ pager.state = "RESERVED" /\ file.size = b.size /\ file.size <= s.size
                        /\ Disk' = Disk /\ Pure(Disk, b)
    OBVIOUS
  <2>2. pager.state = "RESERVED" /\ Pure(Disk, b)
    BY <1>4, <1>7, <2>1
  <2>3. file.size = b.size
    BY <2>2, DiskIs DEF Pure
  <2>4. b.size <= s.size
    BY <1>6 DEF StmtOpen
  <2>5. Disk' = Disk
    BY <1>1, <1>10, <1>13, <2>1, QuietDisk DEF UndoneFile
  <2>6. QED
    BY <2>2, <2>3, <2>4, <2>5
<1>15. CoreOK(Memory', b, Disk', jrnl.safe)
  BY <1>2, <1>3, <1>5, <1>6, <1>10, <1>12, <1>13, <1>14, UndoneCore
<1>16. ShowsOK(Memory', s, file')
  BY <1>2, <1>3, <1>5, <1>6, <1>10, <1>12, <1>13, <1>14, UndoneShows
<1>17. /\ pager'.state = pager.state /\ pager'.journalStarted = pager.journalStarted
       /\ pager'.dirtyCache = pager.dirtyCache /\ pager'.aInJournal = pager.aInJournal
       /\ \A p : Flag(Memory', p) => Memory'.pager.alwaysRollback \/ Memory'.pg[p].alwaysRollback
       /\ \A p \in Page : Flag(Memory, p) => Flag(Memory', p)
  <2>1. /\ Memory'.pager.state = Memory.pager.state /\ Memory'.pager.journalStarted = Memory.pager.journalStarted
        /\ Memory'.pager.dirtyCache = Memory.pager.dirtyCache /\ Memory'.pager.aInJournal = Memory.pager.aInJournal
        /\ Memory'.pager.alwaysRollback = Memory.pager.alwaysRollback
    BY <1>2, <1>5, <1>12, UndonePager
  <2>2. \A p \in Page : Memory'.pg[p].alwaysRollback = Memory.pg[p].alwaysRollback
    BY <1>12 DEF Undone
  <2>3. Memory'.pager = pager' /\ Memory.pager = pager
    BY MemoryFields
  <2>4. QED
    BY <2>1, <2>2, <2>3 DEF Flag
<1>18. StmtOK(Memory', b, b, file') /\ FlagsOK(Memory', s, b, b)
  <2>1. Memory'.stmt = NoStmt /\ ~Memory'.stmt.inUse
    BY <1>10 DEF NoStmt
  <2>2. \A p \in Page : ~Memory'.pg[p].inStmt
    BY <1>12 DEF Undone
  <2>3. \A p \in s.page[1].free \ b.page[1].free : Flag(Memory, p)
    BY <1>1, <1>2, <1>10 DEF FlagsOK
  <2>4. s.page[1].free \subseteq Page
    BY <1>2, PageOne, Contents DEF Cont
  <2>5. QED
    BY <1>17, <2>1, <2>2, <2>3, <2>4 DEF StmtOK, FlagsOK
<1>19. SizesFrom(Disk', b.size)
  <2>1. CASE pager.state = "EXCLUSIVE"
    <3>1. file'.size = s.size /\ wild'.size \subseteq wild.size \cup {file.size}
      BY <1>10, <1>13, <2>1 DEF UndoneFile
    <3>2. b.size <= s.size /\ s.size \in Nat /\ b.size \in Nat
      BY <1>2, <1>6, Contents, PageOne DEF StmtOpen
    <3>3. file.size >= b.size /\ (~unsettled => \A k \in wild.size : k >= b.size)
      BY <1>4, DiskIs
    <3>4. QED
      BY <1>1, <3>1, <3>2, <3>3, DiskIs
  <2>2. CASE pager.state # "EXCLUSIVE"
    BY <1>4, <1>14, <2>2
  <2>3. QED
    BY <2>1, <2>2
<1>20. ~jrnl'.named \/ pager'.state = "RESERVED" => Pure(Disk', b)
  BY <1>1, <1>7, <1>14, <1>17
<1>21. Control'
  <2>1. ~pager.dirtyCache => s = b
    BY <1>6, <1>10 DEF StmtOpen
  <2>2. at' = "txn" /\ job' = 0
    BY <1>1, <1>2
  <2>3. QED
    BY <1>1, <1>17, <2>1, <2>2 DEF Control
<1>22. TxnInv'
  <2>1. CoreOK(Memory', base', Disk', jrnl'.safe) /\ ShowsOK(Memory', expect', file')
        /\ StmtOK(Memory', saved', base', file') /\ FlagsOK(Memory', expect', base', saved')
        /\ SizesFrom(Disk', base'.size) /\ (~jrnl'.named \/ pager'.state = "RESERVED" => Pure(Disk', base'))
    BY <1>1, <1>15, <1>16, <1>18, <1>19, <1>20
  <2>2. (pager'.journalStarted => jrnl'.named /\ jrnl'.safe >= 1) /\ pager'.state # "SYNCED"
    BY <1>1, <1>4, <1>17
  <2>3. QED
    BY <1>21, <2>1, <2>2 DEF TxnInv
<1>23. GoneInv'
  <2>1. CASE pager.state = "EXCLUSIVE"
    <3>1. jrnl.named /\ (jrnl.named => jrnl.exists /\ ~gone.jrnl.exists)
      BY <1>3, <1>7, <2>1 DEF GoneInv
    <3>2. QED
      BY <1>1, <3>1, NoGone
  <2>2. CASE pager.state # "EXCLUSIVE"
    <3>1. Disk' = Disk /\ InTxn'
      BY <1>1, <1>14, <2>2 DEF InTxn
    <3>2. ASSUME gone.jrnl.exists, ~unsettled, NEW p \in Page, pg'[p].in, p \notin pager.aInJournal
          PROVE  Harmless(pg'[p].data, p)
      <4>1. pg[p].in /\ (~Undo(Memory, s, p) => pg'[p].data = pg[p].data)
        BY <1>10, <1>12, <3>2 DEF Undone
      <4>2. CASE ~Undo(Memory, s, p)
        BY <1>2, <1>3, <3>2, <4>1, <4>2 DEF GoneInv
      <4>3. CASE Undo(Memory, s, p)
        <5>1. ~(p <= b.size)
          BY <1>6, <1>10, <3>2, <4>3 DEF Undo, StmtPage
        <5>2. p \notin Needed(gone.to)
          <6>1. gone.to \in DatabaseType /\ gone.to.size <= b.size
            BY <1>2, <3>2
          <6>2. gone.to.size \in Nat /\ b.size \in Nat /\ p \in Nat
            BY <1>2, <6>1, Contents, PageOne
          <6>3. ~(p <= gone.to.size)
            BY <5>1, <6>1, <6>2
          <6>4. QED
            BY <6>1, <6>3, NeededPages
        <5>3. QED
          BY <5>2 DEF Harmless
      <4>4. QED
        BY <4>2, <4>3
    <3>3. QED
      BY <1>1, <1>2, <1>3, <1>17, <3>1, <3>2 DEF GoneInv, Harmless
  <2>3. QED
    BY <2>1, <2>2
<1>24. FileZero'
  <2>1. CASE pager.state = "EXCLUSIVE"
    BY <1>9, <2>1 DEF StmtRolled, FileZero
  <2>2. CASE pager.state # "EXCLUSIVE"
    BY <1>2, <1>9, <2>2 DEF StmtRolled, FileZero
  <2>3. QED
    BY <2>1, <2>2
<1>25. InTxn' /\ Valid(expect') /\ Valid(base') /\ Valid(saved')
  BY <1>1, <1>2 DEF InTxn
<1>26. QED
  BY <1>22, <1>23, <1>24, <1>25 DEF DataInv

----------------------------------------------------------------------------
\* Every step, and what the runs check of the data.

\* A new database, or one that is there, satisfies the invariant.
LEMMA DataInit == JournalInit => DataInv
<1> SUFFICES ASSUME JournalInit PROVE DataInv
  OBVIOUS
<1>1. PICK size \in Sizes, free \in SUBSET Page :
        /\ free \subseteq 2..size
        /\ file = [size |-> size, page |-> [p \in Page |-> IF p = 1 /\ size > 0
                                                           THEN [n |-> 0, free |-> free] ELSE Zero]]
  <2>1. PICK size \in Sizes : \E free \in SUBSET {p \in Page : 1 < p /\ p <= size} :
          file = [size |-> size, page |-> [p \in Page |-> IF p = 1 /\ size > 0
                                                         THEN [n |-> 0, free |-> free] ELSE Zero]]
    BY DEF JournalInit
  <2>2. PICK free \in SUBSET {p \in Page : 1 < p /\ p <= size} :
          file = [size |-> size, page |-> [p \in Page |-> IF p = 1 /\ size > 0
                                                         THEN [n |-> 0, free |-> free] ELSE Zero]]
    BY <2>1
  <2>3. size \in Nat
    BY <2>1, JournalBounds
  <2>4. free \subseteq 2..size
    BY <2>3, PageOne
  <2>5. QED
    BY <2>2, <2>4
<1>2. LayInv /\ file \in DatabaseType
  BY LayInit, Typed
<1>3. /\ level \in Levels /\ at = "idle" /\ job = 0 /\ unsettled = FALSE
      /\ wild = Calm /\ jrnl = NoJournal /\ gone = NotGone /\ pager = Closed(file.size)
      /\ stmt = NoStmt /\ pg = NoCache /\ expect = file /\ base = file /\ saved = file
  BY DEF JournalInit
<1>4. /\ file.size = size /\ size \in 0..MaxPage /\ size \in Nat
      /\ \A p \in Page : file.page[p] = IF p = 1 /\ size > 0 THEN [n |-> 0, free |-> free] ELSE Zero
      /\ 1 \in Page /\ Page \subseteq Nat
  BY <1>1, JournalBounds, PageOne
<1>5. file.page[1].free = IF size > 0 THEN free ELSE {}
  <2>1. file.page[1] = IF size > 0 THEN [n |-> 0, free |-> free] ELSE Zero
    BY <1>4
  <2>2. QED
    BY <2>1, Contents, SMTT(20)
<1>6. Valid(file)
  <2>1. file.page[1].free \subseteq 2..file.size
    BY <1>1, <1>4, <1>5
  <2>2. ASSUME NEW p \in Page, p \notin Needed(file) PROVE file.page[p] = Zero
    <3>1. SUFFICES ASSUME p = 1, size > 0 PROVE FALSE
      BY <1>4
    <3>2. p \in 1..file.size /\ p \notin 2..file.size
      BY <1>4, <3>1
    <3>3. QED
      BY <2>1, <2>2, <3>2 DEF Needed
  <2>3. QED
    BY <1>2, <2>1, <2>2 DEF Valid
<1>7. FileZero
  BY <1>4 DEF FileZero
<1>8. Pure(Disk, expect)
  <2>1. \A p \in Page : FileIs(Disk, p, file.page[p])
    BY <1>3, CalmFields, DiskIs
  <2>2. SizesAre(Disk, file.size)
    BY <1>3, CalmFields, DiskIs
  <2>3. QED
    BY <1>2, <1>3, <2>1, <2>2, NeededPages DEF Pure
<1>9. ~InTxn /\ at = "idle"
  BY <1>3 DEF InTxn
<1>10. IdleInv
  <2>1. \A p \in Page : IdlePage(p)
    BY <1>3, NoCacheClean DEF CleanCache, IdlePage
  <2>2. ~jrnl.exists /\ ~jrnl.named
    BY <1>3, NoJournalSound
  <2>3. QED
    BY <1>3, <1>8, <1>9, <2>1, <2>2 DEF IdleInv
<1>11. GoneInv
  <2>1. gone.jrnl = NoJournal
    BY <1>3, EmptyTypes
  <2>2. ~gone.jrnl.exists /\ ~jrnl.named
    BY <1>3, <2>1, NoJournalSound
  <2>3. QED
    BY <2>2 DEF GoneInv
<1>12. QED
  BY <1>3, <1>6, <1>7, <1>9, <1>10, <1>11 DEF DataInv

\* Every step keeps what the pages, the journals and the disk hold.
LEMMA DataStep == Settled /\ LayInv /\ DataInv /\ [JournalNext]_vars => DataInv'
<1> SUFFICES ASSUME Settled, LayInv, DataInv, [JournalNext]_vars PROVE DataInv'
  OBVIOUS
<1>1. ASSUME NEW p \in Page,
             Modify(p) \/ FreePage(p) \/ ReusePage(p) \/ Read(p) \/ Recycle(p) \/ RecycleUnsynced(p)
      PROVE  DataInv'
  BY <1>1, ModifyData, FreePageData, ReusePageData, ReadData, RecycleData, RecycleUnsyncedData
<1>2. CASE Begin \/ StmtBegin \/ StmtCommit \/ StmtRollback \/ Extend
  BY <1>2, BeginData, StmtBeginData, StmtCommitData, StmtRollbackData, ExtendData
<1>3. CASE Commit \/ CommitRecords \/ SyncJournal \/ Spill \/ StorePages \/ SyncFile
  BY <1>3, CommitData, CommitRecordsData, SyncJournalData, SpillData, StorePagesData, SyncFileData
<1>4. CASE DeleteJournal \/ GiveUp \/ Rollback \/ RollbackFile \/ PlayedBack \/ Forget
  BY <1>4, DeleteJournalData, GiveUpData, RollbackData, RollbackFileData, PlayedBackData, ForgetData
<1>5. CASE Die \/ PowerFail \/ HotJournal \/ Retry \/ Settle
  BY <1>5, DieData, PowerFailData, HotJournalData, RetryData, SettleData
<1>6. CASE UNCHANGED vars
  BY <1>6, StutterData
<1>7. QED
  BY <1>1, <1>2, <1>3, <1>4, <1>5, <1>6 DEF JournalNext

\* Layout and data hold in every state, when the power fails only at settled times.
LEMMA DataAlways == Settled => (JournalSpec => [](LayInv /\ DataInv))
<1> SUFFICES ASSUME Settled PROVE JournalSpec => [](LayInv /\ DataInv)
  OBVIOUS
<1>1. JournalInit => LayInv /\ DataInv
  BY LayInit, DataInit
<1>2. LayInv /\ DataInv /\ [JournalNext]_vars => (LayInv /\ DataInv)'
  BY LayStep, DataStep
<1>3. QED
  BY <1>1, <1>2, PTL DEF JournalSpec

\* The pager shows database e when its cache and the file together hold it.
LEMMA Views ==
  ASSUME LayInv, FileZero, Valid(expect), pager.dbSize = expect.size,
         \A p \in Needed(expect) : Cur(Memory, file, p) = expect.page[p]
  PROVE  View = expect
<1>1. /\ expect \in DatabaseType /\ file \in DatabaseType /\ MemoryType(Memory) /\ Memory.pg = pg
      /\ Memory.pager = pager /\ Page \subseteq Nat /\ expect.size \in Nat /\ file.size \in Nat /\ 1 \in Page
  BY Typed, MemoryFields, Contents, PageOne
<1>2. ASSUME NEW p \in Needed(expect) PROVE Loaded(p).data = expect.page[p]
  <2>1. p \in Page /\ p <= pager.dbSize /\ p \in Nat
    BY <1>1, NeededPages
  <2>2. Loaded(p).data = IF pg[p].in THEN pg[p].data
                         ELSE IF p <= pager.dbSize /\ p <= file.size THEN file.page[p] ELSE Zero
    BY <1>1, <2>1, GetFields DEF Loaded
  <2>3. ~(p <= file.size) => file.page[p] = Zero
    BY <1>1, <2>1 DEF FileZero
  <2>4. expect.page[p] = IF pg[p].in THEN pg[p].data ELSE file.page[p]
    BY <1>1 DEF Cur
  <2>5. QED
    BY <2>1, <2>2, <2>3, <2>4
<1>3. \A p \in Page : p \notin Needed(expect) => expect.page[p] = Zero
  BY DEF Valid
<1>4. expect.page[1].free \subseteq 2..expect.size
  BY DEF Valid
<1>5. ASSUME NEW p \in Page
      PROVE  expect.page[p] = IF p > pager.dbSize \/ p \in Free THEN Zero ELSE Loaded(p).data
  <2>1. CASE p > pager.dbSize
    <3>1. p \notin Needed(expect)
      BY <1>1, <2>1, NeededPages
    <3>2. QED
      BY <1>3, <2>1, <3>1
  <2>2. CASE ~(p > pager.dbSize)
    <3>1. p <= expect.size /\ 1 <= expect.size /\ 1 \notin 2..expect.size /\ p \in 1..expect.size /\ 1 \in 1..expect.size
      <4>1. p \in Nat /\ p >= 1
        BY PageOne DEF Page
      <4>2. QED
        BY <1>1, <2>2, <4>1
    <3>2. 1 \in Needed(expect)
      BY <1>4, <3>1 DEF Needed
    <3>3. Free = expect.page[1].free
      BY <1>2, <3>2 DEF Free
    <3>4. p \in Needed(expect) <=> p \notin Free
      BY <3>1, <3>3 DEF Needed
    <3>5. QED
      BY <1>2, <1>3, <2>2, <3>4
  <2>3. QED
    BY <2>1, <2>2
<1>6. expect = [size |-> expect.size, page |-> expect.page] /\ expect.page \in [Page -> Cont]
  BY <1>1, Contents
<1>7. View.page = expect.page
  BY <1>5, <1>6 DEF View
<1>8. QED
  BY <1>6, <1>7 DEF View

\* What the data invariant says of the content that is shown.
LEMMA DataShows == LayInv /\ DataInv => DatabaseRestored /\ StatementRestored
<1> SUFFICES ASSUME LayInv, DataInv PROVE DatabaseRestored /\ StatementRestored
  OBVIOUS
<1>1. Valid(expect) /\ FileZero /\ Memory.pg = pg /\ Memory.pager = pager
  BY MemoryFields DEF DataInv
<1>2. ASSUME at = "txn" PROVE View = expect
  <2>1. ShowsOK(Memory, expect, file)
    BY <1>2, TxnFacts DEF InTxn
  <2>2. pager.dbSize = expect.size /\ \A p \in Needed(expect) : Cur(Memory, file, p) = expect.page[p]
    BY <1>1, <2>1 DEF ShowsOK, SizeShows, ShowsPage
  <2>3. QED
    BY <1>1, <2>2, Views
<1>3. ASSUME at = "idle" PROVE View = expect
  <2>1. ~InTxn
    BY <1>3 DEF InTxn
  <2>2. IdleInv
    BY <2>1 DEF DataInv
  <2>3. pager = Closed(file.size) /\ ~jrnl.named /\ \A p \in Page : IdlePage(p)
    BY <1>3, <2>2, NoJournalSound DEF IdleInv
  <2>4. Pure(Disk, expect)
    BY <2>2, <2>3 DEF IdleInv
  <2>5. file.size = expect.size /\ \A p \in Needed(expect) : file.page[p] = expect.page[p]
    BY <2>4, DiskIs DEF Pure
  <2>6. pager.dbSize = expect.size
    BY <2>3, <2>5 DEF Closed
  <2>7. \A p \in Needed(expect) : Cur(Memory, file, p) = expect.page[p]
    <3>1. expect \in DatabaseType
      BY Typed
    <3>2. \A p \in Needed(expect) : p \in Page
      BY <3>1, NeededPages
    <3>3. QED
      BY <1>1, <2>3, <2>5, <3>2 DEF IdlePage, Cur
  <2>8. QED
    BY <1>1, <2>6, <2>7, Views
<1>4. QED
  BY <1>2, <1>3 DEF DatabaseRestored, StatementRestored

\* What the data invariant says of the order in which journal and file reach the disk.
LEMMA DataFirst == LayInv /\ DataInv => JournalFirst
<1> SUFFICES ASSUME LayInv, DataInv, InTxn, ~unsettled,
                    NEW p \in (1..pager.origDbSize) \ base.page[1].free
             PROVE  \/ \A c \in wild.page[p] \cup {file.page[p]} : c = base.page[p]
                    \/ \E i \in Played(OnDiskItems) : jrnl.items[i] = Record(p, base.page[p])
  BY DEF JournalFirst
<1>1. CoreOK(Memory, base, Disk, jrnl.safe) /\ SizesOK(Memory, base, file)
  BY TxnFacts
<1>2. Memory.items = jrnl.items /\ Memory.pager = pager /\ pager.origDbSize = base.size
  BY <1>1, MemoryFields DEF SizesOK
<1>3. p \in Needed(base)
  BY <1>2 DEF Needed
<1>4. FileIs(Disk, p, base.page[p]) \/ Stored(jrnl.items, pager.journalHdr, jrnl.safe, p)
  BY <1>1, <1>2, <1>3 DEF CoreOK, OriginalPage
<1>5. CASE FileIs(Disk, p, base.page[p])
  BY <1>5, DiskIs
<1>6. CASE Stored(jrnl.items, pager.journalHdr, jrnl.safe, p)
  <2>1. PICK i \in 1..Len(jrnl.items) : Safely(jrnl.items, pager.journalHdr, jrnl.safe, i) /\ jrnl.items[i].page = p
    BY <1>6 DEF Stored
  <2> DEFINE L == LeftoverAt(jrnl, jrnl.safe, {}, FALSE, level)
  <2>2. /\ GoodJournal(jrnl) /\ Shape(jrnl.items, jrnl.safe, pager.journalHdr, pager.origDbSize, level)
        /\ jrnl.safe \in Nat /\ jrnl.safe <= Len(jrnl.items) /\ jrnl.items \in Seq(Item) /\ Len(jrnl.items) \in Nat
    BY OpenJournal, JournalSound, Typed DEF GoodJournal
  <2>3. L \in Fates(jrnl, level)
    <3>1. jrnl.safe \in jrnl.safe..Len(jrnl.items)
      BY <2>2
    <3>2. {} \in SUBSET ((jrnl.safe + 1)..jrnl.safe) /\ FALSE \in BOOLEAN
      OBVIOUS
    <3> DEFINE Of(n) == {LeftoverAt(jrnl, n, lost, counted, level) :
                           lost \in SUBSET ((jrnl.safe + 1)..n), counted \in BOOLEAN}
    <3>3. L \in LeftoversAt(jrnl, level)
      <4>1. L \in Of(jrnl.safe)
        <5>1. \E lost \in SUBSET ((jrnl.safe + 1)..jrnl.safe), counted \in BOOLEAN :
                L = LeftoverAt(jrnl, jrnl.safe, lost, counted, level)
          BY <3>2, Zenon
        <5> HIDE DEF L
        <5>2. QED
          BY <5>1, SMT
      <4>2. LeftoversAt(jrnl, level) = UNION {Of(n) : n \in jrnl.safe..Len(jrnl.items)}
        BY DEF LeftoversAt
      <4> HIDE DEF Of, L
      <4>3. QED
        BY <3>1, <4>1, <4>2
    <3>4. QED
      BY <3>3 DEF Fates
  <2>4. L.items = OnDiskItems
    <3>1. \A k \in Item : OnDisk(Uncounted(k)) = Uncounted(k)
      <4>1. ASSUME NEW k \in HeaderType PROVE OnDisk(Uncounted(k)) = Uncounted(k)
        <5>1. k.type = "header" /\ Uncounted(k) = [k EXCEPT !.nRec = k.was]
          BY <4>1 DEF Uncounted, HeaderType
        <5>2. [k EXCEPT !.nRec = k.was] \in HeaderType
          BY <4>1 DEF HeaderType
        <5>3. [k EXCEPT !.nRec = k.was].nRec = k.was /\ [k EXCEPT !.nRec = k.was].was = k.was
          BY <4>1 DEF HeaderType
        <5>4. \A x \in HeaderType : x.was = x.nRec => [x EXCEPT !.was = x.nRec] = x
          BY DEF HeaderType
        <5>5. \A x \in HeaderType : OnDisk(x) = [x EXCEPT !.was = x.nRec]
          BY DEF OnDisk, HeaderType
        <5>6. QED
          BY <5>1, <5>2, <5>3, <5>4, <5>5
      <4>2. ASSUME NEW k \in Item, k \notin HeaderType PROVE OnDisk(Uncounted(k)) = Uncounted(k)
        <5>1. k.type # "header"
          BY <4>2, ItemTypes
        <5>2. QED
          BY <5>1 DEF OnDisk, Uncounted
      <4>3. QED
        BY <4>1, <4>2
    <3>2. \A k \in 1..jrnl.safe : jrnl.items[k] \in Item
      BY <2>2, ItemAt
    <3>3. L.items = [k \in 1..jrnl.safe |-> OnDisk(Uncounted(jrnl.items[k]))]
      BY DEF LeftoverAt
    <3>4. QED
      BY <3>1, <3>2, <3>3 DEF OnDiskItems
  <2> HIDE DEF L
  <2>5. i \in Played(L.items)
    BY <2>1, <2>2, <2>3, PlayedSafe
  <2>6. jrnl.items[i] = Record(p, base.page[p])
    <3>1. jrnl.items[i].type = "record" /\ jrnl.items[i] \in Item
      BY <2>1, <2>2, ItemAt DEF Safely
    <3>2. jrnl.items[i] = Record(jrnl.items[i].page, jrnl.items[i].data)
      BY <3>1, ItemTypes
    <3>3. jrnl.items[i].data = base.page[p]
      BY <1>1, <1>2, <1>3, <2>1, <3>1 DEF CoreOK, ItemsOK
    <3>4. QED
      BY <2>1, <3>2, <3>3
  <2>7. QED
    BY <2>4, <2>5, <2>6
<1>7. QED
  BY <1>4, <1>5, <1>6

\* Atomic commit and rollback (pager.c:13): after any sequence of transactions, spills,
\* statement rollbacks, deaths of the process and power failures the database is what
\* the last commit, rollback or recovery must have left, provided the power does not
\* fail while the pages of a rollback are still unsynced.
THEOREM DatabaseRestoredHolds == Settled => (JournalSpec => []DatabaseRestored)
<1> SUFFICES ASSUME Settled PROVE JournalSpec => []DatabaseRestored
  OBVIOUS
<1>1. QED
  BY DataAlways, DataShows, PTL

\* Within a transaction the pager shows what the calls wrote, also after a statement
\* rollback and after pages went out to the file and came back.
THEOREM StatementRestoredHolds == Settled => (JournalSpec => []StatementRestored)
<1> SUFFICES ASSUME Settled PROVE JournalSpec => []StatementRestored
  OBVIOUS
<1>1. QED
  BY DataAlways, DataShows, PTL

\* Journal before database: a page the disk may hold a changed content of has its
\* original in a synced and counted part of the journal.
THEOREM JournalFirstHolds == Settled => (JournalSpec => []JournalFirst)
<1> SUFFICES ASSUME Settled PROVE JournalSpec => []JournalFirst
  OBVIOUS
<1>1. QED
  BY DataAlways, DataFirst, PTL
==============================================================================
