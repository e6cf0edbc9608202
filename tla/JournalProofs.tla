---------------------------- MODULE JournalProofs ----------------------------
(***************************************************************************)
(* Proofs about the journal of Journal.tla, for any number of pages, calls *)
(* and failures, and both safety levels.                                   *)
(*                                                                         *)
(* The first half is about the journal alone. LayInv = TypeInv /\          *)
(* LayoutInv is inductive: Shape says how headers and records follow each  *)
(* other while a transaction is open, and that every segment but the last  *)
(* is full and on the disk; Sound what is left of that in a journal that a *)
(* failure or a death left. From it: JournalTypes and AlwaysPlayableHolds. *)
(*                                                                         *)
(* The second half prepares JournalDataProofs. It defines DataInv, which   *)
(* says what the pages hold, and proves what DataInv needs of each         *)
(* operator: which records of a damaged journal are played back (Crash,    *)
(* Fates), what a failure makes of the file, and what a write, dont_write  *)
(* and dont_rollback do to a memory (CoreOK, StmtOK, ShowsOK).             *)
(***************************************************************************)
EXTENDS Journal, SequenceTheorems, WellFoundedInduction, TLAPS

----------------------------------------------------------------------------
\* Numbers and sequences.

\* A non-empty set of numbers has a least one.
LEMMA LeastIn ==
  ASSUME NEW S \in SUBSET Nat, S # {}
  PROVE  \E m \in S : \A k \in S : m <= k
<1>1. IsWellFoundedOn(OpToRel(<, Nat), Nat)
  BY NatLessThanWellFounded
<1>2. PICK m \in S : \A k \in S : ~(<<k, m>> \in OpToRel(<, Nat))
  BY <1>1, WFMin
<1>3. \A k \in S : ~(k < m)
  BY <1>2 DEF OpToRel
<1>4. QED
  BY <1>3

LEMMA MaxIn ==
  ASSUME NEW N \in Nat, NEW S \in SUBSET (0..N), S # {}
  PROVE  Max(S) \in S /\ \A y \in S : y <= Max(S)
<1> DEFINE T == {N - x : x \in S}
<1>1. T \in SUBSET Nat /\ T # {}
  <2>1. \A x \in S : N - x \in Nat
    OBVIOUS
  <2>2. PICK x : x \in S
    OBVIOUS
  <2>3. N - x \in T
    BY <2>2
  <2>4. QED
    BY <2>1, <2>3
<1>2. PICK m \in T : \A k \in T : m <= k
  BY <1>1, LeastIn
<1>3. PICK x \in S : m = N - x
  BY <1>2
<1>4. \A y \in S : x >= y
  <2> SUFFICES ASSUME NEW y \in S PROVE x >= y
    OBVIOUS
  <2>1. N - y \in T
    OBVIOUS
  <2>2. m <= N - y
    BY <1>2, <2>1
  <2>3. x \in 0..N /\ y \in 0..N
    OBVIOUS
  <2>4. QED
    BY <1>3, <2>2, <2>3
<1>5. Max(S) \in S /\ \A y \in S : Max(S) >= y
  BY <1>4 DEF Max
<1>6. QED
  BY <1>5

LEMMA MinIs ==
  ASSUME NEW S \in SUBSET Int, NEW m \in S, \A y \in S : m <= y
  PROVE  Min(S) = m
<1>1. Min(S) \in S /\ \A y \in S : Min(S) =< y
  BY DEF Min
<1>2. m <= Min(S) /\ Min(S) <= m /\ Min(S) \in Int
  BY <1>1
<1>3. QED
  BY <1>2

LEMMA FcnSeq ==
  ASSUME NEW S, NEW n \in Nat, NEW f \in [1..n -> S]
  PROVE  f \in Seq(S) /\ Len(f) = n
  OBVIOUS

LEMMA AppendSeq ==
  ASSUME NEW S, NEW s \in Seq(S), NEW e \in S
  PROVE  /\ Append(s, e) \in Seq(S) /\ Len(Append(s, e)) = Len(s) + 1
         /\ \A i \in 1..Len(s) : Append(s, e)[i] = s[i]
         /\ Append(s, e)[Len(s) + 1] = e
  OBVIOUS

LEMMA OneSeq ==
  ASSUME NEW S, NEW e \in S
  PROVE  <<e>> \in Seq(S) /\ Len(<<e>>) = 1 /\ <<e>>[1] = e
  OBVIOUS

----------------------------------------------------------------------------
\* Types.

Cont == [n : Number, free : SUBSET Page]
WildType == [size : SUBSET (0..MaxPage), page : [Page -> SUBSET Cont]]
HeaderType == [type : {"header"}, nRec : Nat, was : Nat, size : 0..MaxPage]
RecordType == [type : {"record"}, page : Page, data : Cont]
Item == HeaderType \cup RecordType \cup {Scrap}
JournalType == [exists : BOOLEAN, items : Seq(Item), safe : Nat, named : BOOLEAN]
PgHdr == [in : BOOLEAN, data : Cont, dirty : BOOLEAN, inJournal : BOOLEAN, needSync : BOOLEAN,
          inStmt : BOOLEAN, alwaysRollback : BOOLEAN]
PagerType == [state : {"SHARED", "RESERVED", "EXCLUSIVE", "SYNCED"}, dbSize : 0..MaxPage,
              origDbSize : 0..MaxPage, nRec : Int, journalHdr : Nat, needSync : BOOLEAN,
              journalStarted : BOOLEAN, alwaysRollback : BOOLEAN, aInJournal : SUBSET Page,
              dirtyCache : BOOLEAN]
StmtType == [inUse : BOOLEAN, size : 0..MaxPage, from : Nat, hdr : Nat, recs : Seq(Item),
             aInStmt : SUBSET Page]
MemoryType(m) == /\ m.pager \in PagerType /\ m.stmt \in StmtType
                 /\ m.pg \in [Page -> PgHdr] /\ m.items \in Seq(Item)

LEMMA PageOne == MaxPage \in Nat /\ 1 \in Page /\ Page \subseteq Nat
  BY JournalBounds DEF Page

LEMMA Contents ==
  /\ Zero \in Cont /\ Torn \in Cont /\ Zero.free = {} /\ Zero.n = 0
  /\ DatabaseType = [size : 0..MaxPage, page : [Page -> Cont]]
  BY DEF Zero, Torn, Cont, Number, DatabaseType

LEMMA Items ==
  /\ \A size \in 0..MaxPage : /\ Header(size) \in HeaderType /\ Header(size) \in Item
                              /\ Header(size).type = "header" /\ Header(size).size = size
                              /\ Header(size).nRec = 0 /\ Header(size).was = 0
  /\ \A p \in Page, c \in Cont : /\ Record(p, c) \in RecordType /\ Record(p, c) \in Item
                                 /\ Record(p, c).type = "record" /\ Record(p, c).page = p
                                 /\ Record(p, c).data = c
  /\ Scrap \in Item /\ Scrap.type = "scrap"
  BY DEF Header, Record, Scrap, HeaderType, RecordType, Item

LEMMA ItemTypes ==
  ASSUME NEW i \in Item
  PROVE  /\ i.type \in {"header", "record", "scrap"}
         /\ i.type = "header" <=> i \in HeaderType
         /\ i.type = "record" <=> i \in RecordType
         /\ i \in HeaderType => i.nRec \in Nat /\ i.was \in Nat /\ i.size \in 0..MaxPage
         /\ i \in RecordType => i.page \in Page /\ i.data \in Cont /\ i = Record(i.page, i.data)
  BY DEF Item, HeaderType, RecordType, Scrap, Record

LEMMA ItemAt ==
  ASSUME NEW s \in Seq(Item), NEW i \in 1..Len(s)
  PROVE  s[i] \in Item /\ Len(s) \in Nat
  BY ElementOfSeq, LenProperties

----------------------------------------------------------------------------
\* The calls that change pages: their fields.

LEMMA GetFields ==
  ASSUME file \in DatabaseType, NEW m, MemoryType(m), NEW p \in Page, NEW h, h = Get(m, p)
  PROVE  /\ h \in PgHdr /\ h.in
         /\ h.data = IF m.pg[p].in THEN m.pg[p].data
                     ELSE IF p <= m.pager.dbSize /\ p <= file.size THEN file.page[p] ELSE Zero
         /\ h.dirty = (m.pg[p].in /\ m.pg[p].dirty)
         /\ h.inJournal = IF m.pg[p].in THEN m.pg[p].inJournal
                          ELSE p \in m.pager.aInJournal /\ p <= m.pager.origDbSize
         /\ h.needSync = (m.pg[p].in /\ m.pg[p].needSync)
         /\ h.inStmt = IF m.pg[p].in THEN m.pg[p].inStmt ELSE p \in m.stmt.aInStmt /\ p <= m.stmt.size
         /\ h.alwaysRollback = (m.pg[p].in /\ m.pg[p].alwaysRollback)
<1>t. m.pg[p] \in PgHdr
  BY DEF MemoryType
<1>1. CASE m.pg[p].in
  BY <1>t, <1>1 DEF Get, PgHdr
<1>2. CASE ~m.pg[p].in
  <2> DEFINE d == IF p <= m.pager.dbSize /\ p <= file.size THEN file.page[p] ELSE Zero
             j == p \in m.pager.aInJournal /\ p <= m.pager.origDbSize
             s == p \in m.stmt.aInStmt /\ p <= m.stmt.size
  <2>1. d \in Cont /\ j \in BOOLEAN /\ s \in BOOLEAN
    BY Contents
  <2>2. h = [Absent EXCEPT !.in = TRUE, !.data = d, !.inJournal = j, !.inStmt = s]
    BY <1>2 DEF Get
  <2> HIDE DEF d, j, s
  <2>3. h \in PgHdr /\ h.in /\ h.data = d /\ ~h.dirty /\ h.inJournal = j /\ ~h.needSync
        /\ h.inStmt = s /\ ~h.alwaysRollback
    BY <2>1, <2>2, Contents DEF Absent, PgHdr
  <2>4. h.inJournal = j /\ h.inStmt = s /\ h.data = d
    BY <2>3
  <2>5. /\ h.data = IF m.pg[p].in THEN m.pg[p].data
                    ELSE IF p <= m.pager.dbSize /\ p <= file.size THEN file.page[p] ELSE Zero
        /\ h.inJournal = IF m.pg[p].in THEN m.pg[p].inJournal
                         ELSE p \in m.pager.aInJournal /\ p <= m.pager.origDbSize
        /\ h.inStmt = IF m.pg[p].in THEN m.pg[p].inStmt
                      ELSE p \in m.stmt.aInStmt /\ p <= m.stmt.size
    BY <1>2, <2>4, Zenon DEF d, j, s
  <2>6. /\ h.dirty = (m.pg[p].in /\ m.pg[p].dirty)
        /\ h.needSync = (m.pg[p].in /\ m.pg[p].needSync)
        /\ h.alwaysRollback = (m.pg[p].in /\ m.pg[p].alwaysRollback)
    BY <1>2, <2>3 DEF PgHdr
  <2>7. QED
    BY <2>3, <2>5, <2>6
<1>3. QED
  BY <1>1, <1>2

\* What sqlite3pager_write records, and where.
ToJournal(m, p) == ~Get(m, p).inJournal /\ p <= m.pager.origDbSize
ToStmt(m, p) == /\ m.stmt.inUse /\ ~Get(m, p).inStmt /\ ~ToJournal(m, p) /\ p <= m.stmt.size
Fresh(m, p) == ~Get(m, p).inJournal

Wrote(m, p, c, n, h) ==
  /\ MemoryType(n)
  /\ n.items = IF ToJournal(m, p) THEN Append(m.items, Record(p, h.data)) ELSE m.items
  /\ n.pager.state = m.pager.state /\ n.pager.origDbSize = m.pager.origDbSize
  /\ n.pager.journalHdr = m.pager.journalHdr
  /\ n.pager.journalStarted = m.pager.journalStarted
  /\ n.pager.alwaysRollback = m.pager.alwaysRollback
  /\ n.pager.dbSize = IF p > m.pager.dbSize THEN p ELSE m.pager.dbSize
  /\ n.pager.nRec = IF ToJournal(m, p) THEN m.pager.nRec + 1 ELSE m.pager.nRec
  /\ n.pager.aInJournal = IF ToJournal(m, p) THEN m.pager.aInJournal \cup {p}
                          ELSE m.pager.aInJournal
  /\ n.pager.needSync = (m.pager.needSync \/ (Fresh(m, p) /\ n.pg[p].needSync))
  /\ n.pager.dirtyCache
  /\ n.stmt.inUse = m.stmt.inUse /\ n.stmt.size = m.stmt.size /\ n.stmt.from = m.stmt.from
  /\ n.stmt.recs = IF ToStmt(m, p) THEN Append(m.stmt.recs, Record(p, h.data))
                   ELSE m.stmt.recs
  /\ n.stmt.aInStmt = IF ToStmt(m, p) \/ (ToJournal(m, p) /\ m.stmt.inUse)
                      THEN m.stmt.aInStmt \cup {p} ELSE m.stmt.aInStmt
  /\ ~m.stmt.inUse => n.stmt = m.stmt
  /\ \A q \in Page : q # p => n.pg[q] = m.pg[q]
  /\ n.pg[p].in /\ n.pg[p].data = c /\ n.pg[p].dirty /\ n.pg[p].inJournal
  /\ n.pg[p].needSync = IF Fresh(m, p) THEN ToJournal(m, p) \/ ~m.pager.journalStarted
                        ELSE h.needSync
  /\ n.pg[p].inStmt = (h.inStmt \/ (ToJournal(m, p) /\ m.stmt.inUse) \/ ToStmt(m, p))
  /\ n.pg[p].alwaysRollback = h.alwaysRollback

LEMMA WriteFields ==
  ASSUME file \in DatabaseType, NEW m, MemoryType(m), NEW p \in Page, NEW c \in Cont,
         NEW n, n = Write(m, p, c), NEW h, h = Get(m, p)
  PROVE  Wrote(m, p, c, n, h)
<1>h. h \in PgHdr /\ h.data \in Cont
  BY GetFields DEF PgHdr
<1> DEFINE j == ToJournal(m, p)
           s == ToStmt(m, p)
           f == Fresh(m, p)
           ns == IF f THEN j \/ ~m.pager.journalStarted ELSE h.needSync
           is == h.inStmt \/ (j /\ m.stmt.inUse) \/ s
           r == Record(p, h.data)
<1>b. j \in BOOLEAN /\ s \in BOOLEAN /\ f \in BOOLEAN /\ ns \in BOOLEAN /\ is \in BOOLEAN /\ r \in Item
  BY <1>h, Items DEF ToJournal, ToStmt, Fresh, MemoryType, PagerType, PgHdr, StmtType
<1> DEFINE items == IF j THEN Append(m.items, r) ELSE m.items
           k == IF j THEN m.pager.nRec + 1 ELSE m.pager.nRec
           a == IF j THEN m.pager.aInJournal \cup {p} ELSE m.pager.aInJournal
           y == m.pager.needSync \/ (f /\ ns)
           d == IF p > m.pager.dbSize THEN p ELSE m.pager.dbSize
           recs == IF s THEN Append(m.stmt.recs, r) ELSE m.stmt.recs
           t == IF s \/ (j /\ m.stmt.inUse) THEN m.stmt.aInStmt \cup {p} ELSE m.stmt.aInStmt
<1>1. /\ items \in Seq(Item) /\ k \in Int /\ a \in SUBSET Page /\ y \in BOOLEAN /\ d \in 0..MaxPage
      /\ recs \in Seq(Item) /\ t \in SUBSET Page
  <2>1. items \in Seq(Item) /\ recs \in Seq(Item)
    BY <1>b, AppendSeq DEF MemoryType, StmtType
  <2>2. k \in Int /\ a \in SUBSET Page /\ y \in BOOLEAN /\ d \in 0..MaxPage
    BY <1>b, PageOne DEF MemoryType, PagerType, Page
  <2>3. t \in SUBSET Page
    BY DEF MemoryType, StmtType
  <2>4. QED
    BY <2>1, <2>2, <2>3
<1>2. /\ n.items = items
      /\ n.pager = [m.pager EXCEPT !.nRec = k, !.aInJournal = a, !.needSync = y,
                                   !.dirtyCache = TRUE, !.dbSize = d]
      /\ n.stmt = [m.stmt EXCEPT !.recs = recs, !.aInStmt = t]
      /\ n.pg = [m.pg EXCEPT ![p] = [h EXCEPT !.data = c, !.dirty = TRUE, !.inJournal = TRUE,
                                              !.needSync = ns, !.inStmt = is]]
  BY <1>h DEF Write, ToJournal, ToStmt, Fresh, MemoryType, PagerType, StmtType, PgHdr
<1> HIDE DEF items, k, a, y, d, recs, t, ns, is, j, s, f, r
<1>3. /\ n.pager \in PagerType /\ n.pager.state = m.pager.state
      /\ n.pager.origDbSize = m.pager.origDbSize /\ n.pager.journalHdr = m.pager.journalHdr
      /\ n.pager.journalStarted = m.pager.journalStarted
      /\ n.pager.alwaysRollback = m.pager.alwaysRollback /\ n.pager.dbSize = d
      /\ n.pager.nRec = k /\ n.pager.aInJournal = a /\ n.pager.needSync = y /\ n.pager.dirtyCache
  BY <1>1, <1>2, Zenon DEF MemoryType, PagerType
<1>4. /\ n.stmt \in StmtType /\ n.stmt.inUse = m.stmt.inUse /\ n.stmt.size = m.stmt.size
      /\ n.stmt.from = m.stmt.from /\ n.stmt.hdr = m.stmt.hdr
      /\ n.stmt.recs = recs /\ n.stmt.aInStmt = t
  BY <1>1, <1>2 DEF MemoryType, StmtType
<1>5. ~m.stmt.inUse => n.stmt = m.stmt
  <2>1. ~m.stmt.inUse => recs = m.stmt.recs /\ t = m.stmt.aInStmt
    BY DEF recs, t, s, ToStmt
  <2>2. SUFFICES ASSUME ~m.stmt.inUse PROVE n.stmt = m.stmt
    OBVIOUS
  <2>3. n.stmt = [m.stmt EXCEPT !.recs = m.stmt.recs, !.aInStmt = m.stmt.aInStmt]
    BY <1>2, <2>1, <2>2
  <2>4. QED
    BY <2>3 DEF MemoryType, StmtType
<1>6. /\ n.pg \in [Page -> PgHdr] /\ \A q \in Page : q # p => n.pg[q] = m.pg[q]
      /\ n.pg[p].in = h.in /\ n.pg[p].data = c /\ n.pg[p].dirty /\ n.pg[p].inJournal
      /\ n.pg[p].needSync = ns /\ n.pg[p].inStmt = is
      /\ n.pg[p].alwaysRollback = h.alwaysRollback
  <2> DEFINE g == [h EXCEPT !.data = c, !.dirty = TRUE, !.inJournal = TRUE,
                            !.needSync = ns, !.inStmt = is]
  <2>1. /\ g \in PgHdr /\ g.in = h.in /\ g.data = c /\ g.dirty /\ g.inJournal
        /\ g.needSync = ns /\ g.inStmt = is /\ g.alwaysRollback = h.alwaysRollback
    BY <1>h, <1>b DEF PgHdr
  <2>2. n.pg = [m.pg EXCEPT ![p] = g]
    BY <1>2
  <2> HIDE DEF g
  <2>3. QED
    BY <2>1, <2>2 DEF MemoryType
<1>7. h.in
  BY GetFields
<1>8. MemoryType(n)
  BY <1>1, <1>2, <1>3, <1>4, <1>6 DEF MemoryType
<1>9. y = (m.pager.needSync \/ (f /\ n.pg[p].needSync))
  BY <1>6 DEF y
<1>10. QED
  BY <1>2, <1>3, <1>4, <1>5, <1>6, <1>7, <1>8, <1>9
     DEF Wrote, items, k, a, d, recs, t, ns, is, j, s, f, r

NotWritten(m, p, n, h) ==
  /\ MemoryType(n) /\ n.items = m.items /\ n.pager = m.pager /\ n.stmt = m.stmt
  /\ \A q \in Page : q # p => n.pg[q] = m.pg[q]
  /\ n.pg[p].in /\ n.pg[p].alwaysRollback /\ n.pg[p].data = h.data
  /\ n.pg[p].inJournal = h.inJournal
  /\ n.pg[p].needSync = h.needSync /\ n.pg[p].inStmt = h.inStmt
  /\ n.pg[p].dirty = (h.dirty /\ (m.stmt.inUse \/ (m.pager.dbSize = p /\
                                                   m.pager.origDbSize < m.pager.dbSize)))

LEMMA DontWriteFields ==
  ASSUME file \in DatabaseType, NEW m, MemoryType(m), NEW p \in Page,
         NEW n, n = DontWrite(m, p), NEW h, h = Get(m, p)
  PROVE  NotWritten(m, p, n, h)
<1>h. h \in PgHdr /\ h.in
  BY GetFields
<1> DEFINE d == h.dirty /\ (m.stmt.inUse \/ (m.pager.dbSize = p /\ m.pager.origDbSize < m.pager.dbSize))
           g == [h EXCEPT !.alwaysRollback = TRUE, !.dirty = d]
<1>1. d \in BOOLEAN
  BY <1>h DEF PgHdr, MemoryType, StmtType
<1>2. n = [m EXCEPT !.pg = [m.pg EXCEPT ![p] = g]]
  BY <1>h DEF DontWrite, PgHdr
<1> HIDE DEF d
<1>3. /\ g \in PgHdr /\ g.in /\ g.alwaysRollback /\ g.data = h.data
      /\ g.inJournal = h.inJournal
      /\ g.needSync = h.needSync /\ g.inStmt = h.inStmt /\ g.dirty = d
  BY <1>1, <1>h DEF PgHdr
<1> HIDE DEF g
<1>4. QED
  BY <1>2, <1>3 DEF NotWritten, MemoryType, d

NotRolledBack(m, p, n, h) ==
  /\ m.pager.state = "EXCLUSIVE" /\ ~h.alwaysRollback /\ ~m.pager.alwaysRollback
  /\ MemoryType(n) /\ n.items = m.items
  /\ n.pager = [m.pager EXCEPT !.aInJournal = n.pager.aInJournal]
  /\ n.pager.aInJournal = IF ToJournal(m, p) THEN m.pager.aInJournal \cup {p}
                          ELSE m.pager.aInJournal
  /\ n.stmt = [m.stmt EXCEPT !.aInStmt = n.stmt.aInStmt]
  /\ n.stmt.aInStmt = IF m.stmt.inUse /\ (ToJournal(m, p) \/ p <= m.stmt.size)
                      THEN m.stmt.aInStmt \cup {p} ELSE m.stmt.aInStmt
  /\ \A q \in Page : q # p => n.pg[q] = m.pg[q]
  /\ n.pg[p].in /\ ~n.pg[p].alwaysRollback /\ n.pg[p].data = h.data
  /\ n.pg[p].dirty = h.dirty /\ n.pg[p].needSync = h.needSync
  /\ n.pg[p].inJournal = (h.inJournal \/ ToJournal(m, p))
  /\ n.pg[p].inStmt = (h.inStmt \/ (m.stmt.inUse /\ (ToJournal(m, p) \/ p <= m.stmt.size)))

LEMMA DontRollbackFields ==
  ASSUME file \in DatabaseType, NEW m, MemoryType(m), NEW p \in Page,
         NEW n, n = DontRollback(m, p), n # m, NEW h, h = Get(m, p)
  PROVE  NotRolledBack(m, p, n, h)
<1>h. h \in PgHdr /\ h.in
  BY GetFields
<1> DEFINE j == ToJournal(m, p)
           s == m.stmt.inUse /\ (j \/ p <= m.stmt.size)
           a == IF j THEN m.pager.aInJournal \cup {p} ELSE m.pager.aInJournal
           t == IF s THEN m.stmt.aInStmt \cup {p} ELSE m.stmt.aInStmt
           ij == h.inJournal \/ j
           is == h.inStmt \/ s
           g == [h EXCEPT !.inJournal = ij, !.inStmt = is]
<1>1. m.pager.state = "EXCLUSIVE" /\ ~h.alwaysRollback /\ ~m.pager.alwaysRollback
  BY DEF DontRollback
<1>2. n = [m EXCEPT !.pager.aInJournal = a, !.stmt.aInStmt = t, !.pg[p] = g]
  BY <1>1, <1>h DEF DontRollback, ToJournal, PgHdr
<1>3. /\ j \in BOOLEAN /\ s \in BOOLEAN /\ a \in SUBSET Page /\ t \in SUBSET Page
      /\ ij \in BOOLEAN /\ is \in BOOLEAN
  BY <1>h DEF ToJournal, MemoryType, PagerType, StmtType, PgHdr
<1>4. /\ n.pager = [m.pager EXCEPT !.aInJournal = a] /\ n.items = m.items
      /\ n.stmt = [m.stmt EXCEPT !.aInStmt = t]
      /\ n.pg = [m.pg EXCEPT ![p] = g]
  BY <1>2
<1> HIDE DEF a, t, j, s, ij, is
<1>5. /\ g \in PgHdr /\ g.in /\ g.alwaysRollback = h.alwaysRollback /\ g.data = h.data
      /\ g.dirty = h.dirty /\ g.needSync = h.needSync /\ g.inJournal = ij /\ g.inStmt = is
  BY <1>h, <1>3 DEF PgHdr
<1> HIDE DEF g
<1>6. /\ n.pager \in PagerType /\ n.pager.aInJournal = a
      /\ n.stmt \in StmtType /\ n.stmt.aInStmt = t
  BY <1>3, <1>4 DEF MemoryType, PagerType, StmtType
<1>7. /\ n.pg \in [Page -> PgHdr] /\ n.pg[p] = g /\ \A q \in Page : q # p => n.pg[q] = m.pg[q]
  BY <1>4, <1>5 DEF MemoryType
<1>8. MemoryType(n)
  BY <1>4, <1>6, <1>7 DEF MemoryType
<1>9. QED
  BY <1>1, <1>4, <1>5, <1>6, <1>7, <1>8 DEF NotRolledBack, a, t, j, s, ij, is

----------------------------------------------------------------------------
\* The journal's layout.

\* What every journal has, whoever left it: a header's count stays before the next
\* header, and in full-sync mode it counts nothing that is not on the disk.
Sound(j, lv) ==
  /\ \A g, h \in Headers(j.items) : g < h => g + j.items[g].nRec < h /\ g + j.items[g].was < h
  /\ lv = "full" =>
       \A h \in Headers(j.items) : /\ j.items[h].nRec = 0 \/ h + j.items[h].nRec <= j.safe
                                   /\ j.items[h].was = 0 \/ h + j.items[h].was <= j.safe

\* The journal of an open transaction: H is its last header, the segments before it
\* are full and on the disk.
Shape(items, safe, H, size, lv) ==
  /\ 1 \in Headers(items) /\ items[1].size = size
  /\ H \in Headers(items) /\ \A h \in Headers(items) : h <= H
  /\ \A i \in 1..Len(items) : items[i].type # "scrap"
  /\ \A g \in Headers(items) : g < H =>
       /\ items[g].was = items[g].nRec /\ g + items[g].nRec + 1 \in Headers(items)
       /\ \A x \in (g + 1)..(g + items[g].nRec) : x \notin Headers(items)
  /\ H - 1 <= safe /\ safe <= Len(items)
  /\ items[H].was <= items[H].nRec /\ items[H].nRec <= Len(items) - H
  /\ items[H].was = 0 \/ H + items[H].was <= safe
  /\ lv = "full" => items[H].nRec = 0 \/ H + items[H].nRec <= safe

LEMMA HeaderAt ==
  ASSUME NEW items \in Seq(Item), NEW h \in Headers(items)
  PROVE  /\ h \in 1..Len(items) /\ Len(items) \in Nat /\ items[h] \in HeaderType
         /\ items[h].nRec \in Nat /\ items[h].was \in Nat /\ items[h].size \in 0..MaxPage
<1>1. h \in 1..Len(items) /\ items[h].type = "header"
  BY DEF Headers
<1>2. items[h] \in Item /\ Len(items) \in Nat
  BY <1>1, ItemAt
<1>3. QED
  BY <1>1, <1>2, ItemTypes

LEMMA ShapeSound ==
  ASSUME NEW j \in JournalType, NEW H, NEW size, Shape(j.items, j.safe, H, size, level)
  PROVE  Sound(j, level)
<1>t. j.items \in Seq(Item) /\ j.safe \in Nat /\ H \in Headers(j.items)
  BY DEF JournalType, Shape
<1>1. ASSUME NEW g \in Headers(j.items), g < H
      PROVE  /\ j.items[g].was = j.items[g].nRec
             /\ \A h \in Headers(j.items) : g < h => g + j.items[g].nRec < h
             /\ g + j.items[g].nRec <= j.safe
  <2>1. /\ j.items[g].was = j.items[g].nRec /\ g + j.items[g].nRec + 1 \in Headers(j.items)
        /\ \A x \in (g + 1)..(g + j.items[g].nRec) : x \notin Headers(j.items)
    BY <1>1 DEF Shape
  <2>2. g + j.items[g].nRec + 1 <= H /\ H - 1 <= j.safe
    BY <2>1 DEF Shape
  <2>3. ASSUME NEW h \in Headers(j.items), g < h PROVE g + j.items[g].nRec < h
    BY <1>t, <2>1, <2>3, HeaderAt
  <2>4. QED
    BY <1>t, <2>1, <2>2, <2>3, HeaderAt
<1>2. \A h \in Headers(j.items) : h <= H
  BY DEF Shape
<1>3. ASSUME NEW g \in Headers(j.items), NEW h \in Headers(j.items), g < h
      PROVE  g + j.items[g].nRec < h /\ g + j.items[g].was < h
  <2>1. g < H
    BY <1>t, <1>2, <1>3, HeaderAt
  <2>2. QED
    BY <1>1, <1>3, <2>1
<1>4. ASSUME level = "full", NEW h \in Headers(j.items)
      PROVE  /\ j.items[h].nRec = 0 \/ h + j.items[h].nRec <= j.safe
             /\ j.items[h].was = 0 \/ h + j.items[h].was <= j.safe
  <2>1. CASE h < H
    BY <1>1, <2>1
  <2>2. CASE h = H
    BY <1>4, <2>2 DEF Shape
  <2>3. QED
    BY <1>t, <1>2, <2>1, <2>2, HeaderAt
<1>5. QED
  BY <1>3, <1>4 DEF Sound

LEMMA NoJournalSound ==
  /\ NoJournal \in JournalType /\ Sound(NoJournal, level) /\ NoJournal.items = << >>
  /\ NoJournal.safe <= Len(NoJournal.items) /\ ~NoJournal.exists /\ ~NoJournal.named
  /\ Headers(NoJournal.items) = {}
<1>1. NoJournal.items = << >> /\ Headers(NoJournal.items) = {}
  BY DEF NoJournal, Headers
<1>2. QED
  BY <1>1 DEF NoJournal, JournalType, Sound

LEMMA PlayedRecord ==
  ASSUME NEW j \in JournalType, Sound(j, level), NEW i \in Played(j.items)
  PROVE  i \in 1..Len(j.items) /\ j.items[i] \in RecordType
<1> DEFINE S == {h \in Headers(j.items) : h < i} \cup {0}
           h == HeaderOf(j.items, i)
<1>t. j.items \in Seq(Item) /\ i \in 1..Len(j.items)
  BY DEF JournalType, Played
<1>1. h \in Headers(j.items) /\ i - h <= j.items[h].nRec /\ \A k \in h..i : j.items[k].type # "scrap"
  BY DEF Played, Reached
<1>2. h = Max(S)
  BY DEF HeaderOf
<1>3. S \in SUBSET (0..Len(j.items)) /\ 0 \in S
  BY <1>t, HeaderAt
<1>4. h \in S
  BY <1>2, <1>3, MaxIn, ItemAt, <1>t
<1>5. h \in 1..Len(j.items) /\ j.items[h].nRec \in Nat
  BY <1>1, <1>t, HeaderAt
<1>6. h < i
  BY <1>4, <1>5
<1>7. j.items[i].type # "scrap"
  BY <1>1, <1>5, <1>6, <1>t
<1>8. j.items[i].type # "header"
  <2> SUFFICES ASSUME j.items[i].type = "header" PROVE FALSE
    OBVIOUS
  <2>1. i \in Headers(j.items)
    BY <1>t DEF Headers
  <2>2. h + j.items[h].nRec < i
    BY <1>1, <1>6, <2>1 DEF Sound
  <2>3. QED
    BY <1>1, <1>5, <2>2, <1>t
<1>9. QED
  BY <1>t, <1>7, <1>8, ItemAt, ItemTypes

LEMMA NotCutShort ==
  ASSUME NEW j \in JournalType, Sound(j, level), j.safe <= Len(j.items), level = "full"
  PROVE  ~CutShort(j.items)
<1>t. j.items \in Seq(Item) /\ j.safe \in Nat
  BY DEF JournalType
<1>1. ASSUME NEW h \in Headers(j.items) PROVE h + j.items[h].nRec <= Len(j.items)
  <2>1. j.items[h].nRec = 0 \/ h + j.items[h].nRec <= j.safe
    BY DEF Sound
  <2>2. QED
    BY <1>t, <2>1, HeaderAt
<1>2. QED
  BY <1>t, <1>1, HeaderAt DEF CutShort

LEMMA LeftoverItem ==
  ASSUME NEW i \in Item, NEW lost \in BOOLEAN, NEW counted \in BOOLEAN,
         NEW k, k = IF lost THEN Damaged(i) ELSE OnDisk(IF counted THEN i ELSE Uncounted(i))
  PROVE  /\ k \in Item
         /\ k.type = "header" => /\ i.type = "header" /\ k.size = i.size /\ k.was = k.nRec
                                 /\ k.nRec = i.nRec \/ k.nRec = i.was
                                 /\ ~counted => k.nRec = i.was
         /\ ~lost /\ i.type = "header" => k.type = "header"
         /\ ~lost /\ i.type # "header" => k = i
<1> DEFINE u == IF counted THEN i ELSE Uncounted(i)
<1>0. CASE lost
  <2>1. k = Damaged(i)
    BY <1>0
  <2>2. i.type = "record" => i.page \in Page
    BY ItemTypes
  <2>3. k \in Item /\ k.type # "header"
    BY <2>1, <2>2, Items, Contents DEF Damaged
  <2>4. QED
    BY <1>0, <2>3
<1>1. CASE ~lost /\ i.type = "header"
  <2>1. i \in HeaderType
    BY <1>1, ItemTypes
  <2>2. /\ u \in HeaderType /\ u.size = i.size /\ (u.nRec = i.nRec \/ u.nRec = i.was)
        /\ ~counted => u.nRec = i.was
    BY <1>1, <2>1 DEF Uncounted, HeaderType
  <2>3. k = [u EXCEPT !.was = u.nRec]
    BY <1>1, <2>2 DEF OnDisk, HeaderType
  <2> HIDE DEF u
  <2>4. k \in HeaderType /\ k.size = u.size /\ k.nRec = u.nRec /\ k.was = u.nRec
    BY <2>2, <2>3 DEF HeaderType
  <2>5. QED
    BY <1>1, <2>2, <2>4, ItemTypes DEF Item, HeaderType
<1>2. CASE ~lost /\ i.type # "header"
  BY <1>2 DEF Uncounted, OnDisk
<1>3. QED
  BY <1>0, <1>1, <1>2

LEMMA LeftoverFields ==
  ASSUME NEW j \in JournalType, j.safe <= Len(j.items), NEW L \in Leftovers(j)
  PROVE  /\ L \in JournalType /\ L.exists /\ L.named /\ L.safe = Len(L.items)
         /\ j.safe <= Len(L.items) /\ Len(L.items) <= Len(j.items)
         /\ \A i \in 1..Len(L.items) :
              /\ L.items[i].type = "header" =>
                   /\ j.items[i].type = "header" /\ L.items[i].size = j.items[i].size
                   /\ L.items[i].was = L.items[i].nRec
                   /\ L.items[i].nRec = j.items[i].nRec \/ L.items[i].nRec = j.items[i].was
              /\ i <= j.safe /\ j.items[i].type = "header" => L.items[i].type = "header"
              /\ i <= j.safe /\ j.items[i].type # "header" => L.items[i] = j.items[i]
              /\ j.items[i].type = "header" \/ L.items[i] = j.items[i] \/ L.items[i] = Damaged(j.items[i])
              /\ j.items[i].type = "header" => L.items[i].type # "record"
<1>t. j.items \in Seq(Item) /\ j.safe \in Nat /\ Len(j.items) \in Nat
  BY LenProperties DEF JournalType
<1>0. PICK n \in j.safe..Len(j.items) :
        \E lost \in SUBSET ((j.safe + 1)..n), counted \in BOOLEAN : L = Leftover(j, n, lost, counted)
  BY DEF Leftovers
<1>1. PICK lost \in SUBSET ((j.safe + 1)..n), counted \in BOOLEAN : L = Leftover(j, n, lost, counted)
  BY <1>0
<1> DEFINE k(i) == IF i \in lost THEN Damaged(j.items[i])
                   ELSE OnDisk(IF counted THEN j.items[i] ELSE Uncounted(j.items[i]))
<1>2. L = [exists |-> TRUE, named |-> TRUE, safe |-> n, items |-> [i \in 1..n |-> k(i)]]
  BY <1>1 DEF Leftover
<1>3. \A i \in 1..n : i \in 1..Len(j.items) /\ j.items[i] \in Item
  BY <1>t, ItemAt
<1>4. \A i \in 1..n : k(i) \in Item
  <2> SUFFICES ASSUME NEW i \in 1..n PROVE k(i) \in Item
    OBVIOUS
  <2>1. (i \in lost) \in BOOLEAN
    OBVIOUS
  <2>2. j.items[i] \in Item
    BY <1>3
  <2>3. QED
    BY <2>1, <2>2, LeftoverItem
<1> HIDE DEF k
<1>5. L.items \in Seq(Item) /\ Len(L.items) = n /\ n \in Nat
  BY <1>2, <1>4, <1>t
<1>6. L \in JournalType
  BY <1>2, <1>5 DEF JournalType
<1>7. ASSUME NEW i \in 1..n
      PROVE  /\ L.items[i].type = "header" =>
                  /\ j.items[i].type = "header" /\ L.items[i].size = j.items[i].size
                  /\ L.items[i].was = L.items[i].nRec
                  /\ L.items[i].nRec = j.items[i].nRec \/ L.items[i].nRec = j.items[i].was
             /\ i <= j.safe /\ j.items[i].type = "header" => L.items[i].type = "header"
             /\ i <= j.safe /\ j.items[i].type # "header" => L.items[i] = j.items[i]
             /\ j.items[i].type = "header" \/ L.items[i] = j.items[i] \/ L.items[i] = Damaged(j.items[i])
             /\ j.items[i].type = "header" => L.items[i].type # "record"
  <2>1. L.items[i] = k(i)
    BY <1>2
  <2>2. j.items[i] \in Item
    BY <1>3
  <2>3. i <= j.safe => i \notin lost
    BY <1>t
  <2> DEFINE l == i \in lost
  <2>4. k(i) = IF l THEN Damaged(j.items[i])
               ELSE OnDisk(IF counted THEN j.items[i] ELSE Uncounted(j.items[i]))
    BY DEF k
  <2>5. l \in BOOLEAN /\ counted \in BOOLEAN
    OBVIOUS
  <2>6. l => k(i) = Damaged(j.items[i])
    BY <2>4
  <2>7. i <= j.safe => ~l
    BY <2>3
  <2> HIDE DEF l
  <2>8. /\ k(i).type = "header" => /\ j.items[i].type = "header" /\ k(i).size = j.items[i].size
                                   /\ k(i).was = k(i).nRec
                                   /\ k(i).nRec = j.items[i].nRec \/ k(i).nRec = j.items[i].was
        /\ ~l /\ j.items[i].type = "header" => k(i).type = "header"
        /\ ~l /\ j.items[i].type # "header" => k(i) = j.items[i]
    BY <2>2, <2>4, <2>5, LeftoverItem
  <2>9. l /\ j.items[i].type = "header" => k(i) = Scrap
    BY <2>6 DEF Damaged
  <2>10. QED
    BY <2>1, <2>6, <2>7, <2>8, <2>9, Items
<1>8. QED
  BY <1>2, <1>5, <1>6, <1>7, <1>t

LEMMA LeftoverSound ==
  ASSUME NEW j \in JournalType, j.safe <= Len(j.items), Sound(j, level), NEW L \in Leftovers(j)
  PROVE  L \in JournalType /\ Sound(L, level) /\ L.safe <= Len(L.items)
<1>t. /\ j.items \in Seq(Item) /\ j.safe \in Nat /\ L \in JournalType /\ L.items \in Seq(Item)
      /\ L.safe = Len(L.items) /\ j.safe <= L.safe /\ Len(L.items) <= Len(j.items) /\ L.safe \in Nat
  BY LeftoverFields DEF JournalType
<1>1. \A h \in Headers(L.items) :
         /\ h \in Headers(j.items) /\ L.items[h].was = L.items[h].nRec
         /\ L.items[h].nRec = j.items[h].nRec \/ L.items[h].nRec = j.items[h].was
  <2> SUFFICES ASSUME NEW h \in Headers(L.items)
               PROVE  /\ h \in Headers(j.items) /\ L.items[h].was = L.items[h].nRec
                      /\ L.items[h].nRec = j.items[h].nRec \/ L.items[h].nRec = j.items[h].was
    OBVIOUS
  <2>1. h \in 1..Len(L.items) /\ L.items[h].type = "header"
    BY DEF Headers
  <2>2. h \in 1..Len(j.items)
    BY <2>1, <1>t, LenProperties
  <2>3. \A i \in 1..Len(L.items) : L.items[i].type = "header" =>
          /\ j.items[i].type = "header" /\ L.items[i].was = L.items[i].nRec
          /\ L.items[i].nRec = j.items[i].nRec \/ L.items[i].nRec = j.items[i].was
    BY LeftoverFields
  <2>4. QED
    BY <2>1, <2>2, <2>3 DEF Headers
<1>2. ASSUME NEW g \in Headers(L.items), NEW h \in Headers(L.items), g < h
      PROVE  g + L.items[g].nRec < h /\ g + L.items[g].was < h
  BY <1>1, <1>2 DEF Sound
<1>3. ASSUME level = "full", NEW h \in Headers(L.items)
      PROVE  /\ L.items[h].nRec = 0 \/ h + L.items[h].nRec <= L.safe
             /\ L.items[h].was = 0 \/ h + L.items[h].was <= L.safe
  <2>1. /\ j.items[h].nRec = 0 \/ h + j.items[h].nRec <= j.safe
        /\ j.items[h].was = 0 \/ h + j.items[h].was <= j.safe
    BY <1>1, <1>3 DEF Sound
  <2>2. L.items[h].nRec \in Nat /\ h \in Nat /\ L.items[h].was = L.items[h].nRec
    BY <1>1, <1>t, HeaderAt
  <2>3. /\ L.items[h].nRec = j.items[h].nRec \/ L.items[h].nRec = j.items[h].was
        /\ j.safe \in Nat /\ L.safe \in Nat /\ j.safe <= L.safe
    BY <1>1, <1>t
  <2>4. L.items[h].nRec = 0 \/ h + L.items[h].nRec <= j.safe
    BY <2>1, <2>3
  <2>5. QED
    BY <2>2, <2>3, <2>4
<1>4. QED
  BY <1>t, <1>2, <1>3 DEF Sound

LEMMA AppendRecord ==
  ASSUME NEW items \in Seq(Item), NEW r \in RecordType, NEW safe \in Nat, NEW H, NEW size,
         Shape(items, safe, H, size, level)
  PROVE  /\ Append(items, r) \in Seq(Item) /\ Len(Append(items, r)) = Len(items) + 1
         /\ Headers(Append(items, r)) = Headers(items)
         /\ Shape(Append(items, r), safe, H, size, level)
<1> DEFINE new == Append(items, r)
<1>1. /\ new \in Seq(Item) /\ Len(new) = Len(items) + 1 /\ Len(items) \in Nat
      /\ \A i \in 1..Len(items) : new[i] = items[i]
      /\ new[Len(items) + 1] = r
  BY AppendSeq, LenProperties DEF Item
<1>2. r.type = "record"
  BY DEF RecordType
<1> HIDE DEF new
<1>3. Headers(new) = Headers(items)
  BY <1>1, <1>2 DEF Headers
<1>4. \A h \in Headers(items) : new[h] = items[h] /\ h \in Nat /\ items[h].nRec \in Nat
  BY <1>1, HeaderAt
<1>5. H \in Headers(items) /\ 1 \in Headers(items) /\ safe <= Len(items)
      /\ items[H].nRec <= Len(items) - H
  BY DEF Shape
<1>6. \A i \in 1..Len(new) : new[i].type # "scrap"
  <2> SUFFICES ASSUME NEW i \in 1..Len(new) PROVE new[i].type # "scrap"
    OBVIOUS
  <2>1. CASE i \in 1..Len(items)
    BY <1>1, <2>1 DEF Shape
  <2>2. CASE i = Len(items) + 1
    BY <1>1, <1>2, <2>2
  <2>3. QED
    BY <1>1, <2>1, <2>2
<1>7. items[H].nRec <= Len(new) - H
  BY <1>1, <1>4, <1>5
<1>8. safe <= Len(new)
  BY <1>1, <1>5
<1>9. \A g \in Headers(new) : g < H =>
        /\ new[g].was = new[g].nRec /\ g + new[g].nRec + 1 \in Headers(new)
        /\ \A x \in (g + 1)..(g + new[g].nRec) : x \notin Headers(new)
  BY <1>3, <1>4 DEF Shape
<1>10. Shape(new, safe, H, size, level)
  BY <1>3, <1>4, <1>5, <1>6, <1>7, <1>8, <1>9 DEF Shape
<1>11. QED
  BY <1>1, <1>3, <1>10 DEF new

----------------------------------------------------------------------------
\* The types of what the file system does.

LEMMA CutFields ==
  ASSUME NEW f \in DatabaseType, NEW size \in 0..MaxPage
  PROVE  /\ Cut(f, size) \in DatabaseType /\ Cut(f, size).size = size
         /\ \A p \in Page : Cut(f, size).page[p] = IF p > size THEN Zero ELSE f.page[p]
<1>1. f.page \in [Page -> Cont]
  BY Contents
<1>2. [p \in Page |-> IF p > size THEN Zero ELSE f.page[p]] \in [Page -> Cont]
  BY <1>1, Contents
<1>3. QED
  BY <1>2, Contents DEF Cut

LEMMA WritesFields ==
  ASSUME file \in DatabaseType, wild \in WildType, NEW f \in DatabaseType, Writes(f)
  PROVE  /\ file' = f /\ file' \in DatabaseType /\ wild' \in WildType
         /\ wild'.size = IF f.size = file.size THEN wild.size ELSE wild.size \cup {file.size}
         /\ \A p \in Page : wild'.page[p] = IF f.page[p] = file.page[p] THEN wild.page[p]
                                            ELSE wild.page[p] \cup {file.page[p]}
<1> DEFINE s == IF f.size = file.size THEN wild.size ELSE wild.size \cup {file.size}
           c == [p \in Page |-> IF f.page[p] = file.page[p] THEN wild.page[p]
                                ELSE wild.page[p] \cup {file.page[p]}]
<1>1. file.size \in 0..MaxPage /\ file.page \in [Page -> Cont] /\ wild.size \in SUBSET (0..MaxPage)
      /\ wild.page \in [Page -> SUBSET Cont]
  BY Contents DEF WildType
<1>2. s \in SUBSET (0..MaxPage) /\ c \in [Page -> SUBSET Cont]
  BY <1>1
<1>3. file' = f /\ wild' = [size |-> s, page |-> c]
  BY DEF Writes
<1> HIDE DEF s
<1>4. wild' \in WildType /\ wild'.size = s /\ wild'.page = c
  BY <1>2, <1>3 DEF WildType
<1>5. QED
  BY <1>3, <1>4 DEF s

LEMMA SurvivorFields ==
  ASSUME file \in DatabaseType, wild \in WildType, NEW f \in Survivors
  PROVE  /\ f \in DatabaseType /\ f.size \in wild.size \cup {file.size}
         /\ \A p \in Page : IF p > f.size THEN f.page[p] = Zero
                            ELSE f.page[p] \in wild.page[p] \cup {file.page[p]}
<1>1. file.size \in 0..MaxPage /\ file.page \in [Page -> Cont] /\ wild.size \in SUBSET (0..MaxPage)
      /\ wild.page \in [Page -> SUBSET Cont]
  BY Contents DEF WildType
<1>2. PICK s \in wild.size \cup {file.size} :
        f \in {Cut([size |-> 0, page |-> c], s) :
                 c \in {d \in [Page -> UNION {wild.page[p] \cup {file.page[p]} : p \in Page}] :
                          \A p \in Page : d[p] \in wild.page[p] \cup {file.page[p]}}}
  BY DEF Survivors
<1>3. PICK c \in [Page -> UNION {wild.page[p] \cup {file.page[p]} : p \in Page}] :
        /\ \A p \in Page : c[p] \in wild.page[p] \cup {file.page[p]}
        /\ f = Cut([size |-> 0, page |-> c], s)
  BY <1>2
<1>4. c \in [Page -> Cont]
  BY <1>1, <1>3
<1>5. [size |-> 0, page |-> c] \in DatabaseType
  BY <1>4, Contents, PageOne
<1>6. s \in 0..MaxPage
  BY <1>1
<1>7. QED
  BY <1>3, <1>5, <1>6, CutFields

LEMMA RestoredFields ==
  ASSUME NEW items, NEW R, NEW f \in DatabaseType,
         \A i \in R : items[i] \in RecordType
  PROVE  /\ Restored(items, R, f) \in DatabaseType /\ Restored(items, R, f).size = f.size
         /\ \A p \in Page :
              \/ /\ \A i \in R : items[i].page # p
                 /\ Restored(items, R, f).page[p] = f.page[p]
              \/ \E i \in R : items[i].page = p /\ Restored(items, R, f).page[p] = items[i].data
<1> DEFINE was(p) == CHOOSE i \in R : items[i].page = p
           back(p) == \E i \in R : items[i].page = p
           c == [p \in Page |-> IF back(p) THEN items[was(p)].data ELSE f.page[p]]
<1>1. \A p : back(p) => was(p) \in R /\ items[was(p)].page = p
  OBVIOUS
<1>2. Restored(items, R, f) = [f EXCEPT !.page = c]
  BY DEF Restored
<1> HIDE DEF was
<1>3. f.page \in [Page -> Cont] /\ \A i \in R : items[i].data \in Cont
  BY Contents DEF RecordType
<1>4. c \in [Page -> Cont]
  BY <1>1, <1>3
<1>5. /\ Restored(items, R, f) \in DatabaseType /\ Restored(items, R, f).size = f.size
      /\ Restored(items, R, f).page = c
  BY <1>2, <1>4, Contents
<1>6. QED
  BY <1>1, <1>5

LEMMA PlaybackFields ==
  ASSUME file \in DatabaseType, NEW j \in JournalType, Sound(j, level), NEW f, f = PlaybackFile(j.items)
  PROVE  /\ f \in DatabaseType
         /\ 1 \notin Headers(j.items) => f = file
         /\ 1 \in Headers(j.items) =>
              /\ f.size = j.items[1].size
              /\ \A p \in Page :
                   \/ /\ \A i \in Played(j.items) : j.items[i].page # p
                      /\ f.page[p] = IF p > f.size THEN Zero ELSE file.page[p]
                   \/ \E i \in Played(j.items) : j.items[i].page = p /\ f.page[p] = j.items[i].data
<1>1. CASE 1 \notin Headers(j.items)
  BY <1>1 DEF PlaybackFile
<1>2. CASE 1 \in Headers(j.items)
  <2> DEFINE g == Cut(file, j.items[1].size)
  <2>1. j.items[1].size \in 0..MaxPage
    BY <1>2, HeaderAt DEF JournalType
  <2>2. /\ g \in DatabaseType /\ g.size = j.items[1].size
        /\ \A p \in Page : g.page[p] = IF p > g.size THEN Zero ELSE file.page[p]
    BY <2>1, CutFields
  <2>3. f = Restored(j.items, Played(j.items), g)
    BY <1>2 DEF PlaybackFile
  <2>4. \A i \in Played(j.items) : j.items[i] \in RecordType
    BY PlayedRecord
  <2> HIDE DEF g
  <2>5. /\ f \in DatabaseType /\ f.size = g.size
        /\ \A p \in Page :
             \/ /\ \A i \in Played(j.items) : j.items[i].page # p
                /\ f.page[p] = g.page[p]
             \/ \E i \in Played(j.items) : j.items[i].page = p /\ f.page[p] = j.items[i].data
    BY <2>2, <2>3, <2>4, RestoredFields
  <2>6. QED
    BY <1>2, <2>2, <2>5
<1>3. QED
  BY <1>1, <1>2

----------------------------------------------------------------------------
\* Types and layout in every state.

LaidOut(m, safe, lv) ==
  /\ MemoryType(m) /\ m.pager.aInJournal \subseteq 1..m.pager.origDbSize
  /\ Shape(m.items, safe, m.pager.journalHdr, m.pager.origDbSize, lv)
  /\ m.pager.nRec = Len(m.items) - m.pager.journalHdr

TxnStates == {"txn", "sync", "counted", "spill", "store", "stored", "synced"}
TypeInv ==
  /\ level \in Levels /\ at \in {"idle", "played", "down", "stuck"} \cup TxnStates
  /\ job \in {0} \cup Page /\ unsettled \in BOOLEAN
  /\ file \in DatabaseType /\ wild \in WildType
  /\ jrnl \in JournalType /\ jrnl.safe <= Len(jrnl.items)
  /\ gone \in [jrnl : JournalType, to : DatabaseType] /\ gone.jrnl.safe <= Len(gone.jrnl.items)
  /\ MemoryType(Memory) /\ pager.aInJournal \subseteq 1..pager.origDbSize
  /\ expect \in DatabaseType /\ base \in DatabaseType /\ saved \in DatabaseType

\* The last header's count, as the two phases of syncJournal leave it.
Counting ==
  /\ at \in {"counted", "spill"} => jrnl.items[pager.journalHdr].nRec = pager.nRec
  /\ at = "spill" => /\ jrnl.items[pager.journalHdr].was = pager.nRec
                     /\ jrnl.safe = Len(jrnl.items) /\ job # 0
LayoutInv ==
  /\ Sound(gone.jrnl, level)
  /\ IF InTxn THEN jrnl.exists /\ LaidOut(Memory, jrnl.safe, level) /\ Counting ELSE Sound(jrnl, level)
  /\ level = "full" => at # "stuck"
LayInv == TypeInv /\ LayoutInv

LEMMA MemoryFields ==
  /\ Memory.pager = pager /\ Memory.stmt = stmt /\ Memory.pg = pg /\ Memory.items = jrnl.items
  /\ Memory' = [pager |-> pager', stmt |-> stmt', pg |-> pg', items |-> jrnl'.items]
  /\ Memory'.pager = pager' /\ Memory'.stmt = stmt' /\ Memory'.pg = pg' /\ Memory'.items = jrnl'.items
  BY DEF Memory

LEMMA LoadedType ==
  ASSUME TypeInv
  PROVE  /\ \A p \in Page : Loaded(p) \in PgHdr /\ Loaded(p).data \in Cont /\ Loaded(p).in
         /\ Free \in SUBSET Page
         /\ \A p \in Page, k \in Number : Content(p, k) \in Cont
         /\ \A f \in SUBSET Page : List(f) \in Cont
<1>1. \A p \in Page : Loaded(p) \in PgHdr /\ Loaded(p).data \in Cont /\ Loaded(p).in
  <2> SUFFICES ASSUME NEW p \in Page PROVE Loaded(p) \in PgHdr /\ Loaded(p).data \in Cont /\ Loaded(p).in
    OBVIOUS
  <2>1. Loaded(p) = Get(Memory, p)
    BY DEF Loaded
  <2>2. Loaded(p) \in PgHdr /\ Loaded(p).in
    BY <2>1, GetFields DEF TypeInv
  <2>3. QED
    BY <2>2 DEF PgHdr
<1>2. Free \in SUBSET Page
  BY <1>1, PageOne DEF Free, Cont
<1>3. \A p \in Page, k \in Number : Content(p, k) \in Cont
  BY <1>2 DEF Content, Cont
<1>4. \A f \in SUBSET Page : List(f) \in Cont
  BY <1>1, PageOne DEF List, Cont
<1>5. QED
  BY <1>1, <1>2, <1>3, <1>4

LEMMA WriteLaid ==
  ASSUME file \in DatabaseType, NEW m, NEW safe \in Nat, LaidOut(m, safe, level), NEW p \in Page, NEW c \in Cont,
         NEW n, n = Write(m, p, c)
  PROVE  LaidOut(n, safe, level)
<1>m. MemoryType(m) /\ m.items \in Seq(Item) /\ m.pager \in PagerType
  BY DEF LaidOut, MemoryType
<1>0. PICK h : h = Get(m, p)
  OBVIOUS
<1>h. h \in PgHdr
  BY <1>m, <1>0, GetFields
<1>w. Wrote(m, p, c, n, h)
  BY <1>m, <1>0, WriteFields
<1>1. /\ MemoryType(n)
      /\ n.items = IF ToJournal(m, p) THEN Append(m.items, Record(p, h.data)) ELSE m.items
      /\ n.pager.origDbSize = m.pager.origDbSize /\ n.pager.journalHdr = m.pager.journalHdr
      /\ n.pager.nRec = IF ToJournal(m, p) THEN m.pager.nRec + 1 ELSE m.pager.nRec
      /\ n.pager.aInJournal = IF ToJournal(m, p) THEN m.pager.aInJournal \cup {p}
                              ELSE m.pager.aInJournal
  BY <1>w DEF Wrote
<1>2. /\ m.pager.aInJournal \subseteq 1..m.pager.origDbSize
      /\ Shape(m.items, safe, m.pager.journalHdr, m.pager.origDbSize, level)
      /\ m.pager.nRec = Len(m.items) - m.pager.journalHdr
      /\ m.pager.origDbSize \in 0..MaxPage /\ m.pager.journalHdr \in Nat /\ Len(m.items) \in Nat
  BY <1>m, LenProperties DEF LaidOut, PagerType
<1>3. CASE ToJournal(m, p)
  <2>1. Record(p, h.data) \in RecordType
    BY <1>h, Items DEF PgHdr
  <2>2. /\ Len(n.items) = Len(m.items) + 1
        /\ Shape(n.items, safe, n.pager.journalHdr, n.pager.origDbSize, level)
    BY <1>m, <1>1, <1>2, <1>3, <2>1, AppendRecord
  <2>3. n.pager.nRec = Len(n.items) - n.pager.journalHdr
    BY <1>1, <1>2, <1>3, <2>2, Z3
  <2>4. p \in 1..m.pager.origDbSize
    BY <1>2, <1>3, PageOne DEF ToJournal, Page
  <2>5. n.pager.aInJournal \subseteq 1..n.pager.origDbSize
    BY <1>1, <1>2, <1>3, <2>4
  <2>6. QED
    BY <1>1, <2>2, <2>3, <2>5 DEF LaidOut
<1>4. CASE ~ToJournal(m, p)
  <2>1. /\ n.items = m.items /\ n.pager.nRec = m.pager.nRec
        /\ n.pager.aInJournal = m.pager.aInJournal
    BY <1>1, <1>4
  <2>2. QED
    BY <1>1, <1>2, <2>1 DEF LaidOut
<1>5. QED
  BY <1>3, <1>4

LEMMA DontWriteLaid ==
  ASSUME file \in DatabaseType, NEW m, NEW safe \in Nat, LaidOut(m, safe, level), NEW p \in Page,
         NEW n, n = DontWrite(m, p)
  PROVE  LaidOut(n, safe, level)
<1>1. MemoryType(m)
  BY DEF LaidOut
<1>2. MemoryType(n) /\ n.items = m.items /\ n.pager = m.pager
  BY <1>1, DontWriteFields DEF NotWritten
<1>3. QED
  BY <1>2 DEF LaidOut

LEMMA DontRollbackLaid ==
  ASSUME file \in DatabaseType, NEW m, NEW safe \in Nat, LaidOut(m, safe, level), NEW p \in Page,
         NEW n, n = DontRollback(m, p)
  PROVE  LaidOut(n, safe, level)
<1>m. MemoryType(m) /\ m.pager \in PagerType
  BY DEF LaidOut, MemoryType
<1>1. CASE n = m
  BY <1>1
<1>2. CASE n # m
  <2>0. PICK h : h = Get(m, p)
    OBVIOUS
  <2>w. NotRolledBack(m, p, n, h)
    BY <1>m, <1>2, <2>0, DontRollbackFields
  <2>1. /\ MemoryType(n) /\ n.items = m.items
        /\ n.pager = [m.pager EXCEPT !.aInJournal = n.pager.aInJournal]
        /\ n.pager.aInJournal = IF ToJournal(m, p) THEN m.pager.aInJournal \cup {p}
                                ELSE m.pager.aInJournal
    BY <2>w DEF NotRolledBack
  <2>2. /\ n.pager.origDbSize = m.pager.origDbSize /\ n.pager.journalHdr = m.pager.journalHdr
        /\ n.pager.nRec = m.pager.nRec
    BY <1>m, <2>1 DEF PagerType
  <2>3. ToJournal(m, p) => p \in 1..m.pager.origDbSize
    BY <1>m, PageOne DEF ToJournal, PagerType, Page
  <2>4. n.pager.aInJournal \subseteq 1..n.pager.origDbSize
    BY <2>1, <2>2, <2>3 DEF LaidOut
  <2>5. QED
    BY <2>1, <2>2, <2>4 DEF LaidOut
<1>3. QED
  BY <1>1, <1>2

----------------------------------------------------------------------------
\* Every step keeps types and layout.

LEMMA EmptyTypes ==
  /\ \A size \in 0..MaxPage : Closed(size) \in PagerType /\ Closed(size).aInJournal = {}
  /\ NoStmt \in StmtType /\ Absent \in PgHdr /\ NoCache \in [Page -> PgHdr] /\ Calm \in WildType
  /\ NotGone \in [jrnl : JournalType, to : DatabaseType] /\ NotGone.jrnl = NoJournal
<1>1. Absent \in PgHdr
  BY Contents DEF Absent, PgHdr
<1>2. \A size \in 0..MaxPage : Closed(size) \in PagerType /\ Closed(size).aInJournal = {}
  BY PageOne DEF Closed, PagerType
<1>3. NoStmt \in StmtType
  BY PageOne DEF NoStmt, StmtType
<1>4. NotGone \in [jrnl : JournalType, to : DatabaseType] /\ NotGone.jrnl = NoJournal
  BY Contents, NoJournalSound, PageOne DEF NotGone
<1>5. QED
  BY <1>1, <1>2, <1>3, <1>4 DEF NoCache, Calm, WildType

\* The initial journal is laid out well.
LEMMA LayInit == JournalInit => LayInv
<1> SUFFICES ASSUME JournalInit PROVE LayInv
  OBVIOUS
<1>1. PICK size \in Sizes, free \in SUBSET Page :
        file = [size |-> size, page |-> [p \in Page |-> IF p = 1 /\ size > 0
                                                       THEN [n |-> 0, free |-> free] ELSE Zero]]
  <2>1. PICK size \in Sizes : \E free \in SUBSET {p \in Page : 1 < p /\ p <= size} :
          file = [size |-> size, page |-> [p \in Page |-> IF p = 1 /\ size > 0
                                                         THEN [n |-> 0, free |-> free] ELSE Zero]]
    BY DEF JournalInit
  <2>2. QED
    BY <2>1
<1>2. size \in 0..MaxPage
  BY JournalBounds
<1>3. [n |-> 0, free |-> free] \in Cont
  BY DEF Cont, Number
<1>4. file \in DatabaseType
  BY <1>1, <1>2, <1>3, Contents
<1>5. /\ level \in Levels /\ at = "idle" /\ job = 0 /\ unsettled = FALSE
      /\ wild = Calm /\ jrnl = NoJournal /\ gone = NotGone /\ pager = Closed(file.size)
      /\ stmt = NoStmt /\ pg = NoCache /\ expect = file /\ base = file /\ saved = file
  BY DEF JournalInit
<1>6. file.size \in 0..MaxPage
  BY <1>4, Contents
<1>7. /\ wild \in WildType /\ jrnl \in JournalType /\ jrnl.safe <= Len(jrnl.items)
      /\ gone \in [jrnl : JournalType, to : DatabaseType] /\ gone.jrnl.safe <= Len(gone.jrnl.items)
      /\ Sound(jrnl, level) /\ Sound(gone.jrnl, level)
  BY <1>5, EmptyTypes, NoJournalSound
<1>8. MemoryType(Memory) /\ pager.aInJournal \subseteq 1..pager.origDbSize
  BY <1>5, <1>6, EmptyTypes, NoJournalSound, MemoryFields DEF MemoryType, JournalType
<1>9. TypeInv
  BY <1>4, <1>5, <1>7, <1>8 DEF TypeInv
<1>10. LayoutInv
  BY <1>5, <1>7 DEF LayoutInv, InTxn
<1>11. QED
  BY <1>9, <1>10 DEF LayInv

LEMMA JournalSound ==
  ASSUME LayInv
  PROVE  Sound(jrnl, level)
<1>1. CASE InTxn
  BY <1>1, ShapeSound, MemoryFields DEF LayInv, LayoutInv, LaidOut, TypeInv
<1>2. CASE ~InTxn
  BY <1>2 DEF LayInv, LayoutInv
<1>3. QED
  BY <1>1, <1>2

LEMMA ExpectingFields ==
  ASSUME TypeInv, NEW size \in 0..MaxPage, NEW free \in SUBSET Page, NEW p \in Page, NEW c \in Cont,
         Expecting(size, free, p, c)
  PROVE  /\ expect' \in DatabaseType /\ expect'.size = size /\ expect'.page[p] = c
         /\ \A q \in Page : q # p => expect'.page[q] = IF q = 1 THEN [expect.page[1] EXCEPT !.free = free]
                                                       ELSE expect.page[q]
<1>1. expect.page \in [Page -> Cont]
  BY Contents DEF TypeInv
<1>2. [expect.page[1] EXCEPT !.free = free] \in Cont
  BY <1>1, PageOne DEF Cont
<1> DEFINE f == [q \in Page |-> IF q = p THEN c ELSE IF q = 1 THEN [expect.page[1] EXCEPT !.free = free]
                               ELSE expect.page[q]]
<1>3. f \in [Page -> Cont]
  BY <1>1, <1>2
<1>4. expect' = [size |-> size, page |-> f]
  BY DEF Expecting
<1>5. QED
  BY <1>3, <1>4, Contents

\* A step within the transaction that changes the memory and grows the journal.
LEMMA RecallLaid ==
  ASSUME LayInv, at = "txn", NEW n, LaidOut(n, jrnl.safe, level), Recall(n),
         UNCHANGED <<level, file, wild, gone, base, saved, unsettled>>,
         at' \in {"txn", "sync", "store"}, job' \in {0} \cup Page, expect' \in DatabaseType
  PROVE  LayInv'
<1>1. /\ pager' = n.pager /\ stmt' = n.stmt /\ pg' = n.pg /\ jrnl' = [jrnl EXCEPT !.items = n.items]
  BY DEF Recall
<1>2. MemoryType(n) /\ n.items \in Seq(Item) /\ n.pager.aInJournal \subseteq 1..n.pager.origDbSize
      /\ jrnl.safe <= Len(n.items)
  BY DEF LaidOut, MemoryType, Shape
<1>3. jrnl' \in JournalType /\ jrnl'.items = n.items /\ jrnl'.safe = jrnl.safe /\ jrnl'.exists = jrnl.exists
  BY <1>1, <1>2 DEF LayInv, TypeInv, JournalType
<1>4. /\ MemoryType(Memory') /\ LaidOut(Memory', jrnl'.safe, level)
  BY <1>1, <1>2, <1>3, MemoryFields DEF LaidOut, MemoryType
<1>5. TypeInv'
  BY <1>1, <1>2, <1>3, <1>4, MemoryFields DEF LayInv, TypeInv, TxnStates, MemoryType
<1>6. LayoutInv'
  BY <1>3, <1>4 DEF LayInv, LayoutInv, InTxn, Counting
<1>7. QED
  BY <1>5, <1>6 DEF LayInv

\* A step that leaves the journal alone.
LEMMA QuietLaid ==
  ASSUME LayInv, UNCHANGED <<level, jrnl>>, gone' = gone \/ gone' = NotGone,
         pager' \in PagerType, pager'.aInJournal = pager.aInJournal, pager'.nRec = pager.nRec,
         pager'.origDbSize = pager.origDbSize, pager'.journalHdr = pager.journalHdr,
         \/ at' = at
         \/ at \in TxnStates /\ at' \in {"txn", "sync", "store", "stored", "synced"}
         \/ at' \in {"idle", "played", "down", "stuck"} /\ (level = "full" => at' # "stuck"),
         file' \in DatabaseType, wild' \in WildType, stmt' \in StmtType, pg' \in [Page -> PgHdr],
         job' \in {0} \cup Page, job' = job \/ at' # "spill", unsettled' \in BOOLEAN,
         expect' \in DatabaseType, base' \in DatabaseType, saved' \in DatabaseType
  PROVE  LayInv'
<1>1. MemoryType(Memory')
  BY MemoryFields DEF LayInv, TypeInv, MemoryType
<1>0. /\ gone' \in [jrnl : JournalType, to : DatabaseType] /\ gone'.jrnl.safe <= Len(gone'.jrnl.items)
      /\ Sound(gone'.jrnl, level)
  BY EmptyTypes, NoJournalSound DEF LayInv, TypeInv, LayoutInv
<1>2. TypeInv'
  BY <1>0, <1>1, MemoryFields DEF LayInv, TypeInv, MemoryType, TxnStates
<1>3. InTxn => LaidOut(Memory', jrnl.safe, level)
  BY <1>1, MemoryFields DEF LayInv, LayoutInv, LaidOut
<1>4. Sound(jrnl, level)
  BY JournalSound
<1>5. (level = "full" => at # "stuck")
      /\ (InTxn => jrnl.exists /\ Counting)
  BY DEF LayInv, LayoutInv
<1>6. LayoutInv'
  BY <1>0, <1>3, <1>4, <1>5 DEF LayoutInv, InTxn, Counting, TxnStates
<1>7. QED
  BY <1>2, <1>6 DEF LayInv

LEMMA UnwritelockLaid ==
  ASSUME LayInv, NEW to \in DatabaseType, NEW cache \in [Page -> PgHdr], Unwritelock(to, cache),
         level' = level, file' \in DatabaseType, wild' \in WildType, expect' \in DatabaseType,
         unsettled' \in BOOLEAN
  PROVE  LayInv'
<1>1. /\ jrnl' = NoJournal /\ gone' = [jrnl |-> jrnl, to |-> to] /\ pager' = Closed(file.size)
      /\ stmt' = NoStmt /\ pg' = cache /\ at' = "idle" /\ job' = 0 /\ base' = expect' /\ saved' = expect'
  BY DEF Unwritelock
<1>2. file.size \in 0..MaxPage
  BY Contents DEF LayInv, TypeInv
<1>3. MemoryType(Memory') /\ pager'.aInJournal = {}
  BY <1>1, <1>2, EmptyTypes, NoJournalSound, MemoryFields DEF MemoryType, JournalType
<1>4. TypeInv'
  BY <1>1, <1>3, NoJournalSound, MemoryFields DEF LayInv, TypeInv, MemoryType
<1>5. Sound(jrnl, level)
  BY JournalSound
<1>6. LayoutInv'
  BY <1>1, <1>5, NoJournalSound DEF LayoutInv, InTxn
<1>7. QED
  BY <1>4, <1>6 DEF LayInv

LEMMA FallsLaid ==
  ASSUME LayInv, Falls, file' \in DatabaseType, wild' \in WildType, expect' \in DatabaseType,
         unsettled' \in BOOLEAN, jrnl' \in JournalType, jrnl'.safe <= Len(jrnl'.items),
         Sound(jrnl', level), gone' = gone \/ gone' = NotGone
  PROVE  LayInv'
<1>1. /\ at' = "down" /\ job' = 0 /\ stmt' = NoStmt /\ pg' = NoCache /\ pager' = Closed(file'.size)
      /\ base' = expect' /\ saved' = expect' /\ level' = level
  BY DEF Falls
<1>2. file'.size \in 0..MaxPage
  BY Contents
<1>3. MemoryType(Memory') /\ pager'.aInJournal = {}
  BY <1>1, <1>2, EmptyTypes, MemoryFields DEF MemoryType, JournalType
<1>4. /\ gone' \in [jrnl : JournalType, to : DatabaseType] /\ gone'.jrnl.safe <= Len(gone'.jrnl.items)
      /\ Sound(gone'.jrnl, level)
  BY EmptyTypes, NoJournalSound DEF LayInv, TypeInv, LayoutInv
<1>5. TypeInv'
  BY <1>1, <1>3, <1>4, MemoryFields DEF LayInv, TypeInv, MemoryType
<1>6. LayoutInv'
  BY <1>1, <1>4 DEF LayoutInv, InTxn
<1>7. QED
  BY <1>5, <1>6 DEF LayInv

LEMMA BeginLaid == LayInv /\ Begin => LayInv'
<1> SUFFICES ASSUME LayInv, Begin PROVE LayInv'
  OBVIOUS
<1> DEFINE opened == [pager |-> [Closed(pager.dbSize) EXCEPT
                                   !.state = "RESERVED", !.origDbSize = pager.dbSize,
                                   !.journalHdr = 1],
                      stmt |-> NoStmt, pg |-> [pg EXCEPT ![1] = Loaded(1)],
                      items |-> <<Header(pager.dbSize)>>]
           m == IF pager.dbSize = 0 THEN Write(opened, 1, Zero) ELSE opened
<1>1. /\ at = "idle" /\ pager' = m.pager /\ stmt' = m.stmt /\ pg' = m.pg
      /\ jrnl' = [exists |-> TRUE, items |-> m.items, safe |-> 0, named |-> FALSE]
      /\ expect' = [expect EXCEPT !.size = m.pager.dbSize]
      /\ at' = "txn" /\ base' = expect /\ saved' = expect
      /\ UNCHANGED <<level, file, wild, gone, job, unsettled>>
  BY DEF Begin
<1>2. pager.dbSize \in 0..MaxPage /\ file \in DatabaseType /\ expect \in DatabaseType /\ pg \in [Page -> PgHdr]
  BY MemoryFields DEF LayInv, TypeInv, MemoryType, PagerType
<1>3. /\ opened.pager \in PagerType /\ opened.pager.aInJournal = {} /\ opened.pager.nRec = 0
      /\ opened.pager.journalHdr = 1 /\ opened.pager.origDbSize = pager.dbSize
      /\ opened.stmt \in StmtType /\ opened.pg \in [Page -> PgHdr]
      /\ opened.items = <<Header(pager.dbSize)>>
  BY <1>2, EmptyTypes, LoadedType, PageOne DEF LayInv, Closed, PagerType
<1>4. /\ opened.items \in Seq(Item) /\ Len(opened.items) = 1 /\ opened.items[1] = Header(pager.dbSize)
  BY <1>2, <1>3, Items, OneSeq
<1> HIDE DEF opened
<1>5. Headers(opened.items) = {1}
  BY <1>2, <1>4, Items DEF Headers
<1>6. Shape(opened.items, 0, 1, pager.dbSize, level)
  <2>1. /\ opened.items[1].nRec = 0 /\ opened.items[1].was = 0
        /\ opened.items[1].size = pager.dbSize /\ opened.items[1].type = "header"
    BY <1>2, <1>4, Items
  <2>2. QED
    BY <1>4, <1>5, <2>1 DEF Shape
<1>7. LaidOut(opened, 0, level)
  BY <1>3, <1>4, <1>6 DEF LaidOut, MemoryType
<1>8. LaidOut(m, 0, level)
  BY <1>2, <1>7, WriteLaid, PageOne, Contents
<1> HIDE DEF m
<1>9. MemoryType(m) /\ m.pager \in PagerType /\ m.items \in Seq(Item) /\ 0 <= Len(m.items)
  BY <1>8, LenProperties DEF LaidOut, MemoryType
<1>10. /\ jrnl' \in JournalType /\ jrnl'.safe = 0 /\ jrnl'.exists /\ jrnl'.items = m.items
  BY <1>1, <1>9 DEF JournalType
<1>11. MemoryType(Memory') /\ LaidOut(Memory', 0, level)
  BY <1>1, <1>8, <1>9, <1>10, MemoryFields DEF LaidOut, MemoryType
<1>12. expect' \in DatabaseType
  BY <1>1, <1>2, <1>9, Contents DEF PagerType
<1>13. TypeInv'
  BY <1>1, <1>8, <1>9, <1>10, <1>11, <1>12, MemoryFields DEF LayInv, TypeInv, TxnStates, LaidOut
<1>14. LayoutInv'
  BY <1>1, <1>10, <1>11 DEF LayInv, LayoutInv, InTxn, Counting
<1>15. QED
  BY <1>13, <1>14 DEF LayInv

LEMMA Typed ==
  ASSUME LayInv
  PROVE  /\ file \in DatabaseType /\ wild \in WildType /\ jrnl \in JournalType
         /\ pager \in PagerType /\ stmt \in StmtType /\ pg \in [Page -> PgHdr] /\ jrnl.items \in Seq(Item)
         /\ expect \in DatabaseType /\ base \in DatabaseType /\ saved \in DatabaseType
         /\ job \in {0} \cup Page /\ unsettled \in BOOLEAN /\ level \in Levels
         /\ jrnl.safe \in Nat /\ jrnl.safe <= Len(jrnl.items) /\ Len(jrnl.items) \in Nat
         /\ pager.dbSize \in 0..MaxPage /\ file.size \in 0..MaxPage
         /\ gone \in [jrnl : JournalType, to : DatabaseType] /\ gone.jrnl.safe <= Len(gone.jrnl.items)
         /\ Sound(gone.jrnl, level) /\ MemoryType(Memory)
  BY MemoryFields, Contents, LenProperties DEF LayInv, LayoutInv, TypeInv, MemoryType, JournalType, PagerType

LEMMA StmtBeginLaid == LayInv /\ StmtBegin => LayInv'
<1> SUFFICES ASSUME LayInv, StmtBegin PROVE LayInv'
  OBVIOUS
<1>1. stmt' = [NoStmt EXCEPT !.inUse = TRUE, !.size = pager.dbSize, !.from = Len(jrnl.items)]
  BY DEF StmtBegin
<1>2. stmt' \in StmtType
  BY <1>1, Typed, EmptyTypes DEF StmtType
<1>3. QED
  BY <1>2, Typed, QuietLaid DEF StmtBegin, diskVars

LEMMA CommittedFields ==
  ASSUME NEW cache \in [Page -> PgHdr], NEW n, n = Committed(cache)
  PROVE  /\ n \in [Page -> PgHdr]
         /\ \A p \in Page : n[p] = [cache[p] EXCEPT !.inStmt = FALSE]
         /\ \A p \in Page : /\ n[p].in = cache[p].in /\ n[p].data = cache[p].data
                            /\ n[p].dirty = cache[p].dirty /\ n[p].inJournal = cache[p].inJournal
                            /\ n[p].needSync = cache[p].needSync /\ ~n[p].inStmt
                            /\ n[p].alwaysRollback = cache[p].alwaysRollback
  BY DEF Committed, PgHdr

LEMMA StmtCommitLaid == LayInv /\ StmtCommit => LayInv'
  BY Typed, EmptyTypes, CommittedFields, QuietLaid DEF StmtCommit, diskVars

LEMMA StmtItemsType ==
  ASSUME LayInv
  PROVE  /\ StmtItems \in Seq(Item)
         /\ \A p \in Page : StmtRecord(StmtItems, p) # {} =>
              LET i == Max(StmtRecord(StmtItems, p)) IN
                /\ i \in StmtRecord(StmtItems, p) /\ i \in 1..Len(StmtItems)
                /\ \A k \in StmtRecord(StmtItems, p) : k <= i
                /\ StmtItems[i] \in RecordType
<1>1. stmt.recs \in Seq(Item) /\ stmt.from \in Nat /\ jrnl.items \in Seq(Item) /\ Len(jrnl.items) \in Nat
  BY Typed DEF StmtType
<1>2. SubSeq(jrnl.items, stmt.from + 1, Len(jrnl.items)) \in Seq(Item)
  BY <1>1, SubSeqProperties
<1>3. StmtItems \in Seq(Item)
  BY <1>1, <1>2, ConcatProperties DEF StmtItems
<1>4. ASSUME NEW p \in Page, StmtRecord(StmtItems, p) # {}
      PROVE  LET i == Max(StmtRecord(StmtItems, p)) IN
                /\ i \in StmtRecord(StmtItems, p) /\ i \in 1..Len(StmtItems)
                /\ \A k \in StmtRecord(StmtItems, p) : k <= i
                /\ StmtItems[i] \in RecordType
  <2>1. StmtRecord(StmtItems, p) \subseteq 1..Len(StmtItems) /\ Len(StmtItems) \in Nat
    BY <1>3, LenProperties DEF StmtRecord
  <2>2. StmtRecord(StmtItems, p) \in SUBSET (0..Len(StmtItems))
    BY <2>1
  <2> DEFINE i == Max(StmtRecord(StmtItems, p))
  <2>3. i \in StmtRecord(StmtItems, p) /\ \A k \in StmtRecord(StmtItems, p) : k <= i
    BY <1>4, <2>1, <2>2, MaxIn
  <2> HIDE DEF i
  <2>4. StmtItems[i].type = "record" /\ i \in 1..Len(StmtItems)
    BY <2>3 DEF StmtRecord
  <2>5. StmtItems[i] \in RecordType
    BY <1>3, <2>4, ItemAt, ItemTypes
  <2>6. QED
    BY <2>3, <2>4, <2>5 DEF i
<1>5. QED
  BY <1>3, <1>4

\* Statement rollback, page by page.
StmtHit(p) == StmtRecord(StmtItems, p) # {}
StmtWas(p) == StmtItems[Max(StmtRecord(StmtItems, p))].data
StmtStore(p) == pager.state = "EXCLUSIVE" /\ StmtHit(p) /\ ~Unsynced(p)
StmtCut == IF pager.state = "EXCLUSIVE" THEN Cut(file, stmt.size) ELSE file
StmtFile == [size |-> Max({StmtCut.size} \cup {p \in Page : StmtStore(p)}),
             page |-> [p \in Page |-> IF StmtStore(p) THEN StmtWas(p) ELSE StmtCut.page[p]]]
StmtCache == [p \in Page |-> IF pg[p].in /\ StmtHit(p)
                             THEN [pg[p] EXCEPT !.data = StmtWas(p), !.dirty = @ /\ ~StmtStore(p)]
                             ELSE pg[p]]

LEMMA StmtRollbackFields ==
  ASSUME LayInv, StmtRollback
  PROVE  /\ StmtCut \in DatabaseType /\ StmtFile \in DatabaseType /\ StmtCache \in [Page -> PgHdr]
         /\ StmtFile.size \in {StmtCut.size} \cup {p \in Page : StmtStore(p)}
         /\ StmtFile.size >= StmtCut.size /\ \A p \in Page : StmtStore(p) => StmtFile.size >= p
         /\ \A p \in Page : StmtHit(p) => StmtWas(p) \in Cont
         /\ \A p \in Page : StmtFile.page[p] = IF StmtStore(p) THEN StmtWas(p) ELSE StmtCut.page[p]
         /\ Writes(StmtFile) /\ pg' = Committed(StmtCache)
         /\ at = "txn" /\ stmt.inUse /\ pager' = [pager EXCEPT !.dbSize = stmt.size]
         /\ stmt' = NoStmt /\ expect' = saved /\ saved' = base
         /\ UNCHANGED <<level, jrnl, gone, at, job, base, unsettled, left>>
<1>1. /\ stmt.size \in 0..MaxPage /\ pg \in [Page -> PgHdr] /\ file \in DatabaseType
  BY Typed DEF StmtType
<1>2. StmtCut \in DatabaseType
  BY <1>1, CutFields DEF StmtCut
<1>3. \A p \in Page : StmtHit(p) => StmtWas(p) \in Cont
  <2> SUFFICES ASSUME NEW p \in Page, StmtHit(p) PROVE StmtWas(p) \in Cont
    OBVIOUS
  <2>1. StmtItems[Max(StmtRecord(StmtItems, p))] \in RecordType
    BY StmtItemsType DEF StmtHit
  <2>2. QED
    BY <2>1 DEF StmtWas, RecordType
<1> DEFINE S == {StmtCut.size} \cup {p \in Page : StmtStore(p)}
<1>4. StmtCut.size \in 0..MaxPage /\ StmtCut.page \in [Page -> Cont]
  BY <1>2, Contents
<1>5. S \in SUBSET (0..MaxPage) /\ S # {}
  BY <1>4 DEF Page
<1>6. Max(S) \in S /\ \A y \in S : y <= Max(S)
  BY <1>5, MaxIn, PageOne
<1>7. StmtFile.size = Max(S)
  BY DEF StmtFile
<1>8. [p \in Page |-> IF StmtStore(p) THEN StmtWas(p) ELSE StmtCut.page[p]] \in [Page -> Cont]
  BY <1>3, <1>4 DEF StmtStore
<1>9. StmtFile \in DatabaseType
  BY <1>5, <1>6, <1>8, Contents DEF StmtFile
<1>10. StmtCache \in [Page -> PgHdr]
  <2>1. ASSUME NEW p \in Page, pg[p].in, StmtHit(p)
        PROVE  [pg[p] EXCEPT !.data = StmtWas(p), !.dirty = @ /\ ~StmtStore(p)] \in PgHdr
    <3>1. pg[p] \in PgHdr /\ StmtWas(p) \in Cont /\ (pg[p].dirty /\ ~StmtStore(p)) \in BOOLEAN
      BY <1>1, <1>3, <2>1 DEF PgHdr
    <3>2. QED
      BY <3>1 DEF PgHdr
  <2>2. QED
    BY <1>1, <2>1 DEF StmtCache
<1>11. Writes(StmtFile) /\ pg' = Committed(StmtCache)
  BY Zenon DEF StmtRollback, StmtFile, StmtCache, StmtStore, StmtWas, StmtHit, StmtCut
<1>12. \A p \in Page : StmtFile.page[p] = IF StmtStore(p) THEN StmtWas(p) ELSE StmtCut.page[p]
  BY DEF StmtFile
<1>13. QED
  BY <1>2, <1>3, <1>5, <1>6, <1>7, <1>9, <1>10, <1>11, <1>12, <1>4 DEF StmtRollback

LEMMA StmtRollbackLaid == LayInv /\ StmtRollback => LayInv'
<1> SUFFICES ASSUME LayInv, StmtRollback PROVE LayInv'
  OBVIOUS
<1>1. /\ StmtFile \in DatabaseType /\ StmtCache \in [Page -> PgHdr] /\ Writes(StmtFile)
      /\ pg' = Committed(StmtCache) /\ pager' = [pager EXCEPT !.dbSize = stmt.size]
      /\ stmt' = NoStmt /\ expect' = saved /\ saved' = base
      /\ UNCHANGED <<level, jrnl, gone, at, job, base, unsettled, left>>
  BY StmtRollbackFields
<1>2. file' \in DatabaseType /\ wild' \in WildType
  BY <1>1, Typed, WritesFields
<1>3. pg' \in [Page -> PgHdr]
  BY <1>1, CommittedFields
<1>4. /\ pager' \in PagerType /\ pager'.aInJournal = pager.aInJournal /\ pager'.nRec = pager.nRec
      /\ pager'.origDbSize = pager.origDbSize /\ pager'.journalHdr = pager.journalHdr
  BY <1>1, Typed DEF PagerType, StmtType
<1>5. QED
  BY <1>1, <1>2, <1>3, <1>4, Typed, EmptyTypes, QuietLaid

LEMMA LaidMemory == LayInv /\ at = "txn" => LaidOut(Memory, jrnl.safe, level) /\ Free \in SUBSET Page
  BY LoadedType DEF LayInv, LayoutInv, InTxn

LEMMA ModifyLaid == ASSUME LayInv, NEW p \in Page, Modify(p) PROVE LayInv'
<1> DEFINE c == Content(p, IF Loaded(p).data.n = 1 THEN 2 ELSE 1)
<1>1. at = "txn" /\ Recall(Write(Memory, p, c)) /\ Expecting(pager.dbSize, Free, p, c)
      /\ UNCHANGED <<level, file, wild, gone, at, job, base, saved, unsettled>>
  BY DEF Modify, Change
<1>2. c \in Cont
  BY LoadedType DEF LayInv, Number
<1>3. LaidOut(Write(Memory, p, c), jrnl.safe, level)
  BY <1>1, <1>2, LaidMemory, WriteLaid, Typed
<1>4. expect' \in DatabaseType
  BY <1>1, <1>2, LaidMemory, Typed, ExpectingFields DEF LayInv
<1>5. QED
  BY <1>1, <1>3, <1>4, Typed, RecallLaid

LEMMA ExtendLaid == LayInv /\ Extend => LayInv'
<1> SUFFICES ASSUME LayInv, Extend PROVE LayInv'
  OBVIOUS
<1> DEFINE p == pager.dbSize + 1
           c == Content(p, 1)
<1>1. at = "txn" /\ Recall(Write(Memory, p, c)) /\ Expecting(p, Free, p, c) /\ p \in Page
      /\ UNCHANGED <<level, file, wild, gone, at, job, base, saved, unsettled>>
  BY DEF Extend, Change
<1>2. c \in Cont /\ p \in 0..MaxPage
  BY <1>1, LoadedType DEF LayInv, Number, Page
<1> HIDE DEF p, c
<1>3. LaidOut(Write(Memory, p, c), jrnl.safe, level)
  BY <1>1, <1>2, LaidMemory, WriteLaid, Typed
<1>4. expect' \in DatabaseType
  BY <1>1, <1>2, LaidMemory, Typed, ExpectingFields DEF LayInv
<1>5. QED
  BY <1>1, <1>3, <1>4, Typed, RecallLaid

LEMMA FreePageLaid == ASSUME LayInv, NEW p \in Page, FreePage(p) PROVE LayInv'
<1> DEFINE m == Write(Memory, 1, List(Free \cup {p}))
<1>1. at = "txn" /\ Recall(DontWrite(m, p)) /\ Expecting(pager.dbSize, Free \cup {p}, p, Zero)
      /\ UNCHANGED <<level, file, wild, gone, at, job, base, saved, unsettled>>
  BY DEF FreePage, Change
<1>2. Free \cup {p} \in SUBSET Page /\ List(Free \cup {p}) \in Cont
  BY LoadedType DEF LayInv
<1>3. LaidOut(m, jrnl.safe, level)
  BY <1>1, <1>2, LaidMemory, WriteLaid, Typed, PageOne
<1> HIDE DEF m
<1>4. LaidOut(DontWrite(m, p), jrnl.safe, level)
  BY <1>3, DontWriteLaid, Typed
<1>5. expect' \in DatabaseType
  BY <1>1, <1>2, Typed, ExpectingFields, Contents DEF LayInv
<1>6. QED
  BY <1>1, <1>4, <1>5, Typed, RecallLaid

LEMMA ReusePageLaid == ASSUME LayInv, NEW p \in Page, ReusePage(p) PROVE LayInv'
<1> DEFINE m == Write(Memory, 1, List(Free \ {p}))
           n == DontRollback(m, p)
           c == Content(p, 1)
<1>1. at = "txn" /\ Recall(Write(n, p, c)) /\ Expecting(pager.dbSize, Free \ {p}, p, c)
      /\ UNCHANGED <<level, file, wild, gone, at, job, base, saved, unsettled>>
  BY DEF ReusePage, Change
<1>2. Free \ {p} \in SUBSET Page /\ List(Free \ {p}) \in Cont /\ c \in Cont
  BY LoadedType DEF LayInv, Number
<1> HIDE DEF c
<1>3. LaidOut(m, jrnl.safe, level)
  BY <1>1, <1>2, LaidMemory, WriteLaid, Typed, PageOne
<1> HIDE DEF m
<1>4. LaidOut(n, jrnl.safe, level)
  BY <1>3, DontRollbackLaid, Typed
<1> HIDE DEF n
<1>5. LaidOut(Write(n, p, c), jrnl.safe, level)
  BY <1>2, <1>4, WriteLaid, Typed
<1>6. expect' \in DatabaseType
  BY <1>1, <1>2, Typed, ExpectingFields DEF LayInv
<1>7. QED
  BY <1>1, <1>5, <1>6, Typed, RecallLaid

LEMMA CommitLaid == LayInv /\ Commit => LayInv'
<1> SUFFICES ASSUME LayInv, Commit PROVE LayInv'
  OBVIOUS
<1> DEFINE c == [Loaded(1).data EXCEPT !.n = (@ + 1) % 4]
           m == Write(Memory, 1, c)
<1>1. /\ at = "txn" /\ Recall(m) /\ Expecting(pager.dbSize, Free, 1, c) /\ job' = 0
      /\ at' = (IF m.pager.needSync THEN "sync" ELSE "store")
      /\ UNCHANGED <<level, file, wild, gone, base, saved, unsettled, left>>
  BY Zenon DEF Commit
<1>s. at' \in {"txn", "sync", "store"} /\ job' \in {0} \cup Page
  BY <1>1
<1>2. c \in Cont
  BY LoadedType, PageOne DEF LayInv, Cont, Number
<1> HIDE DEF c
<1>3. LaidOut(m, jrnl.safe, level)
  BY <1>1, <1>2, LaidMemory, WriteLaid, Typed, PageOne
<1> HIDE DEF m
<1>4. expect' \in DatabaseType
  BY <1>1, <1>2, LaidMemory, Typed, ExpectingFields, PageOne DEF LayInv
<1>5. QED
  BY <1>1, <1>s, <1>3, <1>4, RecallLaid

LEMMA ReadLaid == ASSUME LayInv, NEW p \in Page, Read(p) PROVE LayInv'
<1>1. pg' = [pg EXCEPT ![p] = Loaded(p)] /\ UNCHANGED <<level, diskVars, pager, stmt, at, job, history, left>>
  BY DEF Read
<1>2. pg' \in [Page -> PgHdr]
  BY <1>1, Typed, LoadedType DEF LayInv
<1>3. QED
  BY <1>1, <1>2, Typed, QuietLaid DEF diskVars, history

\* syncJournal: the count is written, then what counts is on the disk.
Count(items, H, k) == [items EXCEPT ![H].nRec = k]
LEMMA CountShape ==
  ASSUME NEW items \in Seq(Item), NEW safe \in Nat, NEW H, NEW size, Shape(items, safe, H, size, level),
         NEW k, k = Len(items) - H, NEW s, s = IF level = "full" THEN Len(items) ELSE safe,
         NEW n, n = Count(items, H, k)
  PROVE  /\ n \in Seq(Item) /\ Len(n) = Len(items) /\ Headers(n) = Headers(items) /\ k \in Nat
         /\ \A i \in 1..Len(items) : i # H => n[i] = items[i]
         /\ n[H] \in HeaderType /\ n[H].nRec = k /\ n[H].was = items[H].was /\ n[H].size = items[H].size
         /\ Shape(n, s, H, size, level) /\ s \in Nat /\ s >= safe
<1>1. /\ H \in Headers(items) /\ 1 \in Headers(items) /\ safe <= Len(items) /\ items[H].was <= items[H].nRec
      /\ items[H].nRec <= Len(items) - H /\ H - 1 <= safe
  BY DEF Shape
<1>2. /\ H \in 1..Len(items) /\ Len(items) \in Nat /\ items[H] \in HeaderType
      /\ items[H].nRec \in Nat /\ items[H].was \in Nat
  BY <1>1, HeaderAt
<1>3. k \in Nat /\ s \in Nat /\ s >= safe /\ s <= Len(items)
  BY <1>1, <1>2
<1> DEFINE h == [items[H] EXCEPT !.nRec = k]
<1>4. /\ h \in HeaderType /\ h.nRec = k /\ h.was = items[H].was /\ h.size = items[H].size
      /\ h.type = "header"
  BY <1>2, <1>3 DEF HeaderType
<1>5. n = [items EXCEPT ![H] = h]
  BY DEF Count
<1> HIDE DEF h
<1>6. h \in Item
  BY <1>4 DEF Item
<1>7. /\ n \in Seq(Item) /\ Len(n) = Len(items) /\ \A i \in 1..Len(items) : i # H => n[i] = items[i]
      /\ n[H] = h
  BY <1>2, <1>5, <1>6, ExceptSeq, SMTT(20)
<1>8. Headers(n) = Headers(items)
  <2>1. items[H].type = "header"
    BY <1>1 DEF Headers
  <2>2. QED
    BY <1>2, <1>4, <1>7, <2>1 DEF Headers
<1>9. Shape(n, s, H, size, level)
  <2>1. n[1].size = size
    BY <1>1, <1>2, <1>4, <1>7 DEF Shape
  <2>2. \A g \in Headers(n) : g <= H
    BY <1>8 DEF Shape
  <2>3. \A i \in 1..Len(n) : n[i].type # "scrap"
    BY <1>4, <1>7 DEF Shape
  <2>4. \A g \in Headers(n) : g < H =>
          /\ n[g].was = n[g].nRec /\ g + n[g].nRec + 1 \in Headers(n)
          /\ \A x \in (g + 1)..(g + n[g].nRec) : x \notin Headers(n)
    <3> SUFFICES ASSUME NEW g \in Headers(n), g < H
                 PROVE  /\ n[g].was = n[g].nRec /\ g + n[g].nRec + 1 \in Headers(n)
                        /\ \A x \in (g + 1)..(g + n[g].nRec) : x \notin Headers(n)
      OBVIOUS
    <3>1. g \in Headers(items) /\ g \in 1..Len(items) /\ n[g] = items[g]
      BY <1>2, <1>7, <1>8, HeaderAt
    <3>2. QED
      BY <1>8, <3>1 DEF Shape
  <2>5. /\ H - 1 <= s /\ s <= Len(n) /\ n[H].was <= n[H].nRec /\ n[H].nRec <= Len(n) - H
    BY <1>1, <1>2, <1>3, <1>4, <1>7
  <2>6. n[H].was = 0 \/ H + n[H].was <= s
    <3>1. items[H].was = 0 \/ H + items[H].was <= safe
      BY DEF Shape
    <3>2. QED
      BY <1>2, <1>3, <1>4, <1>7, <3>1
  <2>7. level = "full" => H + n[H].nRec <= s
    BY <1>2, <1>3, <1>4, <1>7
  <2>8. QED
    BY <1>1, <1>8, <2>1, <2>2, <2>3, <2>4, <2>5, <2>6, <2>7 DEF Shape
<1>10. QED
  BY <1>3, <1>4, <1>7, <1>8, <1>9

LEMMA SyncShape ==
  ASSUME NEW items \in Seq(Item), NEW safe \in Nat, NEW H, NEW size, Shape(items, safe, H, size, level),
         NEW n, n = [i \in 1..Len(items) |-> OnDisk(items[i])]
  PROVE  /\ n \in Seq(Item) /\ Len(n) = Len(items) /\ Headers(n) = Headers(items)
         /\ \A i \in 1..Len(items) : i \notin Headers(items) => n[i] = items[i]
         /\ \A g \in Headers(items) : /\ n[g] \in HeaderType /\ n[g].nRec = items[g].nRec
                                      /\ n[g].was = items[g].nRec /\ n[g].size = items[g].size
         /\ Shape(n, Len(n), H, size, level)
<1>1. Len(items) \in Nat /\ \A i \in 1..Len(items) : items[i] \in Item
  BY LenProperties, ItemAt
<1>2. \A i \in 1..Len(items) : items[i].type = "header" =>
        /\ OnDisk(items[i]) \in HeaderType /\ OnDisk(items[i]).nRec = items[i].nRec
        /\ OnDisk(items[i]).was = items[i].nRec /\ OnDisk(items[i]).size = items[i].size
  <2> SUFFICES ASSUME NEW i \in 1..Len(items), items[i].type = "header"
               PROVE  /\ OnDisk(items[i]) \in HeaderType /\ OnDisk(items[i]).nRec = items[i].nRec
                      /\ OnDisk(items[i]).was = items[i].nRec /\ OnDisk(items[i]).size = items[i].size
    OBVIOUS
  <2>1. items[i] \in HeaderType
    BY <1>1, ItemTypes
  <2>2. QED
    BY <2>1 DEF OnDisk, HeaderType
<1>3. \A i \in 1..Len(items) : items[i].type # "header" => OnDisk(items[i]) = items[i]
  BY DEF OnDisk
<1>4. \A i \in 1..Len(items) : OnDisk(items[i]) \in Item
  BY <1>1, <1>2, <1>3 DEF Item
<1>5. n \in Seq(Item) /\ Len(n) = Len(items) /\ \A i \in 1..Len(items) : n[i] = OnDisk(items[i])
  BY <1>1, <1>4
<1>6. \A i \in 1..Len(items) : n[i].type = items[i].type
  BY <1>2, <1>3, <1>5 DEF HeaderType
<1>7. Headers(n) = Headers(items)
  BY <1>5, <1>6 DEF Headers
<1>8. \A i \in 1..Len(items) : i \notin Headers(items) => n[i] = items[i]
  BY <1>3, <1>5 DEF Headers
<1>9. \A g \in Headers(items) : /\ n[g] \in HeaderType /\ n[g].nRec = items[g].nRec
                                /\ n[g].was = items[g].nRec /\ n[g].size = items[g].size
  BY <1>2, <1>5 DEF Headers
<1>10. Shape(n, Len(n), H, size, level)
  <2>1. /\ H \in Headers(items) /\ 1 \in Headers(items) /\ items[H].nRec <= Len(items) - H
        /\ H - 1 <= safe /\ safe <= Len(items) /\ items[1].size = size
        /\ \A h \in Headers(items) : h <= H
    BY DEF Shape
  <2>2. H \in 1..Len(items) /\ items[H].nRec \in Nat
    BY <2>1, HeaderAt
  <2>3. \A i \in 1..Len(n) : n[i].type # "scrap"
    BY <1>5, <1>6 DEF Shape
  <2>4. \A g \in Headers(n) : g < H =>
          /\ n[g].was = n[g].nRec /\ g + n[g].nRec + 1 \in Headers(n)
          /\ \A x \in (g + 1)..(g + n[g].nRec) : x \notin Headers(n)
    BY <1>7, <1>9 DEF Shape
  <2>5. /\ H - 1 <= Len(n) /\ n[H].was <= n[H].nRec /\ n[H].nRec <= Len(n) - H
        /\ H + n[H].was <= Len(n) /\ H + n[H].nRec <= Len(n)
    <3>1. n[H].nRec = items[H].nRec /\ n[H].was = items[H].nRec /\ Len(n) = Len(items)
      BY <1>5, <1>9, <2>1
    <3>2. QED
      BY <1>1, <2>1, <2>2, <3>1
  <2>6. 1 \in Headers(n) /\ n[1].size = size /\ H \in Headers(n) /\ \A h \in Headers(n) : h <= H
    BY <1>7, <1>9, <2>1
  <2>7. Len(n) \in Nat /\ Len(n) <= Len(n)
    BY <1>1, <1>5
  <2>8. QED
    BY <2>3, <2>4, <2>5, <2>6, <2>7 DEF Shape
<1>11. QED
  BY <1>5, <1>7, <1>8, <1>9, <1>10

\* A new header after the records of the last, which are all counted and on the disk.
Complete(items, safe, H) ==
  safe = Len(items) /\ items[H].was = items[H].nRec /\ items[H].nRec = Len(items) - H
WithHeader(items, d) == Append(items, Header(d))
LEMMA AppendHeader ==
  ASSUME NEW items \in Seq(Item), NEW safe \in Nat, NEW H \in Nat, NEW size, Shape(items, safe, H, size, level),
         Complete(items, safe, H), NEW d \in 0..MaxPage, NEW n, n = WithHeader(items, d)
  PROVE  /\ n \in Seq(Item) /\ Len(n) = safe + 1 /\ Headers(n) = Headers(items) \cup {safe + 1}
         /\ \A i \in 1..Len(items) : n[i] = items[i]
         /\ n[safe + 1] = Header(d)
         /\ Shape(n, safe, safe + 1, size, level)
<1> DEFINE G == Len(items) + 1
<1>0. safe = Len(items) /\ items[H].was = items[H].nRec /\ items[H].nRec = safe - H
  BY DEF Complete
<1>1. /\ n \in Seq(Item) /\ Len(n) = Len(items) + 1 /\ Len(items) \in Nat
      /\ \A i \in 1..Len(items) : n[i] = items[i]
      /\ n[Len(items) + 1] = Header(d)
  BY AppendSeq, LenProperties, Items DEF WithHeader
<1>2. /\ n[G].type = "header" /\ n[G].nRec = 0 /\ n[G].was = 0
  BY <1>0, <1>1, Items
<1>3. Headers(n) = Headers(items) \cup {G}
  BY <1>0, <1>1, <1>2 DEF Headers
<1>4. /\ H \in Headers(items) /\ 1 \in Headers(items) /\ items[1].size = size
      /\ \A h \in Headers(items) : h <= H
  BY DEF Shape
<1>5. \A h \in Headers(items) : h \in 1..Len(items) /\ n[h] = items[h] /\ items[h].nRec \in Nat
  BY <1>0, <1>1, HeaderAt
<1>6. \A i \in 1..Len(n) : n[i].type # "scrap"
  <2> SUFFICES ASSUME NEW i \in 1..Len(n) PROVE n[i].type # "scrap"
    OBVIOUS
  <2>1. CASE i \in 1..Len(items)
    BY <1>0, <1>1, <2>1 DEF Shape
  <2>2. CASE i = G
    BY <1>0, <1>2, <2>2
  <2>3. QED
    BY <1>0, <1>1, <2>1, <2>2
<1>7. ASSUME NEW g \in Headers(n), g < G
      PROVE  /\ n[g].was = n[g].nRec /\ g + n[g].nRec + 1 \in Headers(n)
             /\ \A x \in (g + 1)..(g + n[g].nRec) : x \notin Headers(n)
  <2>1. g \in Headers(items) /\ n[g] = items[g] /\ g \in 1..Len(items) /\ items[g].nRec \in Nat
    BY <1>0, <1>1, <1>3, <1>5, <1>7
  <2>2. CASE g = H
    <3>1. n[g].nRec = Len(items) - g /\ n[g].was = n[g].nRec
      BY <1>0, <2>1, <2>2
    <3>2. g + n[g].nRec = Len(items)
      BY <1>0, <1>1, <2>1, <3>1
    <3>3. \A x \in (g + 1)..Len(items) : x \notin Headers(n)
      BY <1>0, <1>1, <1>3, <1>4, <1>5, <2>1, <2>2
    <3>4. QED
      BY <1>0, <1>3, <3>1, <3>2, <3>3
  <2>3. CASE g # H
    <3>1. g < H /\ H \in 1..Len(items)
      BY <1>0, <1>4, <1>5, <2>1, <2>3
    <3>2. /\ items[g].was = items[g].nRec /\ g + items[g].nRec + 1 \in Headers(items)
          /\ \A x \in (g + 1)..(g + items[g].nRec) : x \notin Headers(items)
      BY <2>1, <3>1 DEF Shape
    <3>3. g + items[g].nRec + 1 <= Len(items)
      BY <3>2, <1>5
    <3>4. QED
      BY <1>0, <1>1, <1>3, <2>1, <3>2, <3>3
  <2>4. QED
    BY <2>2, <2>3
<1>8. \A h \in Headers(n) : h <= G
  BY <1>0, <1>1, <1>3, <1>5
<1>9. n[1].size = size /\ 1 \in Headers(n)
  BY <1>0, <1>3, <1>4, <1>5
<1>10. /\ G \in Headers(n) /\ G - 1 <= Len(items) /\ Len(items) <= Len(n)
       /\ n[G].was <= n[G].nRec /\ n[G].nRec <= Len(n) - G
  BY <1>0, <1>1, <1>2, <1>3
<1> HIDE DEF G
<1>12. Shape(n, safe, G, size, level)
  BY <1>0, <1>2, <1>6, <1>7, <1>8, <1>9, <1>10 DEF Shape
<1>13. QED
  BY <1>0, <1>1, <1>3, <1>12 DEF G

\* The journal and its header of an open transaction.
LEMMA OpenJournal ==
  ASSUME LayInv, InTxn
  PROVE  /\ jrnl.exists /\ Shape(jrnl.items, jrnl.safe, pager.journalHdr, pager.origDbSize, level)
         /\ pager.nRec = Len(jrnl.items) - pager.journalHdr /\ pager.journalHdr \in Headers(jrnl.items)
         /\ pager.journalHdr \in 1..Len(jrnl.items) /\ pager.aInJournal \subseteq 1..pager.origDbSize
         /\ Counting
<1>1. /\ jrnl.exists /\ Shape(jrnl.items, jrnl.safe, pager.journalHdr, pager.origDbSize, level)
      /\ pager.nRec = Len(jrnl.items) - pager.journalHdr /\ pager.aInJournal \subseteq 1..pager.origDbSize
      /\ Counting
  BY MemoryFields DEF LayInv, LayoutInv, LaidOut
<1>2. pager.journalHdr \in Headers(jrnl.items)
  BY <1>1 DEF Shape
<1>3. QED
  BY <1>1, <1>2, Typed, HeaderAt

\* A step within the transaction that gives the journal other items.
LEMMA JournalLaid ==
  ASSUME LayInv, InTxn, level' = level, at' \in TxnStates, job' \in {0} \cup Page,
         gone' = gone \/ gone' = NotGone,
         jrnl' \in JournalType, jrnl'.exists, jrnl'.safe <= Len(jrnl'.items),
         pager' \in PagerType, stmt' \in StmtType, pg' \in [Page -> PgHdr],
         pager'.aInJournal = pager.aInJournal, pager'.origDbSize = pager.origDbSize,
         Shape(jrnl'.items, jrnl'.safe, pager'.journalHdr, pager'.origDbSize, level),
         pager'.nRec = Len(jrnl'.items) - pager'.journalHdr,
         file' \in DatabaseType, wild' \in WildType, Counting',
         UNCHANGED <<expect, base, saved, unsettled>>
  PROVE  LayInv'
<1>1. pager.aInJournal \subseteq 1..pager.origDbSize
  BY OpenJournal
<1>2. MemoryType(Memory') /\ LaidOut(Memory', jrnl'.safe, level)
  BY <1>1, MemoryFields DEF MemoryType, LaidOut, JournalType
<1>3. /\ gone' \in [jrnl : JournalType, to : DatabaseType] /\ gone'.jrnl.safe <= Len(gone'.jrnl.items)
      /\ Sound(gone'.jrnl, level)
  BY EmptyTypes, NoJournalSound, Typed
<1>4. TypeInv'
  BY <1>1, <1>2, <1>3, Typed, MemoryFields DEF TypeInv
<1>5. LayoutInv'
  BY <1>2, <1>3 DEF LayoutInv, InTxn, TxnStates
<1>6. QED
  BY <1>4, <1>5 DEF LayInv

LEMMA CountRecordsFields ==
  ASSUME LayInv, InTxn, CountRecords
  PROVE  /\ jrnl' \in JournalType /\ jrnl'.exists /\ jrnl'.items = Count(jrnl.items, pager.journalHdr, pager.nRec)
         /\ jrnl'.safe = IF level = "full" THEN Len(jrnl.items) ELSE jrnl.safe
         /\ jrnl'.named = (jrnl.named \/ level = "full")
         /\ gone' = IF level = "full" THEN NotGone ELSE gone
         /\ at' = "counted" /\ UNCHANGED <<level, file, wild, pager, stmt, pg, history, left>>
         /\ Shape(jrnl'.items, jrnl'.safe, pager.journalHdr, pager.origDbSize, level)
         /\ Len(jrnl'.items) = Len(jrnl.items) /\ jrnl'.safe <= Len(jrnl.items)
         /\ Headers(jrnl'.items) = Headers(jrnl.items)
         /\ jrnl'.items[pager.journalHdr].nRec = pager.nRec
<1> DEFINE H == pager.journalHdr
           n == Count(jrnl.items, H, pager.nRec)
           s == IF level = "full" THEN Len(jrnl.items) ELSE jrnl.safe
<1>1. /\ jrnl.exists /\ Shape(jrnl.items, jrnl.safe, H, pager.origDbSize, level)
      /\ pager.nRec = Len(jrnl.items) - H
  BY OpenJournal
<1>2. jrnl.items \in Seq(Item) /\ jrnl.safe \in Nat /\ jrnl.safe <= Len(jrnl.items) /\ jrnl \in JournalType
  BY Typed
<1>3. /\ n \in Seq(Item) /\ Len(n) = Len(jrnl.items) /\ Headers(n) = Headers(jrnl.items)
      /\ n[H].nRec = pager.nRec
      /\ Shape(n, s, H, pager.origDbSize, level) /\ s \in Nat
  BY <1>1, <1>2, CountShape
<1>4. jrnl' = [jrnl EXCEPT !.items[pager.journalHdr].nRec = pager.nRec,
                           !.safe = IF level = "full" THEN Len(jrnl.items) ELSE @,
                           !.named = @ \/ (level = "full")]
      /\ gone' = (IF level = "full" THEN NotGone ELSE gone)
      /\ at' = "counted" /\ UNCHANGED <<level, file, wild, memVars, history, left>>
  BY Zenon DEF CountRecords
<1>5. jrnl' = [jrnl EXCEPT !.items = n, !.safe = s, !.named = jrnl.named \/ (level = "full")]
  BY <1>2, <1>4 DEF Count, JournalType
<1>6. s <= Len(jrnl.items)
  BY <1>2
<1> HIDE DEF n, s
<1>7. /\ jrnl' \in JournalType /\ jrnl'.exists = jrnl.exists /\ jrnl'.items = n /\ jrnl'.safe = s
      /\ jrnl'.named = (jrnl.named \/ level = "full")
  BY <1>2, <1>3, <1>5 DEF JournalType
<1>8. QED
  BY <1>1, <1>3, <1>4, <1>6, <1>7 DEF memVars, n, s

LEMMA CountRecordsLaid ==
  ASSUME LayInv, InTxn, CountRecords, job' \in {0} \cup Page
  PROVE  LayInv'
<1>1. /\ jrnl' \in JournalType /\ jrnl'.exists
      /\ gone' = (IF level = "full" THEN NotGone ELSE gone)
      /\ at' = "counted" /\ UNCHANGED <<level, file, wild, pager, stmt, pg, history, left>>
      /\ Shape(jrnl'.items, jrnl'.safe, pager.journalHdr, pager.origDbSize, level)
      /\ Len(jrnl'.items) = Len(jrnl.items) /\ jrnl'.safe <= Len(jrnl.items)
      /\ jrnl'.items[pager.journalHdr].nRec = pager.nRec
  BY CountRecordsFields
<1>2. pager.nRec = Len(jrnl.items) - pager.journalHdr
  BY OpenJournal
<1>3. Counting'
  BY <1>1 DEF Counting
<1>4. QED
  BY <1>1, <1>2, <1>3, Typed, JournalLaid DEF history, TxnStates

LEMMA CommitRecordsLaid == LayInv /\ CommitRecords => LayInv'
  BY CountRecordsLaid, Typed DEF CommitRecords, InTxn

LEMMA RecycleUnsyncedLaid == ASSUME LayInv, NEW p \in Page, RecycleUnsynced(p) PROVE LayInv'
  BY CountRecordsLaid DEF RecycleUnsynced, InTxn

LEMMA ClearedFields ==
  ASSUME pg \in [Page -> PgHdr], NEW n, n = Cleared
  PROVE  /\ n \in [Page -> PgHdr]
         /\ \A p \in Page : /\ n[p].in = pg[p].in /\ n[p].data = pg[p].data
                            /\ n[p].dirty = pg[p].dirty /\ n[p].inJournal = pg[p].inJournal
                            /\ ~n[p].needSync /\ n[p].inStmt = pg[p].inStmt
                            /\ n[p].alwaysRollback = pg[p].alwaysRollback
         /\ \A p \in Page : n[p] = [pg[p] EXCEPT !.needSync = FALSE]
  BY DEF Cleared, PgHdr

LEMMA SyncJournalFields ==
  ASSUME LayInv, SyncJournal
  PROVE  /\ InTxn /\ jrnl' \in JournalType /\ jrnl'.exists /\ jrnl'.items = SyncedItems
         /\ jrnl'.safe = Len(jrnl.items) /\ Len(jrnl'.items) = Len(jrnl.items) /\ jrnl'.named
         /\ gone' = NotGone /\ pg' = Cleared
         /\ pager' = [pager EXCEPT !.journalStarted = TRUE, !.needSync = FALSE]
         /\ at = "counted" /\ at' = IF job = 0 THEN "store" ELSE "spill"
         /\ UNCHANGED <<level, file, wild, stmt, job, history, left>>
         /\ Shape(jrnl'.items, jrnl'.safe, pager.journalHdr, pager.origDbSize, level)
         /\ Headers(jrnl'.items) = Headers(jrnl.items)
         /\ \A i \in 1..Len(jrnl.items) : i \notin Headers(jrnl.items) => jrnl'.items[i] = jrnl.items[i]
         /\ \A g \in Headers(jrnl.items) :
              /\ jrnl'.items[g].nRec = jrnl.items[g].nRec /\ jrnl'.items[g].was = jrnl.items[g].nRec
              /\ jrnl'.items[g].size = jrnl.items[g].size
<1>1. /\ jrnl' = [jrnl EXCEPT !.items = SyncedItems, !.safe = Len(jrnl.items), !.named = TRUE]
      /\ gone' = NotGone /\ pg' = Cleared
      /\ pager' = [pager EXCEPT !.journalStarted = TRUE, !.needSync = FALSE]
      /\ at = "counted" /\ at' = (IF job = 0 THEN "store" ELSE "spill")
      /\ UNCHANGED <<level, file, wild, stmt, job, history, left>>
  BY Zenon DEF SyncJournal
<1>2. InTxn
  BY <1>1 DEF InTxn
<1>3. /\ jrnl.exists /\ Shape(jrnl.items, jrnl.safe, pager.journalHdr, pager.origDbSize, level)
  BY <1>2, OpenJournal
<1>4. jrnl.items \in Seq(Item) /\ jrnl.safe \in Nat /\ jrnl \in JournalType /\ Len(jrnl.items) \in Nat
  BY Typed
<1>5. SyncedItems = [i \in 1..Len(jrnl.items) |-> OnDisk(jrnl.items[i])]
  BY DEF SyncedItems
<1>6. /\ SyncedItems \in Seq(Item) /\ Len(SyncedItems) = Len(jrnl.items)
      /\ Headers(SyncedItems) = Headers(jrnl.items)
      /\ \A i \in 1..Len(jrnl.items) : i \notin Headers(jrnl.items) => SyncedItems[i] = jrnl.items[i]
      /\ \A g \in Headers(jrnl.items) : /\ SyncedItems[g].nRec = jrnl.items[g].nRec
                                        /\ SyncedItems[g].was = jrnl.items[g].nRec
                                        /\ SyncedItems[g].size = jrnl.items[g].size
      /\ Shape(SyncedItems, Len(SyncedItems), pager.journalHdr, pager.origDbSize, level)
  <2> DEFINE items == jrnl.items
             safe == jrnl.safe
             H == pager.journalHdr
             size == pager.origDbSize
             n == SyncedItems
  <2>1. items \in Seq(Item) /\ safe \in Nat /\ Shape(items, safe, H, size, level)
        /\ n = [i \in 1..Len(items) |-> OnDisk(items[i])]
    BY <1>3, <1>4, <1>5
  <2> HIDE DEF items, safe, H, size, n
  <2>2. /\ n \in Seq(Item) /\ Len(n) = Len(items) /\ Headers(n) = Headers(items)
        /\ \A i \in 1..Len(items) : i \notin Headers(items) => n[i] = items[i]
        /\ \A g \in Headers(items) : /\ n[g] \in HeaderType /\ n[g].nRec = items[g].nRec
                                      /\ n[g].was = items[g].nRec /\ n[g].size = items[g].size
        /\ Shape(n, Len(n), H, size, level)
    BY <2>1, SyncShape
  <2>3. QED
    BY <2>2 DEF items, safe, H, size, n
<1>7. /\ jrnl' \in JournalType /\ jrnl'.exists = jrnl.exists /\ jrnl'.items = SyncedItems
      /\ jrnl'.safe = Len(jrnl.items) /\ jrnl'.named
  BY <1>1, <1>4, <1>6 DEF JournalType
<1>8. QED
  BY <1>1, <1>2, <1>3, <1>6, <1>7

LEMMA SyncJournalLaid == LayInv /\ SyncJournal => LayInv'
<1> SUFFICES ASSUME LayInv, SyncJournal PROVE LayInv'
  OBVIOUS
<1>1. /\ InTxn /\ jrnl' \in JournalType /\ jrnl'.exists
      /\ jrnl'.safe = Len(jrnl.items) /\ Len(jrnl'.items) = Len(jrnl.items)
      /\ gone' = NotGone /\ pg' = Cleared
      /\ pager' = [pager EXCEPT !.journalStarted = TRUE, !.needSync = FALSE]
      /\ at = "counted" /\ at' = (IF job = 0 THEN "store" ELSE "spill")
      /\ UNCHANGED <<level, file, wild, stmt, job, history, left>>
      /\ Shape(jrnl'.items, jrnl'.safe, pager.journalHdr, pager.origDbSize, level)
      /\ \A g \in Headers(jrnl.items) :
           /\ jrnl'.items[g].nRec = jrnl.items[g].nRec /\ jrnl'.items[g].was = jrnl.items[g].nRec
  BY SyncJournalFields
<1>2. pg' \in [Page -> PgHdr]
  BY <1>1, Typed, ClearedFields
<1>3. /\ pager' \in PagerType /\ pager'.aInJournal = pager.aInJournal /\ pager'.nRec = pager.nRec
      /\ pager'.origDbSize = pager.origDbSize /\ pager'.journalHdr = pager.journalHdr
  BY <1>1, Typed DEF PagerType
<1>4. /\ pager.nRec = Len(jrnl.items) - pager.journalHdr /\ pager.journalHdr \in Headers(jrnl.items)
      /\ jrnl.items[pager.journalHdr].nRec = pager.nRec /\ Len(jrnl.items) \in Nat
  BY <1>1, OpenJournal, Typed DEF Counting
<1>5. Counting'
  BY <1>1, <1>3, <1>4, Typed DEF Counting
<1>6. at' \in TxnStates
  BY <1>1 DEF TxnStates
<1>7. jrnl'.safe <= Len(jrnl'.items)
  BY <1>1, <1>4
<1>8. QED
  BY <1>1, <1>2, <1>3, <1>4, <1>5, <1>6, <1>7, Typed, JournalLaid DEF history

LEMMA EvictFields ==
  ASSUME LayInv, NEW p \in Page, Evict(p)
  PROVE  /\ file' \in DatabaseType /\ wild' \in WildType /\ pg' \in [Page -> PgHdr]
         /\ pg' = [pg EXCEPT ![p] = Absent]
         /\ ~(pg[p].dirty /\ p <= pager.dbSize) => UNCHANGED <<file, wild>>
         /\ pg[p].dirty /\ p <= pager.dbSize =>
              /\ file'.size = IF p > file.size THEN p ELSE file.size
              /\ file'.page = [file.page EXCEPT ![p] = pg[p].data]
              /\ wild'.size = IF file'.size = file.size THEN wild.size ELSE wild.size \cup {file.size}
              /\ \A q \in Page : wild'.page[q] = IF file'.page[q] = file.page[q] THEN wild.page[q]
                                                 ELSE wild.page[q] \cup {file.page[q]}
<1>1. /\ pg \in [Page -> PgHdr] /\ file \in DatabaseType /\ wild \in WildType
  BY Typed
<1>2. pg' = [pg EXCEPT ![p] = Absent]
  BY DEF Evict
<1>3. pg' \in [Page -> PgHdr]
  BY <1>1, <1>2, EmptyTypes
<1>4. CASE ~(pg[p].dirty /\ p <= pager.dbSize)
  BY <1>1, <1>2, <1>3, <1>4 DEF Evict
<1>5. CASE pg[p].dirty /\ p <= pager.dbSize
  <2> DEFINE f == [size |-> IF p > file.size THEN p ELSE file.size,
                   page |-> [file.page EXCEPT ![p] = pg[p].data]]
  <2>1. Writes(f)
    BY <1>5 DEF Evict, Store
  <2>2. pg[p].data \in Cont
    BY <1>1 DEF PgHdr
  <2>3. f \in DatabaseType
    BY <1>1, <2>2, Contents DEF Page
  <2>4. f.size = (IF p > file.size THEN p ELSE file.size) /\ f.page = [file.page EXCEPT ![p] = pg[p].data]
    OBVIOUS
  <2> HIDE DEF f
  <2>5. /\ file' = f /\ file' \in DatabaseType /\ wild' \in WildType
        /\ wild'.size = IF f.size = file.size THEN wild.size ELSE wild.size \cup {file.size}
        /\ \A q \in Page : wild'.page[q] = IF f.page[q] = file.page[q] THEN wild.page[q]
                                           ELSE wild.page[q] \cup {file.page[q]}
    BY <1>1, <2>1, <2>3, WritesFields
  <2>6. QED
    BY <1>2, <1>3, <1>5, <2>4, <2>5
<1>6. QED
  BY <1>4, <1>5

LEMMA RecycledFields ==
  ASSUME LayInv, NEW p \in Page, NEW q \in PagerType, NEW n, n = Recycled(p, q)
  PROVE  /\ n \in PagerType /\ n.state = IF pg[p].dirty THEN "EXCLUSIVE" ELSE q.state
         /\ n.alwaysRollback = (q.alwaysRollback \/ pg[p].alwaysRollback)
         /\ n.dbSize = q.dbSize /\ n.origDbSize = q.origDbSize /\ n.nRec = q.nRec
         /\ n.journalHdr = q.journalHdr /\ n.needSync = q.needSync /\ n.journalStarted = q.journalStarted
         /\ n.aInJournal = q.aInJournal /\ n.dirtyCache = q.dirtyCache
<1>1. pg[p] \in PgHdr
  BY Typed
<1>2. n = [q EXCEPT !.state = IF pg[p].dirty THEN "EXCLUSIVE" ELSE q.state,
                    !.alwaysRollback = q.alwaysRollback \/ pg[p].alwaysRollback]
  BY DEF Recycled
<1>3. (q.alwaysRollback \/ pg[p].alwaysRollback) \in BOOLEAN
  BY <1>1 DEF PgHdr
<1>4. QED
  BY <1>1, <1>2, <1>3 DEF PagerType

LEMMA RecycleLaid == ASSUME LayInv, NEW p \in Page, Recycle(p) PROVE LayInv'
<1>1. /\ Evict(p) /\ pager' = Recycled(p, pager)
      /\ UNCHANGED <<level, jrnl, gone, stmt, at, job, history, left>>
  BY DEF Recycle
<1>2. file' \in DatabaseType /\ wild' \in WildType /\ pg' \in [Page -> PgHdr]
  BY <1>1, EvictFields
<1>3. /\ pager' \in PagerType /\ pager'.aInJournal = pager.aInJournal /\ pager'.nRec = pager.nRec
      /\ pager'.origDbSize = pager.origDbSize /\ pager'.journalHdr = pager.journalHdr
  BY <1>1, Typed, RecycledFields
<1>4. QED
  BY <1>1, <1>2, <1>3, Typed, QuietLaid DEF history

LEMMA SpillFields ==
  ASSUME LayInv, Spill
  PROVE  /\ InTxn /\ job \in Page /\ at = "spill" /\ at' = "txn" /\ job' = 0
         /\ Evict(job) /\ UNCHANGED <<level, gone, history, left>>
         /\ jrnl' \in JournalType /\ jrnl'.exists /\ jrnl'.safe = jrnl.safe /\ jrnl'.named = jrnl.named
         /\ jrnl.safe = Len(jrnl.items)
         /\ jrnl'.items = (IF level = "full" THEN Append(jrnl.items, Header(pager.dbSize)) ELSE jrnl.items)
         /\ Shape(jrnl'.items, jrnl'.safe, pager'.journalHdr, pager.origDbSize, level)
         /\ level # "full" => jrnl' = jrnl
         /\ \A i \in 1..Len(jrnl.items) : jrnl'.items[i] = jrnl.items[i]
         /\ Headers(jrnl'.items) = Headers(jrnl.items) \cup {pager'.journalHdr}
         /\ Len(jrnl.items) <= Len(jrnl'.items)
         /\ \A i \in 1..Len(jrnl'.items) : i \in 1..Len(jrnl.items) \/ i = pager'.journalHdr
         /\ pager'.nRec = Len(jrnl'.items) - pager'.journalHdr
         /\ pager.journalHdr <= pager'.journalHdr /\ (pager.journalHdr = pager'.journalHdr \/ pager'.journalHdr = Len(jrnl.items) + 1)
         /\ pager' \in PagerType /\ pager'.state = (IF pg[job].dirty THEN "EXCLUSIVE" ELSE pager.state)
         /\ pager'.alwaysRollback = (pager.alwaysRollback \/ pg[job].alwaysRollback)
         /\ pager'.dbSize = pager.dbSize /\ pager'.origDbSize = pager.origDbSize
         /\ pager'.needSync = pager.needSync /\ pager'.journalStarted = pager.journalStarted
         /\ pager'.aInJournal = pager.aInJournal /\ pager'.dirtyCache = pager.dirtyCache
         /\ stmt' \in StmtType /\ stmt' = [stmt EXCEPT !.hdr = stmt'.hdr]
         /\ ~stmt.inUse => stmt' = stmt
<1> DEFINE full == level = "full"
           new == Len(jrnl.items) + 1
           q == IF full THEN [pager EXCEPT !.nRec = 0, !.journalHdr = new] ELSE pager
<1>1. /\ at = "spill" /\ at' = "txn"
      /\ jrnl' = (IF full THEN [jrnl EXCEPT !.items = Append(@, Header(pager.dbSize))] ELSE jrnl)
      /\ pager' = Recycled(job, q)
      /\ stmt' = (IF full /\ stmt.inUse /\ stmt.hdr = 0 THEN [stmt EXCEPT !.hdr = new] ELSE stmt)
      /\ Evict(job) /\ job' = 0
      /\ UNCHANGED <<level, gone, history, left>>
  BY Zenon DEF Spill, HeaderPlace
<1>2. InTxn
  BY <1>1 DEF InTxn
<1>3. /\ jrnl.exists /\ Shape(jrnl.items, jrnl.safe, pager.journalHdr, pager.origDbSize, level)
      /\ pager.nRec = Len(jrnl.items) - pager.journalHdr /\ pager.journalHdr \in 1..Len(jrnl.items)
      /\ pager.journalHdr \in Headers(jrnl.items)
      /\ jrnl.items[pager.journalHdr].nRec = pager.nRec /\ jrnl.items[pager.journalHdr].was = pager.nRec
      /\ jrnl.safe = Len(jrnl.items) /\ job \in Page
  BY <1>1, <1>2, OpenJournal, Typed DEF Counting
<1>4. /\ jrnl \in JournalType /\ pager \in PagerType /\ stmt \in StmtType /\ pager.dbSize \in 0..MaxPage
      /\ jrnl.items \in Seq(Item) /\ Len(jrnl.items) \in Nat
  BY Typed
<1>5. q \in PagerType /\ q.nRec = (IF full THEN 0 ELSE pager.nRec)
      /\ q.journalHdr = (IF full THEN new ELSE pager.journalHdr)
      /\ q.state = pager.state /\ q.alwaysRollback = pager.alwaysRollback
      /\ q.dbSize = pager.dbSize /\ q.origDbSize = pager.origDbSize
      /\ q.needSync = pager.needSync /\ q.journalStarted = pager.journalStarted
      /\ q.aInJournal = pager.aInJournal /\ q.dirtyCache = pager.dirtyCache
  <2>1. CASE full
    <3>1. q = [pager EXCEPT !.nRec = 0, !.journalHdr = new]
      BY <2>1
    <3>2. new \in Nat
      BY <1>4
    <3> HIDE DEF q, new
    <3> DEFINE r == [pager EXCEPT !.nRec = 0]
    <3>5. /\ r \in PagerType /\ r.nRec = 0
          /\ r.state = pager.state /\ r.alwaysRollback = pager.alwaysRollback
          /\ r.dbSize = pager.dbSize /\ r.origDbSize = pager.origDbSize
          /\ r.needSync = pager.needSync /\ r.journalStarted = pager.journalStarted
          /\ r.aInJournal = pager.aInJournal /\ r.dirtyCache = pager.dirtyCache
      BY <1>4 DEF PagerType
    <3>6. q = [r EXCEPT !.journalHdr = new]
      BY <3>1
    <3> HIDE DEF r
    <3>3. /\ q \in PagerType /\ q.nRec = 0 /\ q.journalHdr = new
          /\ q.state = pager.state /\ q.alwaysRollback = pager.alwaysRollback
          /\ q.dbSize = pager.dbSize /\ q.origDbSize = pager.origDbSize
          /\ q.needSync = pager.needSync /\ q.journalStarted = pager.journalStarted
          /\ q.aInJournal = pager.aInJournal /\ q.dirtyCache = pager.dirtyCache
      BY <3>2, <3>5, <3>6 DEF PagerType
    <3>4. QED
      BY <2>1, <3>3
  <2>2. CASE ~full
    BY <1>4, <2>2 DEF PagerType
  <2>3. QED
    BY <2>1, <2>2
<1> HIDE DEF q
<1>6. /\ pager' \in PagerType /\ pager'.state = (IF pg[job].dirty THEN "EXCLUSIVE" ELSE pager.state)
      /\ pager'.alwaysRollback = (pager.alwaysRollback \/ pg[job].alwaysRollback)
      /\ pager'.dbSize = pager.dbSize /\ pager'.origDbSize = pager.origDbSize
      /\ pager'.needSync = pager.needSync /\ pager'.journalStarted = pager.journalStarted
      /\ pager'.aInJournal = pager.aInJournal /\ pager'.dirtyCache = pager.dirtyCache
      /\ pager'.nRec = (IF full THEN 0 ELSE pager.nRec)
      /\ pager'.journalHdr = (IF full THEN new ELSE pager.journalHdr)
  BY <1>1, <1>3, <1>5, RecycledFields
<1>7. /\ stmt' \in StmtType /\ stmt' = [stmt EXCEPT !.hdr = stmt'.hdr] /\ (~stmt.inUse => stmt' = stmt)
  <2>1. CASE full /\ stmt.inUse /\ stmt.hdr = 0
    BY <1>1, <1>4, <2>1 DEF StmtType
  <2>2. CASE ~(full /\ stmt.inUse /\ stmt.hdr = 0)
    BY <1>1, <1>4, <2>2 DEF StmtType
  <2>3. QED
    BY <2>1, <2>2
<1>8. CASE full
  <2> DEFINE n == WithHeader(jrnl.items, pager.dbSize)
  <2>1. /\ n \in Seq(Item) /\ Len(n) = new /\ Headers(n) = Headers(jrnl.items) \cup {new}
        /\ \A i \in 1..Len(jrnl.items) : n[i] = jrnl.items[i]
        /\ Shape(n, jrnl.safe, new, pager.origDbSize, level)
    <3>0. new = jrnl.safe + 1
      BY <1>3
    <3>4. Complete(jrnl.items, jrnl.safe, pager.journalHdr)
      BY <1>3 DEF Complete
    <3>1. /\ jrnl.safe \in Nat /\ pager.journalHdr \in Nat /\ n = WithHeader(jrnl.items, pager.dbSize)
      BY <1>3
    <3> HIDE DEF n, new
    <3>21. Len(n) = jrnl.safe + 1
      BY <1>3, <1>4, <3>1, <3>4, AppendHeader
    <3>22. Shape(n, jrnl.safe, jrnl.safe + 1, pager.origDbSize, level)
      BY <1>3, <1>4, <3>1, <3>4, AppendHeader
    <3>23. Headers(n) = Headers(jrnl.items) \cup {jrnl.safe + 1}
      BY <1>3, <1>4, <3>1, <3>4, AppendHeader
    <3>24. n \in Seq(Item)
      BY <1>3, <1>4, <3>1, <3>4, AppendHeader
    <3>25. \A i \in 1..Len(jrnl.items) : n[i] = jrnl.items[i]
      BY <1>3, <1>4, <3>1, <3>4, AppendHeader
    <3>3. QED
      BY <3>0, <3>21, <3>22, <3>23, <3>24, <3>25
  <2>2. jrnl' = [jrnl EXCEPT !.items = n] /\ n = Append(jrnl.items, Header(pager.dbSize))
    BY <1>1, <1>8 DEF WithHeader
  <2> HIDE DEF n
  <2>3. /\ jrnl' \in JournalType /\ jrnl'.exists = jrnl.exists /\ jrnl'.safe = jrnl.safe
        /\ jrnl'.named = jrnl.named /\ jrnl'.items = n
    BY <1>4, <2>1, <2>2 DEF JournalType
  <2>4. pager'.journalHdr = new /\ pager'.nRec = 0
    BY <1>6, <1>8
  <2>5. /\ pager'.nRec = Len(jrnl'.items) - pager'.journalHdr
        /\ pager.journalHdr <= pager'.journalHdr /\ Len(jrnl.items) <= Len(jrnl'.items)
        /\ \A i \in 1..Len(jrnl'.items) : i \in 1..Len(jrnl.items) \/ i = pager'.journalHdr
    BY <1>3, <1>4, <2>1, <2>3, <2>4
  <2>6. QED
    BY <1>1, <1>2, <1>3, <1>6, <1>7, <1>8, <2>1, <2>2, <2>3, <2>4, <2>5
<1>9. CASE ~full
  <2>1. jrnl' = jrnl /\ pager'.journalHdr = pager.journalHdr /\ pager'.nRec = pager.nRec
    BY <1>1, <1>6, <1>9
  <2>2. Headers(jrnl'.items) = Headers(jrnl.items) \cup {pager'.journalHdr} /\ Len(jrnl.items) <= Len(jrnl'.items)
        /\ pager.journalHdr <= pager'.journalHdr
    BY <1>3, <1>4, <2>1
  <2>3. QED
    BY <1>1, <1>2, <1>3, <1>4, <1>6, <1>7, <1>9, <2>1, <2>2
<1>10. QED
  BY <1>8, <1>9

LEMMA SpillLaid == LayInv /\ Spill => LayInv'
<1> SUFFICES ASSUME LayInv, Spill PROVE LayInv'
  OBVIOUS
<1>1. /\ InTxn /\ job \in Page /\ at' = "txn" /\ job' = 0 /\ Evict(job)
      /\ UNCHANGED <<level, gone, history, left>>
      /\ jrnl' \in JournalType /\ jrnl'.exists /\ jrnl'.safe = jrnl.safe
      /\ Shape(jrnl'.items, jrnl'.safe, pager'.journalHdr, pager.origDbSize, level)
      /\ Len(jrnl.items) <= Len(jrnl'.items)
      /\ pager'.nRec = Len(jrnl'.items) - pager'.journalHdr
      /\ pager' \in PagerType /\ pager'.origDbSize = pager.origDbSize
      /\ pager'.aInJournal = pager.aInJournal /\ stmt' \in StmtType
  BY SpillFields
<1>2. file' \in DatabaseType /\ wild' \in WildType /\ pg' \in [Page -> PgHdr]
  BY <1>1, EvictFields
<1>3. Counting' /\ at' \in TxnStates
  BY <1>1 DEF Counting, TxnStates
<1>4. jrnl'.safe <= Len(jrnl'.items)
  BY <1>1 DEF Shape
<1>5. QED
  BY <1>1, <1>2, <1>3, <1>4, JournalLaid DEF history

LEMMA StorePagesFields ==
  ASSUME LayInv, StorePages
  PROVE  /\ at = "store" /\ at' = "stored" /\ file' \in DatabaseType /\ wild' \in WildType
         /\ pg' \in [Page -> PgHdr] /\ pager' = [pager EXCEPT !.state = "EXCLUSIVE"]
         /\ UNCHANGED <<level, jrnl, gone, stmt, job, history, left>>
         /\ file'.size \in {file.size} \cup Dirty /\ file'.size >= file.size
         /\ \A p \in Dirty : file'.size >= p
         /\ \A p \in Page : file'.page[p] = IF p \in Dirty THEN pg[p].data ELSE file.page[p]
         /\ wild'.size = IF file'.size = file.size THEN wild.size ELSE wild.size \cup {file.size}
         /\ \A p \in Page : wild'.page[p] = IF file'.page[p] = file.page[p] THEN wild.page[p]
                                            ELSE wild.page[p] \cup {file.page[p]}
         /\ \A p \in Page : pg'[p] = [pg[p] EXCEPT !.dirty = FALSE]
<1>1. /\ pg \in [Page -> PgHdr] /\ file \in DatabaseType /\ wild \in WildType /\ file.size \in 0..MaxPage
  BY Typed
<1> DEFINE S == {file.size} \cup Dirty
           c == [p \in Page |-> IF p \in Dirty THEN pg[p].data ELSE file.page[p]]
           f == [size |-> Max(S), page |-> c]
<1>2. S \in SUBSET (0..MaxPage) /\ S # {}
  BY <1>1 DEF Dirty, Page
<1>3. Max(S) \in S /\ \A y \in S : y <= Max(S)
  BY <1>2, MaxIn, PageOne
<1>4. c \in [Page -> Cont]
  BY <1>1, Contents DEF PgHdr
<1>5. f \in DatabaseType /\ f.size = Max(S) /\ f.page = c
  BY <1>2, <1>3, <1>4, Contents
<1>6. Writes(f)
  BY DEF StorePages
<1> HIDE DEF f
<1>7. /\ file' = f /\ file' \in DatabaseType /\ wild' \in WildType
      /\ wild'.size = IF f.size = file.size THEN wild.size ELSE wild.size \cup {file.size}
      /\ \A p \in Page : wild'.page[p] = IF f.page[p] = file.page[p] THEN wild.page[p]
                                         ELSE wild.page[p] \cup {file.page[p]}
  BY <1>1, <1>5, <1>6, WritesFields
<1>8. pg' = [p \in Page |-> [pg[p] EXCEPT !.dirty = FALSE]]
  BY DEF StorePages
<1>9. pg' \in [Page -> PgHdr] /\ \A p \in Page : pg'[p] = [pg[p] EXCEPT !.dirty = FALSE]
  BY <1>1, <1>8 DEF PgHdr
<1>10. /\ at = "store" /\ at' = "stored" /\ pager' = [pager EXCEPT !.state = "EXCLUSIVE"]
       /\ UNCHANGED <<level, jrnl, gone, stmt, job, history, left>>
  BY DEF StorePages
<1>11. file'.size \in S /\ file'.size >= file.size /\ \A p \in Dirty : file'.size >= p
  BY <1>1, <1>2, <1>3, <1>5, <1>7, Zenon
<1>12. \A p \in Page : file'.page[p] = IF p \in Dirty THEN pg[p].data ELSE file.page[p]
  BY <1>5, <1>7
<1>13. QED
  BY <1>5, <1>7, <1>9, <1>10, <1>11, <1>12

LEMMA StorePagesLaid == LayInv /\ StorePages => LayInv'
<1> SUFFICES ASSUME LayInv, StorePages PROVE LayInv'
  OBVIOUS
<1>1. /\ at = "store" /\ at' = "stored" /\ file' \in DatabaseType /\ wild' \in WildType
      /\ pg' \in [Page -> PgHdr] /\ pager' = [pager EXCEPT !.state = "EXCLUSIVE"]
      /\ UNCHANGED <<level, jrnl, gone, stmt, job, history, left>>
  BY StorePagesFields
<1>2. /\ pager' \in PagerType /\ pager'.aInJournal = pager.aInJournal /\ pager'.nRec = pager.nRec
      /\ pager'.origDbSize = pager.origDbSize /\ pager'.journalHdr = pager.journalHdr
  BY <1>1, Typed DEF PagerType
<1>3. QED
  BY <1>1, <1>2, Typed, QuietLaid DEF TxnStates, history

LEMMA SyncFileLaid == LayInv /\ SyncFile => LayInv'
<1> SUFFICES ASSUME LayInv, SyncFile PROVE LayInv'
  OBVIOUS
<1>1. /\ at = "stored" /\ at' = "synced" /\ wild' = Calm /\ gone' = NotGone /\ unsettled' = FALSE
      /\ pager' = [pager EXCEPT !.state = "SYNCED"]
      /\ UNCHANGED <<level, file, jrnl, stmt, pg, job, expect, base, saved, left>>
  BY DEF SyncFile
<1>2. /\ pager' \in PagerType /\ pager'.aInJournal = pager.aInJournal /\ pager'.nRec = pager.nRec
      /\ pager'.origDbSize = pager.origDbSize /\ pager'.journalHdr = pager.journalHdr
  BY <1>1, Typed DEF PagerType
<1>3. QED
  BY <1>1, <1>2, Typed, EmptyTypes, QuietLaid DEF TxnStates

LEMMA KeptFields ==
  ASSUME NEW cache \in [Page -> PgHdr], NEW n, n = Kept(cache)
  PROVE  /\ n \in [Page -> PgHdr]
         /\ \A p \in Page : /\ n[p].in = cache[p].in /\ n[p].data = cache[p].data
                            /\ ~n[p].dirty /\ ~n[p].inJournal /\ ~n[p].needSync /\ ~n[p].inStmt
                            /\ n[p].alwaysRollback = cache[p].alwaysRollback
<1> DEFINE k == Committed(cache)
<1>1. /\ k \in [Page -> PgHdr]
      /\ \A p \in Page : /\ k[p].in = cache[p].in /\ k[p].data = cache[p].data /\ ~k[p].inStmt
                         /\ k[p].alwaysRollback = cache[p].alwaysRollback
  BY CommittedFields
<1>2. n = [p \in Page |-> [k[p] EXCEPT !.inJournal = FALSE, !.dirty = FALSE, !.needSync = FALSE]]
  BY DEF Kept
<1> HIDE DEF k
<1>3. ASSUME NEW p \in Page
      PROVE  /\ n[p] \in PgHdr /\ n[p].in = k[p].in /\ n[p].data = k[p].data
             /\ ~n[p].dirty /\ ~n[p].inJournal /\ ~n[p].needSync /\ n[p].inStmt = k[p].inStmt
             /\ n[p].alwaysRollback = k[p].alwaysRollback
  <2> DEFINE h == k[p]
  <2>1. h \in PgHdr
    BY <1>1
  <2>2. n[p] = [h EXCEPT !.inJournal = FALSE, !.dirty = FALSE, !.needSync = FALSE]
    BY <1>2
  <2> HIDE DEF h
  <2>3. /\ n[p] \in PgHdr /\ n[p].in = h.in /\ n[p].data = h.data
        /\ ~n[p].dirty /\ ~n[p].inJournal /\ ~n[p].needSync /\ n[p].inStmt = h.inStmt
        /\ n[p].alwaysRollback = h.alwaysRollback
    BY <2>1, <2>2 DEF PgHdr
  <2>4. QED
    BY <2>3 DEF h
<1>4. n \in [Page -> PgHdr]
  BY <1>2, <1>3
<1>5. QED
  BY <1>1, <1>3, <1>4

LEMMA DeleteJournalLaid == LayInv /\ DeleteJournal => LayInv'
  BY Typed, KeptFields, UnwritelockLaid DEF DeleteJournal

LEMMA GiveUpLaid == LayInv /\ GiveUp => LayInv'
  BY Typed, KeptFields, UnwritelockLaid DEF GiveUp

LEMMA RollbackLaid == LayInv /\ Rollback => LayInv'
  BY Typed, EmptyTypes, UnwritelockLaid DEF Rollback

LEMMA RollbackFileLaid == LayInv /\ RollbackFile => LayInv'
<1> SUFFICES ASSUME LayInv, RollbackFile PROVE LayInv'
  OBVIOUS
<1>1. /\ at = "txn" /\ Writes(PlaybackFile(jrnl.items)) /\ expect' = base /\ at' = "played"
      /\ UNCHANGED <<level, jrnl, gone, memVars, job, base, saved, unsettled, left>>
  BY DEF RollbackFile
<1>2. PlaybackFile(jrnl.items) \in DatabaseType
  BY JournalSound, Typed, PlaybackFields
<1>3. file' \in DatabaseType /\ wild' \in WildType
  BY <1>1, <1>2, Typed, WritesFields
<1>4. QED
  BY <1>1, <1>3, Typed, QuietLaid DEF memVars

LEMMA PlayedBackLaid == LayInv /\ PlayedBack => LayInv'
<1> SUFFICES ASSUME LayInv, PlayedBack PROVE LayInv'
  OBVIOUS
<1>1. /\ expect' = expect /\ Unwritelock(expect, NoCache) /\ unsettled' \in BOOLEAN
      /\ UNCHANGED <<level, file, wild, left>>
  BY DEF PlayedBack
<1>2. QED
  BY <1>1, Typed, EmptyTypes, UnwritelockLaid

LEMMA ForgetLaid == LayInv /\ Forget => LayInv'
  BY Typed, EmptyTypes, QuietLaid DEF Forget, diskVars, history

LEMMA TargetType == ASSUME LayInv PROVE Target \in DatabaseType
  BY Typed DEF Target

LEMMA DieLaid == LayInv /\ Die => LayInv'
<1> SUFFICES ASSUME LayInv, Die PROVE LayInv'
  OBVIOUS
<1>1. expect' = Target /\ Falls /\ UNCHANGED <<file, wild, jrnl, gone, unsettled>>
  BY DEF Die, diskVars
<1>2. QED
  BY <1>1, Typed, TargetType, JournalSound, FallsLaid

LEMMA PowerFailLaid == LayInv /\ PowerFail => LayInv'
<1> SUFFICES ASSUME LayInv, PowerFail PROVE LayInv'
  OBVIOUS
<1>1. /\ file' \in Survivors /\ wild' = Calm /\ gone' = NotGone /\ unsettled' = FALSE /\ Falls
  BY DEF PowerFail
<1>2. file' \in DatabaseType
  BY <1>1, Typed, SurvivorFields
<1>3. \/ jrnl' \in Leftovers(jrnl) /\ expect' = Target
      \/ jrnl' = NoJournal /\ expect' = Target
      \/ jrnl' \in Leftovers(gone.jrnl) /\ expect' = gone.to
  BY DEF PowerFail
<1>4. /\ jrnl' \in JournalType /\ Sound(jrnl', level) /\ jrnl'.safe <= Len(jrnl'.items)
      /\ expect' \in DatabaseType
  <2>1. CASE jrnl' \in Leftovers(jrnl) /\ expect' = Target
    BY <2>1, Typed, JournalSound, LeftoverSound, TargetType
  <2>2. CASE jrnl' = NoJournal /\ expect' = Target
    BY <2>2, NoJournalSound, TargetType
  <2>3. CASE jrnl' \in Leftovers(gone.jrnl) /\ expect' = gone.to
    BY <2>3, Typed, LeftoverSound
  <2>4. QED
    BY <1>3, <2>1, <2>2, <2>3
<1>5. QED
  BY <1>1, <1>2, <1>4, EmptyTypes, FallsLaid

LEMMA HotJournalLaid == LayInv /\ HotJournal => LayInv'
<1> SUFFICES ASSUME LayInv, HotJournal PROVE LayInv'
  OBVIOUS
<1>1. at = "down" /\ expect' = expect /\ UNCHANGED <<level, left>>
  BY DEF HotJournal
<1>2. CASE ~jrnl.exists \/ file.size = 0
  <2>1. Unwritelock(expect, NoCache) /\ UNCHANGED <<file, wild>> /\ unsettled' \in BOOLEAN
    BY <1>2, Typed DEF HotJournal
  <2>2. QED
    BY <1>1, <2>1, Typed, EmptyTypes, UnwritelockLaid
<1>3. CASE ~(~jrnl.exists \/ file.size = 0)
  <2>1. UNCHANGED <<jrnl, gone, memVars, job, base, saved, unsettled>>
    BY <1>3 DEF HotJournal
  <2>2. CASE CutShort(jrnl.items)
    <3>1. at' = "stuck" /\ UNCHANGED <<file, wild>>
      BY <1>3, <2>2 DEF HotJournal
    <3>2. level # "full"
      BY <2>2, NotCutShort, JournalSound, Typed
    <3>3. QED
      BY <1>1, <2>1, <3>1, <3>2, Typed, QuietLaid DEF memVars
  <2>3. CASE ~CutShort(jrnl.items)
    <3>1. at' = "played" /\ Writes(PlaybackFile(jrnl.items))
      BY <1>3, <2>3 DEF HotJournal
    <3>2. PlaybackFile(jrnl.items) \in DatabaseType
      BY JournalSound, Typed, PlaybackFields
    <3>3. file' \in DatabaseType /\ wild' \in WildType
      BY <3>1, <3>2, Typed, WritesFields
    <3>4. QED
      BY <1>1, <2>1, <3>1, <3>3, Typed, QuietLaid DEF memVars
  <2>4. QED
    BY <2>2, <2>3
<1>4. QED
  BY <1>2, <1>3

LEMMA RetryLaid == LayInv /\ Retry => LayInv'
  BY Typed, QuietLaid DEF Retry, diskVars, memVars, history

LEMMA SettleLaid == LayInv /\ Settle => LayInv'
  BY Typed, EmptyTypes, QuietLaid DEF Settle, memVars

LEMMA StutterLaid == LayInv /\ UNCHANGED vars => LayInv'
  BY Typed, QuietLaid DEF vars, diskVars, memVars, history

\* Every step keeps the types and the layout of the journal.
LEMMA LayStep == LayInv /\ [JournalNext]_vars => LayInv'
<1> SUFFICES ASSUME LayInv, [JournalNext]_vars PROVE LayInv'
  OBVIOUS
<1>1. ASSUME NEW p \in Page,
             Modify(p) \/ FreePage(p) \/ ReusePage(p) \/ Read(p) \/ Recycle(p) \/ RecycleUnsynced(p)
      PROVE  LayInv'
  BY <1>1, ModifyLaid, FreePageLaid, ReusePageLaid, ReadLaid, RecycleLaid, RecycleUnsyncedLaid
<1>2. CASE Begin \/ StmtBegin \/ StmtCommit \/ StmtRollback \/ Extend
  BY <1>2, BeginLaid, StmtBeginLaid, StmtCommitLaid, StmtRollbackLaid, ExtendLaid
<1>3. CASE Commit \/ CommitRecords \/ SyncJournal \/ Spill \/ StorePages \/ SyncFile
  BY <1>3, CommitLaid, CommitRecordsLaid, SyncJournalLaid, SpillLaid, StorePagesLaid, SyncFileLaid
<1>4. CASE DeleteJournal \/ GiveUp \/ Rollback \/ RollbackFile \/ PlayedBack \/ Forget
  BY <1>4, DeleteJournalLaid, GiveUpLaid, RollbackLaid, RollbackFileLaid, PlayedBackLaid, ForgetLaid
<1>5. CASE Die \/ PowerFail \/ HotJournal \/ Retry \/ Settle
  BY <1>5, DieLaid, PowerFailLaid, HotJournalLaid, RetryLaid, SettleLaid
<1>6. CASE UNCHANGED vars
  BY <1>6, StutterLaid
<1>7. QED
  BY <1>1, <1>2, <1>3, <1>4, <1>5, <1>6 DEF JournalNext

\* Types and layout hold in every state, at both safety levels.
LEMMA LayAlways == JournalSpec => []LayInv
<1>1. QED
  BY LayInit, LayStep, PTL DEF JournalSpec

LEMMA LayType == LayInv => JournalTypeOK /\ AlwaysPlayable
<1> SUFFICES ASSUME LayInv PROVE JournalTypeOK /\ AlwaysPlayable
  OBVIOUS
<1>1. AlwaysPlayable
  BY DEF LayInv, LayoutInv, AlwaysPlayable
<1>2. {file, expect, base, saved} \subseteq DatabaseType
  BY Typed
<1>3. /\ wild.size \subseteq 0..MaxPage
      /\ \A p \in Page : wild.page[p] \subseteq [n : Number, free : SUBSET Page]
  BY Typed DEF WildType, Cont
<1>4. pager.aInJournal \subseteq 1..pager.origDbSize /\ stmt.aInStmt \subseteq Page
  BY Typed DEF LayInv, TypeInv, StmtType
<1>5. at \in {"idle", "played", "down", "stuck"} \/ InTxn
  BY DEF LayInv, TypeInv, InTxn, TxnStates
<1>6. at \in {"txn", "sync"} =>
        /\ jrnl.exists /\ pager.journalHdr \in Headers(jrnl.items)
        /\ pager.nRec = Len(jrnl.items) - pager.journalHdr
  BY OpenJournal DEF InTxn
<1>7. JournalTypeOK
  BY <1>2, <1>3, <1>4, <1>5, <1>6, Typed DEF JournalTypeOK
<1>8. QED
  BY <1>1, <1>7

\* Types: also that in a transaction the pager's idea of where its last journal header
\* stands, and of how many records follow it, is the journal's.
THEOREM JournalTypes == JournalSpec => []JournalTypeOK
  BY LayAlways, LayType, PTL

\* In full-sync mode a journal found after a failure never ends within the records
\* its headers count, however many failures and spills came before.
THEOREM AlwaysPlayableHolds == JournalSpec => []AlwaysPlayable
  BY LayAlways, LayType, PTL

----------------------------------------------------------------------------
\* What the disk holds.

\* The pages a database is made of: a free page has no content.
Needed(d) == (1..d.size) \ d.page[1].free
Valid(d) == /\ d \in DatabaseType /\ d.page[1].free \subseteq 2..d.size
            /\ \A p \in Page : p \notin Needed(d) => d.page[p] = Zero

\* The database file, and what else of it a power failure may leave.  Once a rollback
\* is unsettled no power fails, so what else there is does not matter.
Disk == [file |-> file, wild |-> wild, loose |-> unsettled]
Loosely(D) == [file |-> D.file, wild |-> D.wild, loose |-> TRUE]
FileIs(D, p, c) == D.file.page[p] = c /\ (~D.loose => D.wild.page[p] \subseteq {c})
SizesFrom(D, k) == D.file.size >= k /\ (~D.loose => \A s \in D.wild.size : s >= k)
SizesAre(D, k)  == D.file.size = k /\ (~D.loose => \A s \in D.wild.size : s = k)
\* The file holds database d and nothing else.
Pure(D, d) == SizesAre(D, d.size) /\ \A p \in Needed(d) : FileIs(D, p, d.page[p])
FileZero == \A p \in Page : p > file.size => file.page[p] = Zero

\* The journals that a failure may leave of j.
DamagedAt(i, lv) == IF i.type = "record" /\ lv = "full" THEN Record(i.page, Torn) ELSE Scrap
LeftoverAt(j, n, lost, counted, lv) ==
  [exists |-> TRUE, named |-> TRUE, safe |-> n,
   items |-> [i \in 1..n |-> IF i \in lost THEN DamagedAt(j.items[i], lv)
                             ELSE OnDisk(IF counted THEN j.items[i] ELSE Uncounted(j.items[i]))]]
LeftoversAt(j, lv) ==
  UNION {{LeftoverAt(j, n, lost, counted, lv) : lost \in SUBSET ((j.safe + 1)..n), counted \in BOOLEAN} :
           n \in j.safe..Len(j.items)}
Fates(j, lv) == LeftoversAt(j, lv) \cup {j}
Covered(j, p, lv) == \A L \in Fates(j, lv) : \E i \in Played(L.items) : L.items[i].page = p

\* Whatever a failure leaves of the file and of journal j, playing that back gives d.
Crash(D, j, d, lv) ==
  /\ \A L \in Fates(j, lv) : \A i \in Played(L.items) :
       /\ L.items[i].page \in 1..d.size
       /\ L.items[i].page \in Needed(d) => L.items[i].data = d.page[L.items[i].page]
  /\ \A p \in Needed(d) : FileIs(D, p, d.page[p]) \/ Covered(j, p, lv)
  /\ \A L \in Fates(j, lv) : 1 \in Headers(L.items) => L.items[1].size = d.size
  /\ SizesFrom(D, d.size)
  /\ SizesAre(D, d.size) \/ \A L \in Fates(j, lv) : 1 \in Headers(L.items)

----------------------------------------------------------------------------
\* The data of an open transaction.

Recorded(items, p) == \E i \in 1..Len(items) : items[i].type = "record" /\ items[i].page = p
\* The i-th item, or a record of p, is on the disk, in a part of the journal that the count there covers.
Safely(items, H, safe, i) ==
  items[i].type = "record" /\ i <= safe /\ (i < H \/ i - H <= items[H].was)
Stored(items, H, safe, p) ==
  \E i \in 1..Len(items) : Safely(items, H, safe, i) /\ items[i].page = p

\* What a reader of page p gets.
Cur(m, f, p) == IF m.pg[p].in THEN m.pg[p].data ELSE f.page[p]
\* With it sqlite3pager_dont_rollback does not leave p out of the journal.
Flag(m, p) == m.pager.alwaysRollback \/ m.pg[p].alwaysRollback

SizesOK(m, b, f) == /\ m.pager.origDbSize = b.size /\ b.size <= m.pager.dbSize
                    /\ f.size <= m.pager.dbSize /\ m.pg[1].in

PagerOK(m) == /\ m.pager.aInJournal # {} => m.pager.dirtyCache
              /\ m.pager.state = "RESERVED" \/ (m.pager.journalStarted /\ m.pager.state # "SHARED")
              /\ m.pager.journalStarted => m.pager.dirtyCache

\* The cached header of page p against the pager's bookkeeping.
CachePage(m, b, p) ==
  /\ ~m.pg[p].in => m.pg[p] = Absent
  /\ m.pg[p].in /\ p <= b.size => (m.pg[p].inJournal <=> p \in m.pager.aInJournal)
  /\ m.pg[p].inJournal /\ ~m.pg[p].needSync => m.pager.journalStarted
  /\ ~m.pg[p].in /\ p \in m.pager.aInJournal => m.pager.journalStarted
  /\ m.pg[p].dirty => m.pg[p].inJournal
  /\ m.pg[p].inJournal \/ m.pg[p].needSync => m.pager.dirtyCache
  /\ m.pg[p].needSync => m.pager.needSync

\* The originals of the transaction: every page changed is in the journal as it was,
\* and in the part on the disk unless its header says needSync.
ItemsOK(m, b) ==
  \A i \in 1..Len(m.items) : m.items[i].type = "record" =>
    /\ m.items[i].page \in m.pager.aInJournal
    /\ m.items[i].page \in Needed(b) => m.items[i].data = b.page[m.items[i].page]
OriginalPage(m, b, D, safe, p) ==
  /\ p \in m.pager.aInJournal =>
       /\ Recorded(m.items, p)
       /\ m.pg[p].needSync \/ Stored(m.items, m.pager.journalHdr, safe, p)
  /\ p \notin m.pager.aInJournal => Cur(m, D.file, p) = b.page[p]
  /\ FileIs(D, p, b.page[p]) \/ Stored(m.items, m.pager.journalHdr, safe, p)

\* Page p shows its content in e.
ShowsPage(m, e, f, p) ==
  /\ Cur(m, f, p) = e.page[p]
  /\ m.pg[p].in /\ ~m.pg[p].dirty => m.pg[p].data = f.page[p]
SizeShows(m, e, f) == /\ m.pager.dbSize = e.size /\ 1 <= e.size
                      /\ m.pager.dbSize > f.size => m.pg[m.pager.dbSize].dirty

FlagsOK(m, e, b, s) ==
  /\ \A p \in e.page[1].free \ b.page[1].free : Flag(m, p)
  /\ m.stmt.inUse => \A p \in (e.page[1].free \ s.page[1].free) \cup (s.page[1].free \ b.page[1].free) : Flag(m, p)

\* The originals of the statement: the page is in the statement journal, or went to
\* the journal since the statement began.
InRecs(m, p) == \E i \in 1..Len(m.stmt.recs) : m.stmt.recs[i].page = p
InTail(m, p) == \E i \in (m.stmt.from + 1)..Len(m.items) : m.items[i].type = "record" /\ m.items[i].page = p
Hit(m, p) == InRecs(m, p) \/ InTail(m, p)
StmtRecs(m, s) ==
  /\ \A i \in 1..Len(m.stmt.recs) :
       /\ m.stmt.recs[i] \in RecordType
       /\ m.stmt.recs[i].page \in Needed(s) => m.stmt.recs[i].data = s.page[m.stmt.recs[i].page]
  /\ \A i \in (m.stmt.from + 1)..Len(m.items) :
       m.items[i].type = "record" /\ m.items[i].page \in Needed(s)
         => m.items[i].data = s.page[m.items[i].page]
StmtPage(m, s, b, f, p) ==
  /\ m.pg[p].in /\ p <= s.size => (m.pg[p].inStmt <=> p \in m.stmt.aInStmt)
  /\ m.pg[p].inStmt => p <= s.size
  /\ p \in Needed(s) =>
       /\ p \in m.stmt.aInStmt <=> Hit(m, p)
       /\ ~Hit(m, p) => /\ Cur(m, f, p) = s.page[p]
                        /\ m.pg[p].in /\ ~m.pg[p].dirty => m.pg[p].data = f.page[p]
  /\ Hit(m, p) /\ p <= s.size =>
       /\ p <= b.size => p \in m.pager.aInJournal
       /\ m.pager.state = "EXCLUSIVE" \/ m.pg[p].dirty
       /\ m.pg[p].needSync => m.pg[p].dirty
StmtOpen(m, s, b) ==
  /\ m.stmt.size = s.size /\ b.size <= s.size /\ s.size <= m.pager.dbSize /\ 1 <= s.size
  /\ m.stmt.from <= Len(m.items)
  /\ m.pager.state = "RESERVED" /\ s.size > b.size => m.pg[s.size].dirty
  /\ ~m.pager.dirtyCache => s = b
StmtOK(m, s, b, f) ==
  IF m.stmt.inUse
  THEN StmtOpen(m, s, b) /\ StmtRecs(m, s) /\ \A p \in Page : StmtPage(m, s, b, f, p)
  ELSE m.stmt = NoStmt /\ \A p \in Page : ~m.pg[p].inStmt

\* What every step of a transaction keeps.
CoreOK(m, b, D, safe) ==
  /\ SizesOK(m, b, D.file) /\ PagerOK(m) /\ ItemsOK(m, b)
  /\ \A p \in Page : CachePage(m, b, p)
  /\ \A p \in Needed(b) : OriginalPage(m, b, D, safe, p)
ShowsOK(m, e, f) == SizeShows(m, e, f) /\ \A p \in Needed(e) : ShowsPage(m, e, f, p)

Spilling == at = "txn" \/ job # 0
Control ==
  /\ at \in {"txn", "sync", "store", "stored", "synced"} => job = 0
  /\ job # 0 => job # 1 /\ pg[job].in
  /\ at # "txn" => pager.dirtyCache
  /\ at \in {"spill", "store", "stored", "synced"} => ~pager.needSync /\ pager.journalStarted
  /\ at \in {"stored", "synced"} => Pure(Loosely(Disk), expect)
  /\ at = "synced" => wild = Calm
  /\ ~pager.dirtyCache => expect = base
TxnInv ==
  /\ CoreOK(Memory, base, Disk, jrnl.safe) /\ ShowsOK(Memory, expect, file)
  /\ SizesFrom(Disk, base.size)
  /\ ~jrnl.named \/ pager.state = "RESERVED" => Pure(Disk, base)
  /\ pager.journalStarted => jrnl.named /\ jrnl.safe >= 1
  /\ Spilling => /\ StmtOK(Memory, saved, base, file) /\ FlagsOK(Memory, expect, base, saved)
                 /\ pager.state # "SYNCED"
  /\ Control

\* Between transactions, and while a journal is played back.
IdlePage(p) ==
  /\ ~pg[p].in => pg[p] = Absent
  /\ pg[p].in /\ p \in Needed(expect) => pg[p].data = expect.page[p]
  /\ ~pg[p].dirty /\ ~pg[p].needSync /\ ~pg[p].inJournal /\ ~pg[p].inStmt
IdleInv ==
  /\ at = "idle" => /\ jrnl = NoJournal /\ pager = Closed(file.size) /\ stmt = NoStmt /\ job = 0
                    /\ base = expect /\ saved = expect /\ \A p \in Page : IdlePage(p)
  /\ at = "played" => Pure(Loosely(Disk), expect)
  /\ ~jrnl.named => Pure(Disk, expect)
  /\ jrnl.exists => Crash(Disk, jrnl, expect, level)

\* A removed journal that a power failure may bring back is as good as the one in use.
Harmless(c, p) == p \in Needed(gone.to) => c = gone.to.page[p] \/ Covered(gone.jrnl, p, level)
GoneInv ==
  /\ jrnl.named => jrnl.exists /\ ~gone.jrnl.exists
  /\ gone.jrnl.exists /\ ~unsettled =>
       /\ Valid(gone.to) /\ Crash(Disk, gone.jrnl, gone.to, level)
       /\ \A i \in 1..Len(jrnl.items) :
            jrnl.items[i].type = "record" => Harmless(jrnl.items[i].data, jrnl.items[i].page)
       /\ \A p \in Page : pg[p].in /\ ~(InTxn /\ p \in pager.aInJournal) => Harmless(pg[p].data, p)

DataInv == /\ Valid(expect) /\ Valid(base) /\ Valid(saved) /\ FileZero
           /\ IF InTxn THEN TxnInv ELSE IdleInv
           /\ GoneInv

----------------------------------------------------------------------------
\* What is played back of what is left of a journal.

LEMMA LeftoversAre == ASSUME NEW j PROVE Leftovers(j) = LeftoversAt(j, level)
  BY DEF Leftovers, LeftoversAt, Leftover, LeftoverAt, Damaged, DamagedAt

GoodJournal(j) == j \in JournalType /\ j.safe <= Len(j.items) /\ Sound(j, level)

LEMMA FateFields ==
  ASSUME NEW j, GoodJournal(j), NEW L \in Fates(j, level)
  PROVE  /\ GoodJournal(L) /\ j.safe <= Len(L.items) /\ Len(L.items) <= Len(j.items)
         /\ L.items \in Seq(Item) /\ j.items \in Seq(Item) /\ Len(L.items) \in Nat /\ Len(j.items) \in Nat
         /\ j.safe \in Nat
<1>1. j \in JournalType /\ j.safe <= Len(j.items) /\ Sound(j, level)
  BY DEF GoodJournal
<1>2. CASE L = j
  BY <1>1, <1>2, LenProperties DEF JournalType, GoodJournal
<1>3. CASE L \in Leftovers(j)
  <2>1. L \in JournalType /\ Sound(L, level) /\ L.safe <= Len(L.items)
    BY <1>1, <1>3, LeftoverSound
  <2>2. j.safe <= Len(L.items) /\ Len(L.items) <= Len(j.items)
    BY <1>1, <1>3, LeftoverFields
  <2>3. QED
    BY <1>1, <2>1, <2>2, LenProperties DEF JournalType, GoodJournal
<1>4. QED
  BY <1>2, <1>3, LeftoversAre DEF Fates

LEMMA FateItems ==
  ASSUME NEW j, GoodJournal(j), NEW L \in Fates(j, level)
  PROVE  \A i \in 1..Len(L.items) :
           /\ L.items[i].type = "header" =>
                /\ j.items[i].type = "header" /\ L.items[i].size = j.items[i].size
                /\ L.items[i].nRec = j.items[i].nRec \/ L.items[i].nRec = j.items[i].was
           /\ i <= j.safe /\ j.items[i].type = "header" => L.items[i].type = "header"
           /\ i <= j.safe /\ j.items[i].type # "header" => L.items[i] = j.items[i]
           /\ j.items[i].type = "header" \/ L.items[i] = j.items[i] \/ L.items[i] = Damaged(j.items[i])
           /\ j.items[i].type = "header" => L.items[i].type # "record"
<1>1. j \in JournalType /\ j.safe <= Len(j.items)
  BY DEF GoodJournal
<1>2. CASE L = j
  BY <1>2
<1>3. CASE L \in Leftovers(j)
  BY <1>1, <1>3, LeftoverFields
<1>4. QED
  BY <1>2, <1>3, LeftoversAre DEF Fates

\* Of the records that were not safe none is played back damaged.
LEMMA PlayedOnly ==
  ASSUME NEW j, GoodJournal(j), NEW L \in Fates(j, level), NEW i \in Played(L.items)
  PROVE  /\ i \in 1..Len(L.items) /\ i \in 1..Len(j.items) /\ L.items[i] = j.items[i]
         /\ j.items[i] \in RecordType /\ j.items[i].type = "record"
<1>1. /\ GoodJournal(L) /\ j.safe <= Len(L.items) /\ Len(L.items) <= Len(j.items)
      /\ L.items \in Seq(Item) /\ j.items \in Seq(Item) /\ Len(L.items) \in Nat /\ Len(j.items) \in Nat
      /\ j.safe \in Nat
  BY FateFields
<1>2. i \in 1..Len(L.items) /\ L.items[i] \in RecordType
  BY <1>1, PlayedRecord DEF GoodJournal
<1>3. L.items[i].type = "record" /\ i \in 1..Len(j.items)
  BY <1>1, <1>2 DEF RecordType
<1>4. j.items[i].type # "header" /\ (L.items[i] = j.items[i] \/ L.items[i] = Damaged(j.items[i]))
  BY <1>2, <1>3, FateItems
<1>5. L.items[i] = j.items[i]
  <2> SUFFICES ASSUME L.items[i] = Damaged(j.items[i]), L.items[i] # j.items[i] PROVE FALSE
    BY <1>4
  <2>1. j.items[i].type = "record" /\ level = "full"
    BY <1>3, Items DEF Damaged
  <2>2. ~(i <= j.safe)
    BY <1>2, <1>4, FateItems
  <2> DEFINE h == HeaderOf(L.items, i)
  <2>3. h \in Headers(L.items) /\ i - h <= L.items[h].nRec
    BY DEF Played, Reached
  <2>4. h \in 1..Len(L.items) /\ L.items[h].type = "header" /\ L.items[h].nRec \in Nat
    BY <1>1, <2>3, HeaderAt DEF Headers
  <2>5. h # i
    BY <1>3, <2>4
  <2>6. i - h > 0
    <3> DEFINE S == {g \in Headers(L.items) : g < i} \cup {0}
    <3>1. S \in SUBSET (0..Len(L.items)) /\ S # {}
      BY <1>1, HeaderAt
    <3>2. h \in S
      BY <3>1, <1>1, MaxIn DEF HeaderOf
    <3>3. QED
      BY <3>2, <2>4, <1>2
  <2>7. /\ j.items[h].type = "header" /\ h \in 1..Len(j.items)
        /\ L.items[h].nRec = j.items[h].nRec \/ L.items[h].nRec = j.items[h].was
    BY <1>1, <2>4, FateItems
  <2>8. h \in Headers(j.items)
    BY <2>7 DEF Headers
  <2>9. /\ j.items[h].nRec = 0 \/ h + j.items[h].nRec <= j.safe
        /\ j.items[h].was = 0 \/ h + j.items[h].was <= j.safe
    BY <2>1, <2>8 DEF GoodJournal, Sound
  <2> HIDE DEF h
  <2>10. L.items[h].nRec = 0 \/ h + L.items[h].nRec <= j.safe
    BY <2>7, <2>9
  <2>11. QED
    BY <1>1, <1>2, <2>2, <2>3, <2>4, <2>6, <2>10
<1>6. j.items[i] \in RecordType /\ j.items[i].type = "record"
  BY <1>2, <1>3, <1>5
<1>7. QED
  BY <1>2, <1>3, <1>5, <1>6

\* A counted record that is on the disk is played back whatever is left of the rest.
LEMMA PlayedSafe ==
  ASSUME NEW j, GoodJournal(j), NEW H, NEW size, Shape(j.items, j.safe, H, size, level),
         NEW L \in Fates(j, level), NEW i \in 1..Len(j.items),
         Safely(j.items, H, j.safe, i)
  PROVE  i \in Played(L.items) /\ L.items[i] = j.items[i]
<1>1. /\ GoodJournal(L) /\ j.safe <= Len(L.items) /\ Len(L.items) <= Len(j.items)
      /\ L.items \in Seq(Item) /\ j.items \in Seq(Item) /\ Len(L.items) \in Nat /\ Len(j.items) \in Nat
      /\ j.safe \in Nat
  BY FateFields
<1>s. j.items[i].type = "record" /\ i <= j.safe /\ (i < H \/ i - H <= j.items[H].was)
  BY DEF Safely
<1>2. /\ 1 \in Headers(j.items) /\ H \in Headers(j.items) /\ \A g \in Headers(j.items) : g <= H
      /\ \A k \in 1..Len(j.items) : j.items[k].type # "scrap"
      /\ \A g \in Headers(j.items) : g < H =>
           /\ j.items[g].was = j.items[g].nRec /\ g + j.items[g].nRec + 1 \in Headers(j.items)
           /\ \A x \in (g + 1)..(g + j.items[g].nRec) : x \notin Headers(j.items)
      /\ j.items[H].was <= j.items[H].nRec
  BY DEF Shape
<1>h. \A g \in Headers(j.items) : g \in 1..Len(j.items) /\ g \in Nat
  BY <1>1, HeaderAt
<1>3. ASSUME NEW k \in 1..Len(L.items), k <= j.safe
      PROVE  /\ k \in Headers(L.items) <=> k \in Headers(j.items)
             /\ L.items[k].type # "scrap"
  <2>1. k \in 1..Len(j.items)
    BY <1>1
  <2>2. j.items[k].type # "scrap"
    BY <1>2, <2>1
  <2>3. /\ j.items[k].type = "header" => L.items[k].type = "header"
        /\ j.items[k].type # "header" => L.items[k] = j.items[k]
    BY <1>3, FateItems
  <2>4. QED
    BY <2>1, <2>2, <2>3 DEF Headers
<1>4. ASSUME NEW g \in Headers(L.items)
      PROVE  /\ g \in Headers(j.items) /\ g \in 1..Len(L.items)
             /\ L.items[g].nRec = j.items[g].nRec \/ L.items[g].nRec = j.items[g].was
             /\ L.items[g].nRec \in Nat /\ j.items[g].nRec \in Nat /\ j.items[g].was \in Nat
  <2>1. g \in 1..Len(L.items) /\ L.items[g].type = "header" /\ g \in 1..Len(j.items)
    BY <1>1 DEF Headers
  <2>2. /\ j.items[g].type = "header"
        /\ L.items[g].nRec = j.items[g].nRec \/ L.items[g].nRec = j.items[g].was
    BY <2>1, FateItems
  <2>3. g \in Headers(j.items)
    BY <2>1, <2>2 DEF Headers
  <2>4. QED
    BY <1>1, <2>1, <2>2, <2>3, HeaderAt
<1> DEFINE S == {g \in Headers(L.items) : g < i} \cup {0}
           h == HeaderOf(L.items, i)
<1>5. i \notin Headers(j.items) /\ i # 1 /\ i \in 1..Len(L.items)
  BY <1>1, <1>2, <1>s DEF Headers
<1>6. 1 \in Headers(L.items) /\ 1 \in S
  <2>1. 1 \in Headers(L.items)
    BY <1>1, <1>2, <1>3, <1>5, <1>s
  <2>2. QED
    BY <2>1, <1>5
<1>7. h \in Headers(L.items) /\ h < i /\ \A g \in Headers(L.items) : g < i => g <= h
  <2>1. S \in SUBSET (0..Len(L.items)) /\ S # {}
    BY <1>1, <1>4
  <2>2. h \in S /\ \A y \in S : y <= h
    BY <2>1, <1>1, MaxIn DEF HeaderOf
  <2>3. h # 0
    BY <1>6, <2>2
  <2>4. QED
    BY <2>2, <2>3
<1> HIDE DEF h, S
<1>8. h \in Headers(j.items) /\ h <= H /\ h \in Nat /\ h <= j.safe
  BY <1>1, <1>2, <1>4, <1>7, <1>s, <1>h
<1>9. ASSUME NEW g \in Headers(L.items), g < h
      PROVE  L.items[g].nRec = Last(L.items, g) - g
  <2> DEFINE n == L.items[g].nRec
             T == {f \in Headers(L.items) : f > g} \cup {Len(L.items) + 1}
  <2>0. g \in Headers(j.items) /\ g \in Nat /\ H \in Nat
    BY <1>2, <1>4, <1>h
  <2>1. g \in Headers(j.items) /\ g < H /\ g \in Nat /\ H \in Nat
    BY <2>0, <1>8, <1>9
  <2>a. n = j.items[g].nRec
    BY <1>2, <1>4, <2>1
  <2>2. n \in Nat
    BY <1>4
  <2>3. g + n + 1 \in Headers(j.items) /\ \A x \in (g + 1)..(g + n) : x \notin Headers(j.items)
    BY <1>2, <2>1, <2>a
  <2> HIDE DEF n
  <2>4. \A x \in Headers(j.items) : x > g => x >= g + n + 1
    <3> SUFFICES ASSUME NEW x \in Headers(j.items), x > g PROVE x >= g + n + 1
      OBVIOUS
    <3>1. x \in Nat
      BY <1>h
    <3>2. x \notin (g + 1)..(g + n)
      BY <2>3
    <3>3. QED
      BY <3>1, <3>2, <2>1, <2>2
  <2>5. g + n + 1 <= h
    BY <1>8, <1>9, <2>4
  <2>6. g + n + 1 \in Headers(L.items)
    <3>1. g + n + 1 \in 1..Len(L.items) /\ g + n + 1 <= j.safe
      BY <1>1, <1>8, <2>1, <2>2, <2>5
    <3>2. QED
      BY <1>3, <2>3, <3>1
  <2>7. T \in SUBSET Int /\ g + n + 1 \in T
    <3>1. \A f \in Headers(L.items) : f \in Int
      BY <1>4, <1>h
    <3>2. g + n + 1 > g /\ Len(L.items) + 1 \in Int
      BY <1>1, <2>1, <2>2
    <3>3. QED
      BY <3>1, <3>2, <2>6
  <2>8. \A y \in T : g + n + 1 <= y
    <3>1. \A f \in Headers(L.items) : f > g => g + n + 1 <= f
      BY <1>4, <2>4, <1>h, <2>1, <2>2
    <3>2. g + n + 1 <= Len(L.items) + 1
      BY <1>1, <1>4, <2>6, <2>1, <2>2, <1>h
    <3>3. QED
      BY <3>1, <3>2
  <2>9. Min(T) = g + n + 1
    BY <2>7, <2>8, MinIs
  <2>10. Last(L.items, g) = g + n
    BY <2>9, <2>1, <2>2 DEF Last
  <2>11. QED
    BY <2>10, <2>1, <2>2 DEF n
<1>10. Reached(L.items, h)
  <2>1. \A k \in 1..(h - 1) : L.items[k].type # "scrap"
    BY <1>1, <1>3, <1>8
  <2>2. QED
    BY <2>1, <1>6, <1>7, <1>9 DEF Reached
<1>11. i - h <= L.items[h].nRec
  <2>1. CASE h = H
    <3>1. i - H <= j.items[H].was
      BY <1>7, <1>8, <2>1, <1>s
    <3>2. j.items[H].was <= j.items[H].nRec /\ j.items[h] = j.items[H]
      BY <1>2, <2>1
    <3>3. QED
      BY <1>4, <1>7, <1>8, <2>1, <3>1, <3>2
  <2>2. CASE h # H
    <3> DEFINE n == L.items[h].nRec
    <3>1. h < H /\ H \in Nat
      BY <1>1, <1>2, <1>8, <2>2, HeaderAt
    <3>a. n = j.items[h].nRec /\ h + j.items[h].nRec + 1 \in Headers(j.items)
      BY <1>2, <1>4, <1>7, <1>8, <3>1
    <3>2. n \in Nat
      BY <1>4, <1>7
    <3>b. h + n + 1 \in Headers(j.items)
      BY <3>a
    <3> HIDE DEF n
    <3>3. CASE i - h > n
      <4>1. h + n + 1 <= i /\ h + n + 1 # i
        BY <1>5, <1>8, <3>2, <3>3, <3>b
      <4>2. h + n + 1 \in Headers(L.items)
        <5>1. h + n + 1 \in 1..Len(L.items) /\ h + n + 1 <= j.safe
          BY <1>1, <1>8, <1>s, <3>2, <4>1
        <5>2. QED
          BY <1>3, <5>1, <3>b
      <4>3. QED
        BY <1>7, <1>8, <3>2, <4>1, <4>2
    <3>4. QED
      BY <1>8, <3>2, <3>3 DEF n
  <2>3. QED
    BY <2>1, <2>2
<1>12. \A k \in h..i : L.items[k].type # "scrap"
  <2>1. h \in 1..Len(L.items)
    BY <1>4, <1>7
  <2>2. QED
    BY <1>1, <1>3, <1>5, <1>s, <2>1
<1>13. i \in Played(L.items)
  BY <1>5, <1>10, <1>11, <1>12 DEF Played, h
<1>14. L.items[i] = j.items[i]
  BY <1>13, PlayedOnly
<1>15. QED
  BY <1>13, <1>14

LEMMA StoredCovered ==
  ASSUME NEW j, GoodJournal(j), NEW H, NEW size, Shape(j.items, j.safe, H, size, level),
         NEW p, Stored(j.items, H, j.safe, p)
  PROVE  Covered(j, p, level)
<1>1. PICK i \in 1..Len(j.items) : Safely(j.items, H, j.safe, i) /\ j.items[i].page = p
  BY DEF Stored
<1>2. ASSUME NEW L \in Fates(j, level) PROVE \E k \in Played(L.items) : L.items[k].page = p
  <2>1. i \in Played(L.items) /\ L.items[i] = j.items[i]
    BY <1>1, PlayedSafe
  <2>2. QED
    BY <1>1, <2>1
<1>3. QED
  BY <1>2 DEF Covered

LEMMA FrozenItem ==
  ASSUME NEW i \in Item, i.type = "header" => i.was = i.nRec, NEW counted \in BOOLEAN
  PROVE  OnDisk(IF counted THEN i ELSE Uncounted(i)) = i
<1>1. CASE i.type = "header"
  <2>1. i \in HeaderType
    BY <1>1, ItemTypes
  <2>2. Uncounted(i) = i
    BY <1>1, <2>1 DEF Uncounted, HeaderType
  <2>3. OnDisk(i) = i
    BY <1>1, <2>1 DEF OnDisk, HeaderType
  <2>4. QED
    BY <2>2, <2>3
<1>2. CASE i.type # "header"
  BY <1>2 DEF OnDisk, Uncounted
<1>3. QED
  BY <1>1, <1>2

\* What a failure left, the next failure leaves as it is.
LEMMA FrozenFates ==
  ASSUME NEW j, GoodJournal(j), NEW L \in Leftovers(j)
  PROVE  Fates(L, level) = {L}
<1>1. /\ L \in JournalType /\ L.exists /\ L.named /\ L.safe = Len(L.items)
      /\ \A i \in 1..Len(L.items) : L.items[i].type = "header" => L.items[i].was = L.items[i].nRec
  BY LeftoverFields DEF GoodJournal
<1> DEFINE n == Len(L.items)
<1>2. L.items \in Seq(Item) /\ n \in Nat
  BY <1>1, LenProperties DEF JournalType
<1>3. ASSUME NEW lost \in SUBSET ((n + 1)..n), NEW counted \in BOOLEAN
      PROVE  LeftoverAt(L, n, lost, counted, level) = L
  <2>1. lost = {}
    BY <1>2
  <2> DEFINE s == [i \in 1..n |-> IF i \in lost THEN DamagedAt(L.items[i], level)
                                  ELSE OnDisk(IF counted THEN L.items[i] ELSE Uncounted(L.items[i]))]
  <2>2. ASSUME NEW i \in 1..n PROVE s[i] = L.items[i]
    <3>1. L.items[i] \in Item
      BY <1>2, ItemAt
    <3>2. OnDisk(IF counted THEN L.items[i] ELSE Uncounted(L.items[i])) = L.items[i]
      BY <1>1, <3>1, FrozenItem
    <3>3. s[i] = OnDisk(IF counted THEN L.items[i] ELSE Uncounted(L.items[i]))
      BY <2>1
    <3>4. QED
      BY <3>2, <3>3
  <2>3. s = [i \in 1..n |-> s[i]]
    OBVIOUS
  <2>4. LeftoverAt(L, n, lost, counted, level) = [exists |-> TRUE, named |-> TRUE, safe |-> n, items |-> s]
    BY DEF LeftoverAt
  <2> HIDE DEF s
  <2>5. L.items = [i \in 1..n |-> L.items[i]]
    BY <1>2
  <2>6. s = L.items
    BY <2>2, <2>3, <2>5
  <2>7. L = [exists |-> L.exists, items |-> L.items, safe |-> L.safe, named |-> L.named]
    BY <1>1 DEF JournalType
  <2>8. L = [exists |-> TRUE, named |-> TRUE, safe |-> n, items |-> s]
    BY <1>1, <2>6, <2>7
  <2>9. QED
    BY <2>4, <2>8
<1>4. LeftoversAt(L, level) =
        UNION {{LeftoverAt(L, k, lost, counted, level) :
                  lost \in SUBSET ((n + 1)..k), counted \in BOOLEAN} : k \in n..n}
  BY <1>1 DEF LeftoversAt
<1> HIDE DEF n
<1>5. n..n = {n}
  BY <1>2
<1>6. \A M \in LeftoversAt(L, level) : M = L
  BY <1>3, <1>4, <1>5
<1>7. QED
  BY <1>6 DEF Fates

\* The file f is what a power failure leaves of D.
Survives(D, f) ==
  /\ f.size \in D.wild.size \cup {D.file.size}
  /\ \A p \in Page : IF p > f.size THEN f.page[p] = Zero ELSE f.page[p] \in D.wild.page[p] \cup {D.file.page[p]}
OnlyFile(f) == [file |-> f, wild |-> Calm, loose |-> FALSE]

LEMMA OnlyFileIs ==
  ASSUME NEW f
  PROVE  /\ \A p \in Page : \A c : FileIs(OnlyFile(f), p, c) <=> f.page[p] = c
         /\ \A k : SizesFrom(OnlyFile(f), k) <=> f.size >= k
         /\ \A k : SizesAre(OnlyFile(f), k) <=> f.size = k
  BY DEF OnlyFile, FileIs, SizesFrom, SizesAre, Calm

LEMMA SurvivesIs ==
  ASSUME NEW D, ~D.loose, NEW f \in DatabaseType, Survives(D, f)
  PROVE  /\ \A p \in Page : \A c : FileIs(D, p, c) /\ p <= f.size => f.page[p] = c
         /\ \A k : SizesFrom(D, k) => f.size >= k
         /\ \A k : SizesAre(D, k) => f.size = k
<1>1. ASSUME NEW p \in Page, NEW c, FileIs(D, p, c), p <= f.size PROVE f.page[p] = c
  <2>1. f.page[p] \in D.wild.page[p] \cup {D.file.page[p]}
    BY <1>1, Contents, PageOne DEF Survives
  <2>2. QED
    BY <1>1, <2>1 DEF FileIs
<1>2. \A k : SizesFrom(D, k) => f.size >= k
  BY DEF SizesFrom, Survives
<1>3. \A k : SizesAre(D, k) => f.size = k
  BY DEF SizesAre, Survives
<1>4. QED
  BY <1>1, <1>2, <1>3

LEMMA NeededPages ==
  ASSUME NEW d \in DatabaseType, NEW p \in Needed(d)
  PROVE  p \in Page /\ p <= d.size /\ p \in Nat /\ d.size \in Nat
  BY Contents, PageOne DEF Needed, Page

LEMMA SurvivePure ==
  ASSUME NEW D, ~D.loose, NEW f \in DatabaseType, Survives(D, f), NEW d \in DatabaseType, Pure(D, d)
  PROVE  Pure(OnlyFile(f), d)
<1>1. f.size = d.size
  BY SurvivesIs DEF Pure
<1>2. ASSUME NEW p \in Needed(d) PROVE f.page[p] = d.page[p]
  <2>1. p \in Page /\ p <= f.size
    BY <1>1, NeededPages
  <2>2. FileIs(D, p, d.page[p])
    BY DEF Pure
  <2>3. QED
    BY <2>1, <2>2, SurvivesIs
<1>3. QED
  BY <1>1, <1>2, NeededPages, OnlyFileIs DEF Pure

LEMMA SurviveCrash ==
  ASSUME NEW D, ~D.loose, NEW f \in DatabaseType, Survives(D, f), NEW d \in DatabaseType,
         NEW j, GoodJournal(j), NEW L \in Leftovers(j), Crash(D, j, d, level)
  PROVE  Crash(OnlyFile(f), L, d, level)
<1>1. Fates(L, level) = {L} /\ L \in Fates(j, level)
  BY FrozenFates, LeftoversAre DEF Fates
<1>2. f.size >= d.size
  BY SurvivesIs DEF Crash
<1>3. ASSUME NEW p \in Needed(d) PROVE FileIs(OnlyFile(f), p, d.page[p]) \/ Covered(L, p, level)
  <2>1. p \in Page /\ p <= f.size
    BY <1>2, NeededPages, Contents
  <2>2. CASE FileIs(D, p, d.page[p])
    BY <2>1, <2>2, SurvivesIs, OnlyFileIs
  <2>3. CASE Covered(j, p, level)
    BY <1>1, <2>3 DEF Covered
  <2>4. QED
    BY <2>2, <2>3 DEF Crash
<1>4. SizesAre(OnlyFile(f), d.size) \/ \A M \in Fates(L, level) : 1 \in Headers(M.items)
  <2>1. CASE SizesAre(D, d.size)
    BY <2>1, SurvivesIs, OnlyFileIs
  <2>2. CASE \A M \in Fates(j, level) : 1 \in Headers(M.items)
    BY <1>1, <2>2
  <2>3. QED
    BY <2>1, <2>2 DEF Crash
<1>5. SizesFrom(OnlyFile(f), d.size)
  BY <1>2, OnlyFileIs
<1>6. \A M \in Fates(L, level) : 1 \in Headers(M.items) => M.items[1].size = d.size
  BY <1>1 DEF Crash
<1>7. \A M \in Fates(L, level) : \A i \in Played(M.items) :
        /\ M.items[i].page \in 1..d.size
        /\ M.items[i].page \in Needed(d) => M.items[i].data = d.page[M.items[i].page]
  BY <1>1 DEF Crash
<1>8. QED
  BY <1>3, <1>4, <1>5, <1>6, <1>7 DEF Crash

LEMMA CalmFields == Calm.size = {} /\ \A p \in Page : Calm.page[p] = {}
  BY DEF Calm

LEMMA DiskFields ==
  /\ Disk.file = file /\ Disk.wild = wild /\ Disk.loose = unsettled
  /\ Disk' = [file |-> file', wild |-> wild', loose |-> unsettled']
  /\ Disk'.file = file' /\ Disk'.wild = wild' /\ Disk'.loose = unsettled'
  BY DEF Disk

LEMMA DiskIs ==
  /\ \A p, c : FileIs(Disk, p, c) <=> file.page[p] = c /\ (~unsettled => wild.page[p] \subseteq {c})
  /\ \A k : SizesFrom(Disk, k) <=> file.size >= k /\ (~unsettled => \A s \in wild.size : s >= k)
  /\ \A k : SizesAre(Disk, k) <=> file.size = k /\ (~unsettled => \A s \in wild.size : s = k)
  /\ \A p, c : FileIs(Disk', p, c) <=> file'.page[p] = c /\ (~unsettled' => wild'.page[p] \subseteq {c})
  /\ \A k : SizesFrom(Disk', k) <=> file'.size >= k /\ (~unsettled' => \A s \in wild'.size : s >= k)
  /\ \A k : SizesAre(Disk', k) <=> file'.size = k /\ (~unsettled' => \A s \in wild'.size : s = k)
  BY DEF Disk, FileIs, SizesFrom, SizesAre

LEMMA LooselyPure ==
  ASSUME NEW d
  PROVE  /\ Pure(Loosely(Disk), d) <=> file.size = d.size /\ \A p \in Needed(d) : file.page[p] = d.page[p]
         /\ Pure(Loosely(Disk'), d) <=> file'.size = d.size /\ \A p \in Needed(d) : file'.page[p] = d.page[p]
<1>1. Loosely(Disk) = [file |-> file, wild |-> wild, loose |-> TRUE]
  BY DiskFields DEF Loosely
<1>2. Loosely(Disk') = [file |-> file', wild |-> wild', loose |-> TRUE]
  BY DiskFields DEF Loosely
<1>3. QED
  BY <1>1, <1>2 DEF Pure, FileIs, SizesAre

\* The journal of an open transaction.
JournalOf(m, b) == m.pager.aInJournal \subseteq 1..m.pager.origDbSize /\ m.pager.origDbSize = b.size

LEMMA TxnCrash ==
  ASSUME LayInv, InTxn, CoreOK(Memory, base, Disk, jrnl.safe), SizesFrom(Disk, base.size),
         Pure(Disk, base) \/ jrnl.safe >= 1
  PROVE  Crash(Disk, jrnl, base, level)
<1> DEFINE H == pager.journalHdr
<1>1. /\ GoodJournal(jrnl) /\ Shape(jrnl.items, jrnl.safe, H, pager.origDbSize, level)
      /\ pager.aInJournal \subseteq 1..pager.origDbSize
  BY OpenJournal, JournalSound, Typed DEF GoodJournal
<1>2. pager.origDbSize = base.size
  BY MemoryFields DEF CoreOK, SizesOK
<1> HIDE DEF H
<1>3. ASSUME NEW L \in Fates(jrnl, level), NEW i \in Played(L.items)
      PROVE  /\ L.items[i].page \in 1..base.size
             /\ L.items[i].page \in Needed(base) => L.items[i].data = base.page[L.items[i].page]
  <2>1. i \in 1..Len(jrnl.items) /\ L.items[i] = jrnl.items[i] /\ jrnl.items[i].type = "record"
    BY <1>1, PlayedOnly
  <2>2. /\ jrnl.items[i].page \in pager.aInJournal
        /\ jrnl.items[i].page \in Needed(base) => jrnl.items[i].data = base.page[jrnl.items[i].page]
    BY <2>1, MemoryFields DEF CoreOK, ItemsOK
  <2>3. QED
    BY <1>1, <1>2, <2>1, <2>2
<1>4. ASSUME NEW p \in Needed(base)
      PROVE  FileIs(Disk, p, base.page[p]) \/ Covered(jrnl, p, level)
  <2>1. FileIs(Disk, p, base.page[p]) \/ Stored(jrnl.items, H, jrnl.safe, p)
    BY MemoryFields DEF CoreOK, OriginalPage, H
  <2>2. QED
    BY <1>1, <2>1, StoredCovered
<1>5. ASSUME NEW L \in Fates(jrnl, level), 1 \in Headers(L.items) PROVE L.items[1].size = base.size
  <2>1. 1 \in 1..Len(L.items) /\ L.items[1].type = "header"
    BY <1>5 DEF Headers
  <2>2. L.items[1].size = jrnl.items[1].size
    BY <1>1, <2>1, FateItems
  <2>3. QED
    BY <1>1, <1>2, <2>2 DEF Shape
<1>6. SizesAre(Disk, base.size) \/ \A L \in Fates(jrnl, level) : 1 \in Headers(L.items)
  <2>1. CASE Pure(Disk, base)
    BY <2>1 DEF Pure
  <2>2. CASE jrnl.safe >= 1
    <3> SUFFICES ASSUME NEW L \in Fates(jrnl, level) PROVE 1 \in Headers(L.items)
      OBVIOUS
    <3>1. 1 \in Headers(jrnl.items)
      BY <1>1 DEF Shape
    <3>2. jrnl.items[1].type = "header"
      BY <3>1 DEF Headers
    <3>3. /\ jrnl.safe <= Len(L.items) /\ Len(L.items) \in Nat /\ jrnl.safe \in Nat
      BY <1>1, FateFields
    <3>4. 1 \in 1..Len(L.items)
      BY <2>2, <3>3
    <3>5. L.items[1].type = "header"
      BY <1>1, <2>2, <3>2, <3>4, FateItems
    <3>6. QED
      BY <3>4, <3>5 DEF Headers
  <2>3. QED
    BY <2>1, <2>2
<1>7. QED
  BY <1>3, <1>4, <1>5, <1>6 DEF Crash

\* What a failure now would be recovered to.
LEMMA NowCrash ==
  ASSUME LayInv, DataInv
  PROVE  /\ Valid(Target) /\ Target \in DatabaseType
         /\ jrnl.exists => Crash(Disk, jrnl, Target, level)
         /\ ~jrnl.named => Pure(Disk, Target)
<1>1. CASE InTxn
  <2>1. Target = base
    BY <1>1 DEF Target, InTxn
  <2>2. TxnInv
    BY <1>1 DEF DataInv
  <2>3. ~jrnl.named \/ pager.state = "RESERVED" => Pure(Disk, base)
    BY <2>2 DEF TxnInv
  <2>4. pager.state = "RESERVED" \/ pager.journalStarted
    BY <2>2, MemoryFields DEF TxnInv, CoreOK, PagerOK
  <2>5. Pure(Disk, base) \/ jrnl.safe >= 1
    BY <2>2, <2>3, <2>4 DEF TxnInv
  <2>6. Crash(Disk, jrnl, base, level)
    BY <1>1, <2>2, <2>5, TxnCrash DEF TxnInv
  <2>7. QED
    BY <2>1, <2>3, <2>6, Typed DEF DataInv
<1>2. CASE ~InTxn
  <2>1. Target = expect
    BY <1>2 DEF Target, InTxn, LayInv, TypeInv, TxnStates
  <2>2. QED
    BY <1>2, <2>1, Typed DEF DataInv, IdleInv
<1>3. QED
  BY <1>1, <1>2

\* Playing back what is in the journal now.
LEMMA PlaybackGives ==
  ASSUME LayInv, FileZero, NEW d \in DatabaseType, Crash(Disk, jrnl, d, level),
         NEW f, f = PlaybackFile(jrnl.items)
  PROVE  /\ f \in DatabaseType /\ f.size = d.size
         /\ \A p \in Needed(d) : f.page[p] = d.page[p]
         /\ \A p \in Page : p > f.size => f.page[p] = Zero
         /\ \A p \in Needed(d) : FileIs(Disk, p, d.page[p]) => f.page[p] = file.page[p]
         /\ SizesAre(Disk, d.size) => f.size = file.size
<1> DEFINE j == jrnl
<1>1. GoodJournal(j) /\ j \in JournalType /\ j.items \in Seq(Item) /\ j \in Fates(j, level)
  BY Typed, JournalSound DEF GoodJournal, Fates, JournalType
<1> HIDE DEF j
<1>2. /\ f \in DatabaseType
      /\ 1 \notin Headers(j.items) => f = file
      /\ 1 \in Headers(j.items) =>
           /\ f.size = j.items[1].size
           /\ \A p \in Page :
                \/ /\ \A i \in Played(j.items) : j.items[i].page # p
                   /\ f.page[p] = IF p > f.size THEN Zero ELSE file.page[p]
                \/ \E i \in Played(j.items) : j.items[i].page = p /\ f.page[p] = j.items[i].data
  BY <1>1, Typed, PlaybackFields DEF GoodJournal, j
<1>3. \A i \in Played(j.items) : /\ j.items[i].page \in 1..d.size
                                 /\ j.items[i].page \in Needed(d) => j.items[i].data = d.page[j.items[i].page]
  BY <1>1 DEF Crash, j
<1>4. /\ 1 \in Headers(j.items) => j.items[1].size = d.size
      /\ SizesAre(Disk, d.size) \/ 1 \in Headers(j.items)
  BY <1>1 DEF Crash, j
<1>5. \A p \in Needed(d) : FileIs(Disk, p, d.page[p]) \/ \E i \in Played(j.items) : j.items[i].page = p
  BY <1>1 DEF Crash, Covered, j
<1>6. d.size \in Nat
  BY Contents
<1>7. CASE 1 \notin Headers(j.items)
  <2>1. f = file /\ f.size = d.size
    BY <1>2, <1>4, <1>7, DiskIs
  <2>2. Played(j.items) = {}
    BY <1>7 DEF Played, Reached
  <2>3. \A p \in Needed(d) : f.page[p] = d.page[p]
    BY <1>5, <2>1, <2>2, DiskIs
  <2>4. QED
    BY <1>2, <2>1, <2>3, DiskIs DEF FileZero
<1>8. CASE 1 \in Headers(j.items)
  <2>1. f.size = d.size
    BY <1>2, <1>4, <1>8
  <2>2. ASSUME NEW p \in Needed(d)
        PROVE  f.page[p] = d.page[p] /\ (FileIs(Disk, p, d.page[p]) => f.page[p] = file.page[p])
    <3>1. p \in Page /\ ~(p > f.size)
      BY <2>1, NeededPages
    <3>2. CASE \A i \in Played(j.items) : j.items[i].page # p
      <4>1. f.page[p] = file.page[p]
        BY <1>2, <1>8, <3>1, <3>2
      <4>2. FileIs(Disk, p, d.page[p])
        BY <1>5, <3>2
      <4>3. QED
        BY <4>1, <4>2, DiskIs
    <3>3. CASE \E i \in Played(j.items) : j.items[i].page = p /\ f.page[p] = j.items[i].data
      BY <1>3, <3>3, DiskIs
    <3>4. QED
      BY <1>2, <1>8, <3>1, <3>2, <3>3
  <2>3. ASSUME NEW p \in Page, p > f.size PROVE f.page[p] = Zero
    <3>1. p \in Nat /\ p \notin 1..d.size
      BY <1>6, <2>1, <2>3, PageOne
    <3>2. QED
      BY <1>2, <1>3, <1>8, <2>3, <3>1
  <2>4. QED
    BY <1>2, <2>1, <2>2, <2>3, DiskIs
<1>9. QED
  BY <1>7, <1>8

----------------------------------------------------------------------------
\* The end of a transaction, failures and recovery.

CleanCache(cache, e) ==
  \A p \in Page : /\ ~cache[p].in => cache[p] = Absent
                  /\ cache[p].in /\ p \in Needed(e) => cache[p].data = e.page[p]
                  /\ ~cache[p].dirty /\ ~cache[p].needSync /\ ~cache[p].inJournal /\ ~cache[p].inStmt
HarmlessCache(cache, j, to, lv) ==
  \A p \in Page : cache[p].in /\ p \in Needed(to) => cache[p].data = to.page[p] \/ Covered(j, p, lv)

LEMMA NoCacheClean ==
  ASSUME NEW e, NEW j, NEW to
  PROVE  CleanCache(NoCache, e) /\ HarmlessCache(NoCache, j, to, level)
  BY DEF NoCache, Absent, CleanCache, HarmlessCache

LEMMA NotInTxn ==
  /\ at \in {"idle", "played", "down", "stuck"} => ~InTxn
  /\ at' \in {"idle", "played", "down", "stuck"} => ~InTxn'
  /\ at' \in TxnStates => InTxn'
  BY DEF InTxn, TxnStates

LEMMA IdleGone ==
  ASSUME gone'.jrnl.exists /\ ~unsettled' =>
           /\ Valid(gone'.to) /\ Crash(Disk', gone'.jrnl, gone'.to, level')
           /\ HarmlessCache(pg', gone'.jrnl, gone'.to, level'),
         jrnl'.items = <<>>, ~jrnl'.named
  PROVE  GoneInv'
<1>1. ~jrnl'.named /\ jrnl'.items = <<>> /\ Len(jrnl'.items) = 0
  OBVIOUS
<1>2. ASSUME gone'.jrnl.exists, ~unsettled', NEW p \in Page, pg'[p].in PROVE Harmless(pg[p].data, p)'
  BY <1>2 DEF Harmless, HarmlessCache
<1>3. QED
  BY <1>1, <1>2 DEF GoneInv

LEMMA UnwritelockData ==
  ASSUME LayInv, DataInv, NEW to, NEW cache \in [Page -> PgHdr], Unwritelock(to, cache),
         level' = level, UNCHANGED <<file, wild>>, Valid(expect'), Pure(Disk', expect'),
         CleanCache(cache, expect'),
         jrnl.exists /\ ~unsettled' => /\ Valid(to) /\ Crash(Disk', jrnl, to, level)
                                       /\ HarmlessCache(cache, jrnl, to, level)
  PROVE  DataInv'
<1>1. /\ jrnl' = NoJournal /\ gone' = [jrnl |-> jrnl, to |-> to] /\ pager' = Closed(file.size)
      /\ stmt' = NoStmt /\ pg' = cache /\ at' = "idle" /\ job' = 0
      /\ base' = expect' /\ saved' = expect'
  BY DEF Unwritelock
<1>2. ~InTxn'
  BY <1>1, NotInTxn
<1>3. FileZero'
  BY DEF DataInv, FileZero
<1>4. ~jrnl'.exists /\ ~jrnl'.named /\ jrnl'.items = <<>>
  BY <1>1, NoJournalSound
<1>5. IdleInv'
  <2>1. \A p \in Page : IdlePage(p)'
    BY <1>1 DEF CleanCache, IdlePage
  <2>2. QED
    BY <1>1, <1>4, <2>1 DEF IdleInv
<1>6. GoneInv'
  BY <1>1, <1>4, IdleGone
<1>7. Valid(expect)' /\ Valid(base)' /\ Valid(saved)'
  BY <1>1
<1>8. QED
  BY <1>2, <1>3, <1>5, <1>6, <1>7 DEF DataInv

LEMMA QuietDisk == UNCHANGED <<file, wild, unsettled>> => Disk' = Disk
  BY DEF Disk

\* The pages that stay in the cache when a transaction ends well.
LEMMA KeptClean ==
  ASSUME LayInv, TxnInv, InTxn, ~pager.needSync \/ ~pager.dirtyCache
  PROVE  /\ CleanCache(Kept(pg), expect) /\ HarmlessCache(Kept(pg), jrnl, base, level)
         /\ Kept(pg) \in [Page -> PgHdr]
<1> DEFINE k == Kept(pg)
<1>1. /\ k \in [Page -> PgHdr]
      /\ \A p \in Page : /\ k[p].in = pg[p].in /\ k[p].data = pg[p].data
                         /\ ~k[p].dirty /\ ~k[p].inJournal /\ ~k[p].needSync /\ ~k[p].inStmt
                         /\ k[p].alwaysRollback = pg[p].alwaysRollback
  BY Typed, KeptFields
<1> HIDE DEF k
<1>2. ASSUME NEW p \in Page
      PROVE  /\ ~pg[p].in => pg[p] = Absent
             /\ pg[p].in /\ p \in Needed(expect) => pg[p].data = expect.page[p]
             /\ pg[p].in /\ p \in Needed(base) => pg[p].data = base.page[p] \/ Covered(jrnl, p, level)
  <2>1. CachePage(Memory, base, p)
    BY DEF TxnInv, CoreOK
  <2>2. p \in Needed(expect) => ShowsPage(Memory, expect, file, p)
    BY DEF TxnInv, ShowsOK
  <2>3. p \in Needed(base) => OriginalPage(Memory, base, Disk, jrnl.safe, p)
    BY DEF TxnInv, CoreOK
  <2>4. pager.aInJournal # {} => pager.dirtyCache
    BY MemoryFields DEF TxnInv, CoreOK, PagerOK
  <2>5. p \in pager.aInJournal => ~pg[p].needSync
    BY <2>1, <2>4, MemoryFields DEF CachePage
  <2>6. p \in Needed(base) /\ p \in pager.aInJournal => Stored(jrnl.items, pager.journalHdr, jrnl.safe, p)
    BY <2>3, <2>5, MemoryFields DEF OriginalPage
  <2>7. p \in Needed(base) /\ p \notin pager.aInJournal /\ pg[p].in => pg[p].data = base.page[p]
    BY <2>3, MemoryFields DEF OriginalPage, Cur
  <2>8. /\ GoodJournal(jrnl) /\ Shape(jrnl.items, jrnl.safe, pager.journalHdr, pager.origDbSize, level)
    BY OpenJournal, JournalSound, Typed DEF GoodJournal
  <2>9. p \in Needed(base) /\ p \in pager.aInJournal => Covered(jrnl, p, level)
    BY <2>6, <2>8, StoredCovered
  <2>10. pg[p].in /\ p \in Needed(expect) => pg[p].data = expect.page[p]
    BY <2>2, MemoryFields DEF ShowsPage, Cur
  <2>11. QED
    BY <2>1, <2>7, <2>9, <2>10, MemoryFields DEF CachePage
<1>3. ASSUME NEW p \in Page, ~pg[p].in PROVE k[p] = Absent
  <2>1. pg[p] = Absent
    BY <1>2, <1>3
  <2>2. k[p] \in PgHdr /\ pg[p].data = Zero /\ pg[p].alwaysRollback = FALSE
    BY <1>1, <2>1 DEF Absent
  <2> DEFINE g == k[p]
  <2>3. /\ g \in PgHdr /\ g.in = FALSE /\ g.data = Zero /\ g.alwaysRollback = FALSE
        /\ ~g.dirty /\ ~g.inJournal /\ ~g.needSync /\ ~g.inStmt
    BY <1>1, <1>3, <2>2
  <2> HIDE DEF g
  <2>4. g = [in |-> g.in, data |-> g.data, dirty |-> g.dirty, inJournal |-> g.inJournal,
             needSync |-> g.needSync, inStmt |-> g.inStmt, alwaysRollback |-> g.alwaysRollback]
    BY <2>3 DEF PgHdr
  <2>5. g.dirty = FALSE /\ g.inJournal = FALSE /\ g.needSync = FALSE /\ g.inStmt = FALSE
    BY <2>3 DEF PgHdr
  <2>6. g = Absent
    BY <2>3, <2>4, <2>5 DEF Absent
  <2>7. QED
    BY <2>6 DEF g
<1>4. CleanCache(k, expect)
  BY <1>1, <1>2, <1>3 DEF CleanCache
<1>5. HarmlessCache(k, jrnl, base, level)
  BY <1>1, <1>2 DEF HarmlessCache
<1>6. QED
  BY <1>1, <1>4, <1>5 DEF k

LEMMA TxnFacts ==
  ASSUME DataInv, InTxn
  PROVE  TxnInv /\ Valid(expect) /\ Valid(base) /\ Valid(saved) /\ FileZero /\ GoneInv
         /\ CoreOK(Memory, base, Disk, jrnl.safe) /\ ShowsOK(Memory, expect, file) /\ Control
         /\ PagerOK(Memory) /\ SizesOK(Memory, base, file)
  BY DiskFields DEF DataInv, TxnInv, CoreOK

LEMMA DeleteJournalData == LayInv /\ DataInv /\ DeleteJournal => DataInv'
<1> SUFFICES ASSUME LayInv, DataInv, DeleteJournal PROVE DataInv'
  OBVIOUS
<1>1. /\ at = "synced" /\ expect' = expect /\ Unwritelock(base, Kept(pg))
      /\ UNCHANGED <<level, file, wild, unsettled, left>>
  BY DEF DeleteJournal
<1>2. InTxn /\ TxnInv
  BY <1>1, TxnFacts DEF InTxn
<1>3. Target = base
  BY <1>1 DEF Target
<1>4. Control
  BY <1>2 DEF TxnInv
<1>5. ~pager.needSync /\ Pure(Loosely(Disk), expect) /\ wild = Calm
  BY <1>1, <1>4 DEF Control
<1>6. Pure(Disk, expect)
  <2>1. file.size = expect.size /\ \A p \in Needed(expect) : file.page[p] = expect.page[p]
    BY <1>5, LooselyPure
  <2>2. \A p \in Needed(expect) : p \in Page
    BY NeededPages, Typed
  <2>3. QED
    BY <1>5, <2>1, <2>2, DiskIs DEF Pure, Calm
<1>7. Disk' = Disk
  BY <1>1, QuietDisk
<1>8. jrnl.exists => Crash(Disk, jrnl, base, level)
  BY <1>3, NowCrash
<1>9. CleanCache(Kept(pg), expect) /\ HarmlessCache(Kept(pg), jrnl, base, level)
      /\ Kept(pg) \in [Page -> PgHdr]
  BY <1>2, <1>5, KeptClean
<1>10. Valid(base) /\ Valid(expect)
  BY DEF DataInv
<1>11. QED
  BY <1>1, <1>6, <1>7, <1>8, <1>9, <1>10, UnwritelockData

LEMMA GiveUpData == LayInv /\ DataInv /\ GiveUp => DataInv'
<1> SUFFICES ASSUME LayInv, DataInv, GiveUp PROVE DataInv'
  OBVIOUS
<1>1. /\ at = "txn" /\ ~pager.dirtyCache /\ expect' = expect /\ Unwritelock(base, Kept(pg))
      /\ UNCHANGED <<level, file, wild, unsettled, left>>
  BY DEF GiveUp
<1>2. InTxn /\ TxnInv
  BY <1>1, TxnFacts DEF InTxn
<1>3. Target = base
  BY <1>1 DEF Target
<1>4. expect = base
  BY <1>1, <1>2 DEF TxnInv, Control
<1>5. pager.state = "RESERVED"
  BY <1>1, <1>2, MemoryFields DEF TxnInv, CoreOK, PagerOK
<1>6. Pure(Disk, expect)
  BY <1>2, <1>4, <1>5 DEF TxnInv
<1>7. Disk' = Disk
  BY <1>1, QuietDisk
<1>8. jrnl.exists => Crash(Disk, jrnl, base, level)
  BY <1>3, NowCrash
<1>9. CleanCache(Kept(pg), expect) /\ HarmlessCache(Kept(pg), jrnl, base, level)
      /\ Kept(pg) \in [Page -> PgHdr]
  BY <1>1, <1>2, KeptClean
<1>10. Valid(base) /\ Valid(expect)
  BY DEF DataInv
<1>11. QED
  BY <1>1, <1>6, <1>7, <1>8, <1>9, <1>10, UnwritelockData

LEMMA RollbackData == LayInv /\ DataInv /\ Rollback => DataInv'
<1> SUFFICES ASSUME LayInv, DataInv, Rollback PROVE DataInv'
  OBVIOUS
<1>1. /\ at = "txn" /\ pager.state = "RESERVED" /\ expect' = base /\ Unwritelock(base, NoCache)
      /\ UNCHANGED <<level, file, wild, unsettled, left>>
  BY DEF Rollback
<1>2. InTxn /\ TxnInv
  BY <1>1, TxnFacts DEF InTxn
<1>3. Target = base
  BY <1>1 DEF Target
<1>4. Pure(Disk, base)
  BY <1>1, <1>2 DEF TxnInv
<1>5. Disk' = Disk
  BY <1>1, QuietDisk
<1>6. jrnl.exists => Crash(Disk, jrnl, base, level)
  BY <1>3, NowCrash
<1>7. Valid(base)
  BY DEF DataInv
<1>8. QED
  BY <1>1, <1>4, <1>5, <1>6, <1>7, NoCacheClean, EmptyTypes, UnwritelockData

\* Playing back a journal, and failing while it is played back, leads to the same.
LEMMA PlaybackKeeps ==
  ASSUME LayInv, FileZero, NEW d \in DatabaseType, Crash(Disk, jrnl, d, level),
         Writes(PlaybackFile(jrnl.items)), UNCHANGED <<jrnl, unsettled, level>>
  PROVE  /\ FileZero' /\ Crash(Disk', jrnl, d, level)
         /\ file'.size = d.size /\ \A p \in Needed(d) : file'.page[p] = d.page[p]
         /\ SizesAre(Disk, d.size) => SizesAre(Disk', d.size) /\ file'.size = file.size
         /\ \A p \in Page : FileIs(Disk, p, d.page[p]) /\ p \in Needed(d) => FileIs(Disk', p, d.page[p])
<1> DEFINE f == PlaybackFile(jrnl.items)
<1>1. /\ f \in DatabaseType /\ f.size = d.size
      /\ \A p \in Needed(d) : f.page[p] = d.page[p]
      /\ \A p \in Page : p > f.size => f.page[p] = Zero
      /\ \A p \in Needed(d) : FileIs(Disk, p, d.page[p]) => f.page[p] = file.page[p]
      /\ SizesAre(Disk, d.size) => f.size = file.size
  BY PlaybackGives
<1> HIDE DEF f
<1>2. Writes(f)
  BY DEF f
<1>3. /\ file' = f /\ file' \in DatabaseType /\ wild' \in WildType
      /\ wild'.size = IF f.size = file.size THEN wild.size ELSE wild.size \cup {file.size}
      /\ \A p \in Page : wild'.page[p] = IF f.page[p] = file.page[p] THEN wild.page[p]
                                         ELSE wild.page[p] \cup {file.page[p]}
  BY <1>1, <1>2, Typed, WritesFields
<1>4. FileZero'
  BY <1>1, <1>3 DEF FileZero
<1>5. ASSUME NEW p \in Needed(d), FileIs(Disk, p, d.page[p]) PROVE FileIs(Disk', p, d.page[p])
  <2>1. p \in Page
    BY NeededPages
  <2>2. f.page[p] = file.page[p] /\ f.page[p] = d.page[p]
    BY <1>1, <1>5
  <2>3. QED
    BY <1>3, <1>5, <2>1, <2>2, DiskIs
<1>6. SizesFrom(Disk', d.size)
  <2>1. SizesFrom(Disk, d.size) /\ d.size \in Nat
    BY Contents DEF Crash
  <2>2. f.size >= d.size
    BY <1>1, <2>1
  <2>3. QED
    BY <1>3, <2>1, <2>2, DiskIs
<1>7. SizesAre(Disk, d.size) => SizesAre(Disk', d.size) /\ file'.size = file.size
  BY <1>1, <1>3, DiskIs
<1>8. \A p \in Needed(d) : FileIs(Disk', p, d.page[p]) \/ Covered(jrnl, p, level)
  BY <1>5 DEF Crash
<1>9. Crash(Disk', jrnl, d, level)
  BY <1>6, <1>7, <1>8 DEF Crash
<1>10. QED
  BY <1>1, <1>3, <1>4, <1>5, <1>7, <1>9

LEMMA RollbackFileData == LayInv /\ DataInv /\ RollbackFile => DataInv'
<1> SUFFICES ASSUME LayInv, DataInv, RollbackFile PROVE DataInv'
  OBVIOUS
<1>1. /\ at = "txn" /\ pager.state # "RESERVED"
      /\ Writes(PlaybackFile(jrnl.items)) /\ expect' = base /\ at' = "played"
      /\ UNCHANGED <<level, jrnl, gone, memVars, job, base, saved, unsettled, left>>
  BY DEF RollbackFile
<1>2. InTxn /\ TxnInv /\ ~InTxn' /\ Target = base
  BY <1>1, TxnFacts, NotInTxn DEF InTxn, Target
<1>3. pager.journalStarted
  BY <1>1, <1>2, MemoryFields DEF TxnInv, CoreOK, PagerOK
<1>4. jrnl.named /\ jrnl.exists
  BY <1>2, <1>3, OpenJournal DEF TxnInv
<1>5. Crash(Disk, jrnl, base, level) /\ FileZero
  BY <1>2, <1>4, NowCrash DEF DataInv
<1>6. /\ FileZero' /\ Crash(Disk', jrnl, base, level)
      /\ file'.size = base.size /\ \A p \in Needed(base) : file'.page[p] = base.page[p]
  BY <1>1, <1>5, Typed, PlaybackKeeps
<1>7. IdleInv'
  BY <1>1, <1>4, <1>6, LooselyPure DEF IdleInv
<1>8. ~gone.jrnl.exists
  BY <1>4 DEF DataInv, GoneInv
<1>9. GoneInv'
  BY <1>1, <1>4, <1>8 DEF GoneInv
<1>10. Valid(expect)' /\ Valid(base)' /\ Valid(saved)'
  BY <1>1 DEF DataInv
<1>11. QED
  BY <1>2, <1>6, <1>7, <1>9, <1>10 DEF DataInv

LEMMA PlayedBackData == LayInv /\ DataInv /\ PlayedBack => DataInv'
<1> SUFFICES ASSUME LayInv, DataInv, PlayedBack PROVE DataInv'
  OBVIOUS
<1>1. /\ at = "played" /\ expect' = expect /\ Unwritelock(expect, NoCache)
      /\ unsettled' = (wild # Calm) /\ UNCHANGED <<level, file, wild, left>>
  BY DEF PlayedBack
<1>2. ~InTxn /\ IdleInv
  BY <1>1, NotInTxn DEF DataInv
<1>3. file.size = expect.size /\ \A p \in Needed(expect) : file.page[p] = expect.page[p]
  BY <1>1, <1>2, LooselyPure DEF IdleInv
<1>4. \A p \in Needed(expect) : p \in Page
  BY NeededPages, Typed
<1>5. Pure(Disk', expect)
  <2>1. ~unsettled' => wild'.size = {} /\ \A p \in Page : wild'.page[p] = {}
    <3>1. ~unsettled' => wild' = Calm
      BY <1>1
    <3>2. QED
      BY <3>1, CalmFields
  <2>2. SizesAre(Disk', expect.size)
    BY <1>1, <1>3, <2>1, DiskIs
  <2>3. \A p \in Needed(expect) : FileIs(Disk', p, expect.page[p])
    BY <1>1, <1>3, <1>4, <2>1, DiskIs
  <2>4. QED
    BY <2>2, <2>3 DEF Pure
<1>6. ASSUME jrnl.exists, ~unsettled' PROVE Crash(Disk', jrnl, expect, level)
  <2>1. Crash(Disk, jrnl, expect, level)
    BY <1>2, <1>6 DEF IdleInv
  <2>2. wild = Calm
    BY <1>1, <1>6
  <2>3. \A p \in Needed(expect) : \A c : FileIs(Disk, p, c) => FileIs(Disk', p, c)
    BY <1>1, <1>4, <2>2, DiskIs DEF Calm
  <2>4. SizesFrom(Disk', expect.size) /\ SizesAre(Disk', expect.size)
    BY <1>1, <1>3, <2>1, <2>2, DiskIs DEF Calm, Crash
  <2>5. QED
    BY <2>1, <2>3, <2>4 DEF Crash
<1>7. Valid(expect)
  BY DEF DataInv
<1>8. QED
  BY <1>1, <1>5, <1>6, <1>7, NoCacheClean, EmptyTypes, UnwritelockData

LEMMA ForgetData == LayInv /\ DataInv /\ Forget => DataInv'
<1> SUFFICES ASSUME LayInv, DataInv, Forget PROVE DataInv'
  OBVIOUS
<1>1. /\ at = "idle" /\ pg' = NoCache /\ at' = at
      /\ UNCHANGED <<level, file, wild, jrnl, gone, pager, stmt, job, history, left>>
  BY DEF Forget, diskVars
<1>2. ~InTxn /\ ~InTxn' /\ IdleInv /\ Disk' = Disk
  BY <1>1, NotInTxn, QuietDisk DEF DataInv, history
<1>3. \A p \in Page : IdlePage(p)'
  BY <1>1 DEF IdlePage, NoCache, Absent
<1>4. IdleInv'
  BY <1>1, <1>2, <1>3 DEF IdleInv, history
<1>5. jrnl.items = <<>> /\ ~jrnl.named
  BY <1>1, <1>2, NoJournalSound DEF IdleInv
<1>6. HarmlessCache(NoCache, gone.jrnl, gone.to, level)
  BY NoCacheClean
<1>7. GoneInv
  BY DEF DataInv
<1>8. gone.jrnl.exists /\ ~unsettled => Valid(gone.to) /\ Crash(Disk, gone.jrnl, gone.to, level)
  BY <1>7 DEF GoneInv
<1>9. GoneInv'
  BY <1>1, <1>2, <1>5, <1>6, <1>8, IdleGone DEF history
<1>10. QED
  BY <1>1, <1>2, <1>4, <1>9 DEF DataInv, FileZero, history

LEMMA FallsData ==
  ASSUME LayInv, Falls, Valid(expect'), FileZero',
         ~jrnl'.named => Pure(Disk', expect'), jrnl'.exists => Crash(Disk', jrnl', expect', level'),
         GoneInv'
  PROVE  DataInv'
<1>1. at' = "down" /\ base' = expect' /\ saved' = expect'
  BY DEF Falls
<1>2. IdleInv' /\ ~InTxn'
  BY <1>1, NotInTxn DEF IdleInv
<1>3. Valid(expect)' /\ Valid(base)' /\ Valid(saved)'
  BY <1>1
<1>4. QED
  BY <1>2, <1>3 DEF DataInv

LEMMA DieData == LayInv /\ DataInv /\ Die => DataInv'
<1> SUFFICES ASSUME LayInv, DataInv, Die PROVE DataInv'
  OBVIOUS
<1>1. expect' = Target /\ Falls /\ UNCHANGED <<file, wild, jrnl, gone, unsettled, level>>
  BY DEF Die, diskVars, Falls
<1>2. Disk' = Disk
  BY <1>1, QuietDisk
<1>3. /\ Valid(Target) /\ Target \in DatabaseType
      /\ jrnl.exists => Crash(Disk, jrnl, Target, level)
      /\ ~jrnl.named => Pure(Disk, Target)
  BY NowCrash
<1>4. GoneInv
  BY DEF DataInv
<1>5. pg' = NoCache
  BY <1>1 DEF Falls
<1>6. GoneInv'
  <2>1. ASSUME NEW p \in Page PROVE ~pg'[p].in
    BY <1>5 DEF NoCache, Absent
  <2>2. jrnl.named => jrnl.exists /\ ~gone.jrnl.exists
    BY <1>4 DEF GoneInv
  <2>3. ASSUME gone.jrnl.exists, ~unsettled
        PROVE  /\ Valid(gone.to) /\ Crash(Disk, gone.jrnl, gone.to, level)
               /\ \A i \in 1..Len(jrnl.items) :
                    jrnl.items[i].type = "record" => Harmless(jrnl.items[i].data, jrnl.items[i].page)
    BY <1>4, <2>3 DEF GoneInv
  <2>4. \A c, p : Harmless(c, p)' <=> Harmless(c, p)
    BY <1>1 DEF Harmless
  <2>5. QED
    BY <1>1, <1>2, <2>1, <2>2, <2>3, <2>4 DEF GoneInv
<1>7. FileZero'
  BY <1>1 DEF DataInv, FileZero
<1>8. QED
  BY <1>1, <1>2, <1>3, <1>6, <1>7, FallsData

LEMMA PowerFailData == Settled /\ LayInv /\ DataInv /\ PowerFail => DataInv'
<1> SUFFICES ASSUME Settled, LayInv, DataInv, PowerFail PROVE DataInv'
  OBVIOUS
<1>1. /\ ~unsettled /\ file' \in Survivors /\ wild' = Calm /\ gone' = NotGone /\ unsettled' = FALSE
      /\ Falls /\ level' = level
      /\ \/ /\ jrnl' \in (IF jrnl.exists THEN Leftovers(jrnl) ELSE {})
                           \cup (IF jrnl.named THEN {} ELSE {NoJournal})
            /\ expect' = Target
         \/ /\ gone.jrnl.exists /\ jrnl' \in Leftovers(gone.jrnl)
            /\ expect' = gone.to
  BY DEF PowerFail, Falls
<1>2. file' \in DatabaseType /\ ~Disk.loose /\ Disk' = OnlyFile(file') /\ Survives(Disk, file')
  <2>1. Disk' = OnlyFile(file')
    BY <1>1, DiskFields DEF OnlyFile
  <2>2. /\ file' \in DatabaseType /\ file'.size \in wild.size \cup {file.size}
        /\ \A p \in Page : IF p > file'.size THEN file'.page[p] = Zero
                           ELSE file'.page[p] \in wild.page[p] \cup {file.page[p]}
    BY <1>1, Typed, SurvivorFields
  <2>3. Survives(Disk, file')
    BY <2>2, DiskFields DEF Survives
  <2>4. QED
    BY <1>1, <2>1, <2>2, <2>3, DiskFields
<1>3. FileZero'
  BY <1>2 DEF Survives, FileZero
<1>4. pg' = NoCache
  BY <1>1 DEF Falls
<1>5. ~gone'.jrnl.exists
  BY <1>1, EmptyTypes, NoJournalSound
<1>6. /\ Valid(Target) /\ Target \in DatabaseType
      /\ jrnl.exists => Crash(Disk, jrnl, Target, level)
      /\ ~jrnl.named => Pure(Disk, Target)
  BY NowCrash
<1>7. GoodJournal(jrnl) /\ GoodJournal(gone.jrnl)
  BY Typed, JournalSound DEF GoodJournal
<1>8. /\ Valid(expect') /\ ~jrnl'.named => Pure(Disk', expect')
      /\ jrnl'.exists => Crash(Disk', jrnl', expect', level')
      /\ Valid(expect') /\ (jrnl'.named => jrnl'.exists)
  <2>1. CASE jrnl.exists /\ jrnl' \in Leftovers(jrnl) /\ expect' = Target
    <3>1. jrnl'.named /\ jrnl'.exists
      BY <1>7, <2>1, LeftoverFields DEF GoodJournal
    <3>2. Crash(Disk', jrnl', expect', level)
      BY <1>2, <1>6, <1>7, <2>1, SurviveCrash
    <3>3. QED
      BY <1>1, <1>6, <2>1, <3>1, <3>2
  <2>2. CASE ~jrnl.named /\ jrnl' = NoJournal /\ expect' = Target
    <3>1. ~jrnl'.exists /\ ~jrnl'.named
      BY <2>2, NoJournalSound
    <3>2. Pure(Disk', expect')
      BY <1>2, <1>6, <2>2, SurvivePure
    <3>3. QED
      BY <1>6, <2>2, <3>1, <3>2
  <2>3. CASE gone.jrnl.exists /\ jrnl' \in Leftovers(gone.jrnl) /\ expect' = gone.to
    <3>1. jrnl'.named /\ jrnl'.exists
      BY <1>7, <2>3, LeftoverFields DEF GoodJournal
    <3>2. Valid(gone.to) /\ Crash(Disk, gone.jrnl, gone.to, level) /\ gone.to \in DatabaseType
      BY <1>1, <2>3 DEF DataInv, GoneInv, Valid
    <3>3. Crash(Disk', jrnl', expect', level)
      BY <1>2, <1>7, <2>3, <3>2, SurviveCrash
    <3>4. QED
      BY <1>1, <2>3, <3>1, <3>2, <3>3
  <2>4. QED
    BY <1>1, <2>1, <2>2, <2>3
<1>9. GoneInv'
  BY <1>5, <1>8 DEF GoneInv
<1>10. QED
  BY <1>1, <1>3, <1>8, <1>9, FallsData

\* While there is a removed journal that a power failure may bring back.
LEMMA GoneFacts ==
  ASSUME LayInv, DataInv, gone.jrnl.exists, ~unsettled
  PROVE  /\ ~jrnl.named /\ Valid(gone.to) /\ gone.to \in DatabaseType
         /\ Crash(Disk, gone.jrnl, gone.to, level)
         /\ gone.to.size <= file.size /\ gone.to.size <= Target.size /\ file.size = Target.size
         /\ \A p \in Page : Harmless(file.page[p], p)
         /\ \A i \in 1..Len(jrnl.items) :
              jrnl.items[i].type = "record" => Harmless(jrnl.items[i].data, jrnl.items[i].page)
<1>1. /\ ~jrnl.named /\ Valid(gone.to) /\ Crash(Disk, gone.jrnl, gone.to, level)
      /\ \A i \in 1..Len(jrnl.items) :
           jrnl.items[i].type = "record" => Harmless(jrnl.items[i].data, jrnl.items[i].page)
  BY DEF DataInv, GoneInv
<1>2. gone.to \in DatabaseType
  BY <1>1 DEF Valid
<1>3. file.size = Target.size
  BY <1>1, NowCrash, DiskIs DEF Pure
<1>4. file.size >= gone.to.size /\ gone.to.size \in Nat /\ file.size \in Nat
  BY <1>1, <1>2, Typed, Contents, DiskIs DEF Crash
<1>5. \A p \in Page : Harmless(file.page[p], p)
  BY <1>1, DiskIs DEF Crash, Harmless
<1>6. QED
  BY <1>1, <1>2, <1>3, <1>4, <1>5

\* A journal that was not synced is played back over pages a removed one may restore.
LEMMA GonePlayback ==
  ASSUME LayInv, DataInv, gone.jrnl.exists, ~unsettled, unsettled' = unsettled, Target = expect,
         Crash(Disk, jrnl, expect, level), Writes(PlaybackFile(jrnl.items))
  PROVE  Crash(Disk', gone.jrnl, gone.to, level)
<1> DEFINE f == PlaybackFile(jrnl.items)
           to == gone.to
<1>1. /\ ~jrnl.named /\ to \in DatabaseType
      /\ Crash(Disk, gone.jrnl, to, level)
      /\ to.size <= file.size /\ to.size <= expect.size /\ file.size = expect.size
      /\ \A i \in 1..Len(jrnl.items) :
           jrnl.items[i].type = "record" => Harmless(jrnl.items[i].data, jrnl.items[i].page)
  BY GoneFacts
<1>2. expect \in DatabaseType /\ FileZero
  BY Typed DEF DataInv
<1>3. /\ f \in DatabaseType /\ f.size = expect.size
  BY <1>2, PlaybackGives
<1>4. /\ 1 \notin Headers(jrnl.items) => f = file
      /\ 1 \in Headers(jrnl.items) =>
           \A p \in Page :
             \/ /\ \A i \in Played(jrnl.items) : jrnl.items[i].page # p
                /\ f.page[p] = IF p > f.size THEN Zero ELSE file.page[p]
             \/ \E i \in Played(jrnl.items) : jrnl.items[i].page = p /\ f.page[p] = jrnl.items[i].data
  BY Typed, JournalSound, PlaybackFields
<1>5. \A i \in Played(jrnl.items) : i \in 1..Len(jrnl.items) /\ jrnl.items[i].type = "record"
  BY Typed, JournalSound, PlayedRecord DEF RecordType
<1> HIDE DEF f, to
<1>6. ASSUME NEW p \in Needed(to), ~Covered(gone.jrnl, p, level) PROVE f.page[p] = file.page[p]
  <2>1. p \in Page /\ p <= to.size /\ p \in Nat
    BY <1>1, NeededPages
  <2>2. ~(p > f.size)
    BY <1>1, <1>2, <1>3, <2>1, Contents
  <2>3. file.page[p] = to.page[p]
    BY <1>1, <1>6, DiskIs DEF Crash
  <2>4. \A i \in Played(jrnl.items) : jrnl.items[i].page = p => jrnl.items[i].data = to.page[p]
    BY <1>1, <1>5, <1>6 DEF Harmless, to
  <2>5. QED
    BY <1>4, <2>1, <2>2, <2>3, <2>4
<1>7. /\ file' = f /\ wild' \in WildType
      /\ wild'.size = IF f.size = file.size THEN wild.size ELSE wild.size \cup {file.size}
      /\ \A p \in Page : wild'.page[p] = IF f.page[p] = file.page[p] THEN wild.page[p]
                                         ELSE wild.page[p] \cup {file.page[p]}
  BY <1>3, Typed, WritesFields DEF f
<1>8. file'.size = file.size /\ wild'.size = wild.size
  BY <1>1, <1>3, <1>7
<1>9. \A p \in Needed(to) : FileIs(Disk', p, to.page[p]) \/ Covered(gone.jrnl, p, level)
  <2> SUFFICES ASSUME NEW p \in Needed(to), ~Covered(gone.jrnl, p, level)
               PROVE  FileIs(Disk', p, to.page[p])
    OBVIOUS
  <2>1. p \in Page
    BY <1>1, NeededPages
  <2>2. FileIs(Disk, p, to.page[p])
    BY <1>1 DEF Crash
  <2>3. f.page[p] = file.page[p]
    BY <1>6
  <2>4. file'.page[p] = file.page[p] /\ wild'.page[p] = wild.page[p]
    BY <1>7, <2>1, <2>3
  <2>5. QED
    BY <2>2, <2>4, DiskIs
<1>10. /\ SizesFrom(Disk, to.size) => SizesFrom(Disk', to.size)
       /\ SizesAre(Disk, to.size) => SizesAre(Disk', to.size)
  BY <1>8, DiskIs
<1>11. QED
  BY <1>1, <1>9, <1>10 DEF Crash, to

LEMMA HotJournalData == LayInv /\ DataInv /\ HotJournal => DataInv'
<1> SUFFICES ASSUME LayInv, DataInv, HotJournal PROVE DataInv'
  OBVIOUS
<1>1. at = "down" /\ expect' = expect /\ level' = level
  BY DEF HotJournal
<1>2. ~InTxn /\ IdleInv /\ Target = expect /\ Valid(expect) /\ expect \in DatabaseType /\ FileZero
      /\ Valid(base) /\ Valid(saved)
  BY <1>1, NotInTxn, Typed DEF DataInv, Target
<1>3. CASE ~jrnl.exists \/ file.size = 0
  <2>1. /\ Unwritelock(expect, NoCache) /\ UNCHANGED <<file, wild>>
        /\ unsettled' = (unsettled \/ (jrnl.exists /\ wild # Calm))
    BY <1>3 DEF HotJournal
  <2>2. CASE ~jrnl.exists
    <3>1. unsettled' = unsettled
      BY <2>1, <2>2, Typed
    <3>2. Disk' = Disk
      BY <2>1, <3>1, QuietDisk
    <3>3. ~jrnl.named
      BY <2>2 DEF DataInv, GoneInv
    <3>4. Pure(Disk, expect)
      BY <1>2, <3>3 DEF IdleInv
    <3>5. QED
      BY <1>1, <1>2, <2>1, <2>2, <3>2, <3>4, NoCacheClean, EmptyTypes, UnwritelockData
  <2>3. CASE jrnl.exists /\ file.size = 0
    <3>1. Crash(Disk, jrnl, expect, level)
      BY <1>2, <2>3 DEF IdleInv
    <3>2. expect.size = 0
      BY <1>2, <2>3, <3>1, Contents, DiskIs DEF Crash
    <3>3. Needed(expect) = {}
      BY <3>2 DEF Needed
    <3>4. ~unsettled' => ~unsettled /\ wild'.size = {}
      <4>1. ~unsettled' => ~unsettled /\ wild' = Calm
        BY <2>1, <2>3
      <4>2. QED
        BY <4>1, CalmFields
    <3>5. SizesAre(Disk', expect.size)
      BY <2>1, <2>3, <3>2, <3>4, DiskIs
    <3>6. Pure(Disk', expect)
      BY <3>3, <3>5 DEF Pure
    <3>7. SizesFrom(Disk', expect.size)
      BY <2>1, <2>3, <3>2, <3>4, DiskIs
    <3>8. Crash(Disk', jrnl, expect, level)
      BY <3>1, <3>3, <3>5, <3>7 DEF Crash
    <3>9. QED
      BY <1>1, <1>2, <2>1, <3>6, <3>8, NoCacheClean, EmptyTypes, UnwritelockData
  <2>4. QED
    BY <1>3, <2>2, <2>3
<1>4. CASE ~(~jrnl.exists \/ file.size = 0)
  <2>1. UNCHANGED <<jrnl, gone, memVars, job, base, saved, unsettled>>
    BY <1>4 DEF HotJournal
  <2>2. GoneInv
    BY DEF DataInv
  <2>3. CASE CutShort(jrnl.items)
    <3>1. at' = "stuck" /\ UNCHANGED <<file, wild>>
      BY <1>4, <2>3 DEF HotJournal
    <3>2. ~InTxn' /\ Disk' = Disk
      BY <2>1, <3>1, NotInTxn, QuietDisk
    <3>3. IdleInv'
      BY <1>1, <1>2, <2>1, <3>1, <3>2 DEF IdleInv
    <3>4. GoneInv'
      <4>1. \A c, p : Harmless(c, p)' <=> Harmless(c, p)
        BY <1>1, <2>1 DEF Harmless
      <4>2. QED
        BY <1>1, <1>2, <2>1, <2>2, <3>2, <4>1 DEF GoneInv, memVars
    <3>5. QED
      BY <1>1, <1>2, <2>1, <3>1, <3>2, <3>3, <3>4 DEF DataInv, FileZero
  <2>4. CASE ~CutShort(jrnl.items)
    <3>1. at' = "played" /\ Writes(PlaybackFile(jrnl.items))
      BY <1>4, <2>4 DEF HotJournal
    <3>2. ~InTxn'
      BY <3>1, NotInTxn
    <3>3. Crash(Disk, jrnl, expect, level)
      BY <1>2, <1>4 DEF IdleInv
    <3>4. /\ FileZero' /\ Crash(Disk', jrnl, expect, level)
          /\ file'.size = expect.size /\ \A p \in Needed(expect) : file'.page[p] = expect.page[p]
          /\ SizesAre(Disk, expect.size) => SizesAre(Disk', expect.size) /\ file'.size = file.size
          /\ \A p \in Page : FileIs(Disk, p, expect.page[p]) /\ p \in Needed(expect)
                               => FileIs(Disk', p, expect.page[p])
      BY <1>1, <1>2, <2>1, <3>1, <3>3, PlaybackKeeps
    <3>5. ~jrnl.named => Pure(Disk', expect)
      <4>1. ~jrnl.named => Pure(Disk, expect)
        BY <1>2 DEF IdleInv
      <4>2. \A p \in Needed(expect) : p \in Page
        BY <1>2, NeededPages
      <4>3. QED
        BY <3>4, <4>1, <4>2 DEF Pure
    <3>6. IdleInv'
      BY <1>1, <2>1, <3>1, <3>4, <3>5, LooselyPure DEF IdleInv
    <3>7. ASSUME gone.jrnl.exists, ~unsettled PROVE Crash(Disk', gone.jrnl, gone.to, level)
      BY <1>1, <1>2, <2>1, <3>1, <3>3, <3>7, GonePlayback
    <3>8. GoneInv'
      <4>1. \A c, p : Harmless(c, p)' <=> Harmless(c, p)
        BY <1>1, <2>1 DEF Harmless
      <4>2. QED
        BY <1>1, <1>2, <2>1, <2>2, <3>2, <3>7, <4>1 DEF GoneInv, memVars
    <3>9. QED
      BY <1>1, <1>2, <2>1, <3>2, <3>4, <3>6, <3>8 DEF DataInv
  <2>5. QED
    BY <2>3, <2>4
<1>5. QED
  BY <1>3, <1>4

LEMMA RetryData == LayInv /\ DataInv /\ Retry => DataInv'
<1> SUFFICES ASSUME LayInv, DataInv, Retry PROVE DataInv'
  OBVIOUS
<1>1. /\ at = "stuck" /\ at' = "down"
      /\ UNCHANGED <<level, file, wild, jrnl, gone, pager, stmt, pg, job, expect, base, saved, unsettled>>
  BY DEF Retry, diskVars, memVars, history
<1>2. ~InTxn /\ ~InTxn' /\ Disk' = Disk
  BY <1>1, NotInTxn, QuietDisk
<1>3. IdleInv'
  BY <1>1, <1>2 DEF DataInv, IdleInv
<1>4. GoneInv'
  <2>1. \A c, p : Harmless(c, p)' <=> Harmless(c, p)
    BY <1>1 DEF Harmless
  <2>2. QED
    BY <1>1, <1>2, <2>1 DEF DataInv, GoneInv
<1>5. QED
  BY <1>1, <1>2, <1>3, <1>4 DEF DataInv, FileZero

LEMMA StutterData == LayInv /\ DataInv /\ UNCHANGED vars => DataInv'
<1> SUFFICES ASSUME DataInv, UNCHANGED vars PROVE DataInv'
  OBVIOUS
<1>1. UNCHANGED <<level, file, wild, jrnl, gone, pager, stmt, pg, at, job, expect, base, saved, unsettled>>
  BY DEF vars, diskVars, memVars, history
<1>2. Disk' = Disk /\ Memory' = Memory
  BY <1>1, QuietDisk, MemoryFields DEF Memory
<1>3. (InTxn' <=> InTxn) /\ (Spilling' <=> Spilling) /\ (Control' <=> Control)
  BY <1>1, <1>2 DEF InTxn, Spilling, Control
<1>4. TxnInv' <=> TxnInv
  BY <1>1, <1>2, <1>3 DEF TxnInv
<1>5. \A p : IdlePage(p)' <=> IdlePage(p)
  BY <1>1 DEF IdlePage
<1>6. IdleInv' <=> IdleInv
  BY <1>1, <1>2, <1>5 DEF IdleInv
<1>7. GoneInv' <=> GoneInv
  <2>1. \A c, p : Harmless(c, p)' <=> Harmless(c, p)
    BY <1>1 DEF Harmless
  <2>2. QED
    BY <1>1, <1>2, <1>3, <2>1 DEF GoneInv
<1>8. QED
  BY <1>1, <1>3, <1>4, <1>6, <1>7 DEF DataInv, FileZero

LEMMA SettleData == LayInv /\ DataInv /\ Settle => DataInv'
<1> SUFFICES ASSUME LayInv, DataInv, Settle PROVE DataInv'
  OBVIOUS
<1>1. /\ unsettled /\ at = "idle" /\ ~unsettled' /\ wild' = Calm /\ gone' = NotGone
      /\ UNCHANGED <<level, file, jrnl, pager, stmt, pg, at, job, expect, base, saved>>
  BY DEF Settle, memVars
<1>2. ~InTxn /\ ~InTxn' /\ IdleInv
  BY <1>1, NotInTxn DEF DataInv
<1>3. jrnl = NoJournal /\ ~jrnl.named /\ ~jrnl.exists
  BY <1>1, <1>2, NoJournalSound DEF IdleInv
<1>4. Pure(Disk, expect)
  BY <1>2, <1>3 DEF IdleInv
<1>5. Pure(Disk', expect)
  <2>1. wild'.size = {} /\ \A p \in Page : wild'.page[p] = {}
    BY <1>1 DEF Calm
  <2>2. \A p \in Needed(expect) : p \in Page
    BY NeededPages, Typed
  <2>3. SizesAre(Disk', expect.size)
    BY <1>1, <1>4, <2>1, DiskIs DEF Pure
  <2>4. \A p \in Needed(expect) : FileIs(Disk', p, expect.page[p])
    BY <1>1, <1>4, <2>1, <2>2, DiskIs DEF Pure
  <2>5. QED
    BY <2>3, <2>4 DEF Pure
<1>6. \A p : IdlePage(p)' <=> IdlePage(p)
  BY <1>1 DEF IdlePage
<1>7. IdleInv'
  BY <1>1, <1>2, <1>3, <1>5, <1>6 DEF IdleInv
<1>8. ~gone'.jrnl.exists
  BY <1>1, EmptyTypes, NoJournalSound
<1>9. GoneInv'
  BY <1>1, <1>3, <1>8 DEF GoneInv
<1>10. QED
  BY <1>1, <1>2, <1>7, <1>9 DEF DataInv, FileZero

----------------------------------------------------------------------------
\* The calls that change pages: their data.

\* Page p is in the cache, as sqlite3pager_get leaves it, and nothing else is changed.
LoadPage(m, p) == [pager |-> m.pager, stmt |-> m.stmt, pg |-> [m.pg EXCEPT ![p] = Get(m, p)],
                   items |-> m.items]

LEMMA LoadFields ==
  ASSUME file \in DatabaseType, NEW m, MemoryType(m), NEW p \in Page, NEW l, l = LoadPage(m, p)
  PROVE  /\ MemoryType(l) /\ l.pager = m.pager /\ l.stmt = m.stmt /\ l.items = m.items
         /\ \A q \in Page : q # p => l.pg[q] = m.pg[q]
         /\ l.pg[p] = Get(m, p) /\ l.pg[p].in /\ Get(l, p) = Get(m, p)
<1>1. Get(m, p) \in PgHdr /\ Get(m, p).in
  BY GetFields
<1>2. l.pager = m.pager /\ l.stmt = m.stmt /\ l.items = m.items /\ l.pg = [m.pg EXCEPT ![p] = Get(m, p)]
  BY DEF LoadPage
<1>3. /\ l.pg \in [Page -> PgHdr] /\ l.pg[p] = Get(m, p)
      /\ \A q \in Page : q # p => l.pg[q] = m.pg[q]
  BY <1>1, <1>2 DEF MemoryType
<1>4. MemoryType(l)
  BY <1>2, <1>3 DEF MemoryType
<1>5. Get(l, p) = l.pg[p]
  BY <1>1, <1>3 DEF Get
<1>6. QED
  BY <1>1, <1>2, <1>3, <1>4, <1>5

\* What CoreOK makes of it.
LoadedAs(m, l, p) ==
  /\ MemoryType(m) /\ MemoryType(l) /\ l.pager = m.pager /\ l.stmt = m.stmt /\ l.items = m.items
  /\ \A q \in Page : q # p => l.pg[q] = m.pg[q]
  /\ l.pg[p].in /\ Get(l, p) = l.pg[p] /\ l.pg[p].data = Cur(m, file, p)
  /\ l.pg[p].dirty = m.pg[p].dirty /\ l.pg[p].needSync = m.pg[p].needSync
  /\ l.pg[p].alwaysRollback = m.pg[p].alwaysRollback
  /\ l.pg[p].inJournal = IF m.pg[p].in THEN m.pg[p].inJournal
                         ELSE p \in m.pager.aInJournal /\ p <= m.pager.origDbSize
  /\ l.pg[p].inStmt = IF m.pg[p].in THEN m.pg[p].inStmt ELSE p \in m.stmt.aInStmt /\ p <= m.stmt.size
  /\ ~m.pg[p].in => ~m.pg[p].dirty /\ ~m.pg[p].needSync /\ ~m.pg[p].inJournal /\ ~m.pg[p].inStmt

LEMMA LoadIs ==
  ASSUME file \in DatabaseType, FileZero, NEW m, MemoryType(m), NEW p \in Page, NEW l, l = LoadPage(m, p),
         ~m.pg[p].in => m.pg[p] = Absent, file.size <= m.pager.dbSize
  PROVE  LoadedAs(m, l, p)
<1>1. /\ MemoryType(l) /\ l.pager = m.pager /\ l.stmt = m.stmt /\ l.items = m.items
      /\ \A q \in Page : q # p => l.pg[q] = m.pg[q]
      /\ l.pg[p] = Get(m, p) /\ l.pg[p].in /\ Get(l, p) = Get(m, p)
  BY LoadFields
<1> DEFINE h == Get(m, p)
<1>2. /\ h \in PgHdr /\ h.in
      /\ h.data = IF m.pg[p].in THEN m.pg[p].data
                  ELSE IF p <= m.pager.dbSize /\ p <= file.size THEN file.page[p] ELSE Zero
      /\ h.dirty = (m.pg[p].in /\ m.pg[p].dirty)
      /\ h.inJournal = IF m.pg[p].in THEN m.pg[p].inJournal
                       ELSE p \in m.pager.aInJournal /\ p <= m.pager.origDbSize
      /\ h.needSync = (m.pg[p].in /\ m.pg[p].needSync)
      /\ h.inStmt = IF m.pg[p].in THEN m.pg[p].inStmt ELSE p \in m.stmt.aInStmt /\ p <= m.stmt.size
      /\ h.alwaysRollback = (m.pg[p].in /\ m.pg[p].alwaysRollback)
  BY GetFields
<1>3. m.pg[p] \in PgHdr
  BY DEF MemoryType
<1> HIDE DEF h
<1>4. h.data = Cur(m, file, p)
  <2>1. CASE m.pg[p].in
    BY <1>2, <2>1 DEF Cur
  <2>2. CASE ~m.pg[p].in
    <3>1. p <= file.size => p <= m.pager.dbSize
      BY PageOne, Contents DEF MemoryType, PagerType
    <3>2. ~(p <= file.size) => file.page[p] = Zero
      BY PageOne, Contents DEF FileZero
    <3>3. QED
      BY <1>2, <2>2, <3>1, <3>2 DEF Cur
  <2>3. QED
    BY <2>1, <2>2
<1>5. CASE m.pg[p].in
  <2>1. /\ h.dirty = m.pg[p].dirty /\ h.needSync = m.pg[p].needSync
        /\ h.alwaysRollback = m.pg[p].alwaysRollback
    BY <1>2, <1>3, <1>5 DEF PgHdr
  <2>2. QED
    BY <1>1, <1>2, <1>4, <1>5, <2>1 DEF LoadedAs, h
<1>6. CASE ~m.pg[p].in
  <2>1. m.pg[p] = Absent
    BY <1>6
  <2>2. /\ ~m.pg[p].dirty /\ ~m.pg[p].needSync /\ ~m.pg[p].inJournal /\ ~m.pg[p].inStmt
        /\ ~m.pg[p].alwaysRollback
    BY <2>1 DEF Absent
  <2>3. /\ h.dirty = m.pg[p].dirty /\ h.needSync = m.pg[p].needSync
        /\ h.alwaysRollback = m.pg[p].alwaysRollback
    BY <1>2, <1>3, <1>6, <2>2 DEF PgHdr
  <2>4. QED
    BY <1>1, <1>2, <1>4, <1>6, <2>2, <2>3 DEF LoadedAs, h
<1>7. QED
  BY <1>5, <1>6

LEMMA LoadCur ==
  ASSUME NEW m, NEW l, NEW p \in Page, LoadedAs(m, l, p)
  PROVE  /\ \A q \in Page : Cur(l, file, q) = Cur(m, file, q)
         /\ \A q \in Page : Flag(l, q) <=> Flag(m, q)
         /\ \A q \in Page : l.pg[q].dirty = m.pg[q].dirty
         /\ \A q \in Page : l.pg[q].needSync = m.pg[q].needSync
         /\ \A q \in Page : m.pg[q].in => l.pg[q].in
  BY DEF LoadedAs, Cur, Flag

LEMMA LoadCore ==
  ASSUME NEW m, NEW l, NEW p \in Page, LoadedAs(m, l, p), NEW b \in DatabaseType, NEW D, D.file = file, NEW safe,
         CoreOK(m, b, D, safe)
  PROVE  CoreOK(l, b, D, safe)
<1>1. /\ l.pager = m.pager /\ l.items = m.items /\ \A q \in Page : q # p => l.pg[q] = m.pg[q]
      /\ \A q \in Page : Cur(l, file, q) = Cur(m, file, q)
      /\ \A q \in Page : l.pg[q].needSync = m.pg[q].needSync
      /\ \A q \in Page : m.pg[q].in => l.pg[q].in
  BY LoadCur DEF LoadedAs
<1>2. SizesOK(l, b, D.file)
  BY <1>1, PageOne DEF CoreOK, SizesOK
<1>3. PagerOK(l) /\ ItemsOK(l, b)
  BY <1>1 DEF CoreOK, PagerOK, ItemsOK
<1>4. \A q \in Page : CachePage(l, b, q)
  <2> SUFFICES ASSUME NEW q \in Page PROVE CachePage(l, b, q)
    OBVIOUS
  <2>1. CachePage(m, b, q)
    BY DEF CoreOK
  <2>2. CASE q # p
    BY <1>1, <2>1, <2>2 DEF CachePage
  <2>3. CASE q = p /\ m.pg[p].in
    <3>1. l.pg[p].inJournal = m.pg[p].inJournal
      BY <2>3 DEF LoadedAs
    <3>2. QED
      BY <1>1, <2>1, <2>3, <3>1 DEF CachePage, LoadedAs
  <2>4. CASE q = p /\ ~m.pg[p].in
    <3>1. l.pg[p].inJournal = (p \in m.pager.aInJournal /\ p <= m.pager.origDbSize)
      BY <2>4 DEF LoadedAs
    <3>2. ~l.pg[p].dirty /\ ~l.pg[p].needSync /\ l.pg[p].in
      BY <2>4 DEF LoadedAs
    <3>3. m.pager.origDbSize = b.size
      BY DEF CoreOK, SizesOK
    <3>4. m.pager.aInJournal # {} => m.pager.dirtyCache
      BY DEF CoreOK, PagerOK
    <3>5. QED
      BY <1>1, <2>1, <2>4, <3>1, <3>2, <3>3, <3>4 DEF CachePage
  <2>5. QED
    BY <2>2, <2>3, <2>4
<1>5. \A q \in Needed(b) : OriginalPage(l, b, D, safe, q)
  <2> SUFFICES ASSUME NEW q \in Needed(b) PROVE OriginalPage(l, b, D, safe, q)
    OBVIOUS
  <2>1. OriginalPage(m, b, D, safe, q) /\ q \in Page
    BY NeededPages DEF CoreOK
  <2>2. QED
    BY <1>1, <2>1 DEF OriginalPage
<1>6. QED
  BY <1>2, <1>3, <1>4, <1>5 DEF CoreOK

LEMMA LoadStmt ==
  ASSUME NEW m, NEW l, NEW p \in Page, LoadedAs(m, l, p), NEW b, NEW s \in DatabaseType,
         StmtOK(m, s, b, file)
  PROVE  StmtOK(l, s, b, file)
<1>1. /\ l.pager = m.pager /\ l.items = m.items /\ l.stmt = m.stmt
      /\ \A q \in Page : q # p => l.pg[q] = m.pg[q]
      /\ \A q \in Page : Cur(l, file, q) = Cur(m, file, q)
      /\ \A q \in Page : l.pg[q].needSync = m.pg[q].needSync
      /\ \A q \in Page : l.pg[q].dirty = m.pg[q].dirty
  BY LoadCur DEF LoadedAs
<1>2. CASE ~m.stmt.inUse
  <2>1. m.stmt = NoStmt /\ \A q \in Page : ~m.pg[q].inStmt
    BY <1>2 DEF StmtOK
  <2>2. m.stmt.aInStmt = {}
    BY <2>1 DEF NoStmt
  <2>3. ~l.pg[p].inStmt
    BY <2>1, <2>2 DEF LoadedAs
  <2>4. QED
    BY <1>1, <1>2, <2>1, <2>3 DEF StmtOK
<1>3. CASE m.stmt.inUse
  <2>1. StmtOpen(m, s, b) /\ StmtRecs(m, s) /\ \A q \in Page : StmtPage(m, s, b, file, q)
    BY <1>3 DEF StmtOK
  <2>2. s.size \in Page /\ m.stmt.size = s.size
    BY <2>1, Contents DEF StmtOpen, Page
  <2>3. StmtOpen(l, s, b) /\ StmtRecs(l, s)
    BY <1>1, <2>1, <2>2 DEF StmtOpen, StmtRecs
  <2>4. \A q : Hit(l, q) <=> Hit(m, q)
    BY <1>1 DEF Hit, InRecs, InTail
  <2>5. ASSUME NEW q \in Page PROVE StmtPage(l, s, b, file, q)
    <3>1. StmtPage(m, s, b, file, q)
      BY <2>1
    <3>2. CASE q # p
      BY <1>1, <2>4, <3>1, <3>2 DEF StmtPage
    <3>3. CASE q = p /\ m.pg[p].in
      <4>1. l.pg[p].inStmt = m.pg[p].inStmt /\ l.pg[p].data = m.pg[p].data
        BY <3>3 DEF LoadedAs, Cur
      <4>2. QED
        BY <1>1, <2>4, <3>1, <3>3, <4>1 DEF StmtPage
    <3>4. CASE q = p /\ ~m.pg[p].in
      <4>1. l.pg[p].inStmt = (p \in m.stmt.aInStmt /\ p <= s.size)
        BY <2>2, <3>4 DEF LoadedAs
      <4>2. l.pg[p].data = file.page[p] /\ ~l.pg[p].dirty /\ ~l.pg[p].needSync
        BY <3>4 DEF LoadedAs, Cur
      <4>3. QED
        BY <1>1, <2>4, <3>1, <3>4, <4>1, <4>2 DEF StmtPage
    <3>5. QED
      BY <3>2, <3>3, <3>4
  <2>6. QED
    BY <1>1, <1>3, <2>3, <2>5 DEF StmtOK
<1>4. QED
  BY <1>2, <1>3

\* What is shown of e while the pages of X are still to be written.
ShowsBut(m, e, f, X) == SizeShows(m, e, f) /\ \A q \in Needed(e) \ X : ShowsPage(m, e, f, q)

LEMMA LoadShows ==
  ASSUME NEW m, NEW l, NEW p \in Page, LoadedAs(m, l, p), NEW e \in DatabaseType, NEW X,
         ShowsBut(m, e, file, X)
  PROVE  ShowsBut(l, e, file, X)
<1>1. /\ l.pager = m.pager
      /\ \A q \in Page : q # p => l.pg[q] = m.pg[q]
      /\ \A q \in Page : Cur(l, file, q) = Cur(m, file, q)
      /\ \A q \in Page : l.pg[q].dirty = m.pg[q].dirty
  BY LoadCur DEF LoadedAs
<1>2. SizeShows(l, e, file)
  <2>1. SizeShows(m, e, file)
    BY DEF ShowsBut
  <2>2. e.size \in Page
    BY <2>1, Contents DEF SizeShows, Page
  <2>3. QED
    BY <1>1, <2>1, <2>2 DEF SizeShows
<1>3. ASSUME NEW q \in Needed(e) \ X PROVE ShowsPage(l, e, file, q)
  <2>1. ShowsPage(m, e, file, q) /\ q \in Page
    BY NeededPages DEF ShowsBut
  <2>2. CASE q # p
    BY <1>1, <2>1, <2>2 DEF ShowsPage
  <2>3. CASE q = p
    BY <1>1, <2>1, <2>3 DEF ShowsPage, LoadedAs, Cur
  <2>4. QED
    BY <2>2, <2>3
<1>4. QED
  BY <1>2, <1>3 DEF ShowsBut

LEMMA WroteIn ==
  ASSUME file \in DatabaseType, NEW m, MemoryType(m), NEW p \in Page, NEW c \in Cont,
         NEW l, l = LoadPage(m, p), NEW n, n = Write(m, p, c)
  PROVE  Wrote(l, p, c, n, l.pg[p])
<1>1. /\ MemoryType(l) /\ l.pager = m.pager /\ l.stmt = m.stmt /\ l.items = m.items
      /\ \A q \in Page : q # p => l.pg[q] = m.pg[q]
      /\ l.pg[p] = Get(m, p) /\ l.pg[p].in /\ Get(l, p) = Get(m, p)
  BY LoadFields
<1>2. Wrote(m, p, c, n, l.pg[p])
  BY <1>1, WriteFields
<1>3. ToJournal(l, p) = ToJournal(m, p) /\ Fresh(l, p) = Fresh(m, p)
  <2>1. Get(l, p) = Get(m, p) /\ l.pager = m.pager
    BY <1>1
  <2>2. QED
    BY <2>1 DEF ToJournal, Fresh
<1>4. ToStmt(l, p) = ToStmt(m, p)
  BY <1>1, <1>3 DEF ToStmt
<1> DEFINE h == l.pg[p]
           j == ToJournal(m, p)
           s == ToStmt(m, p)
           f == Fresh(m, p)
<1>5. \A q \in Page : q # p => n.pg[q] = l.pg[q]
  BY <1>1, <1>2 DEF Wrote
<1> HIDE DEF h, j, s, f
<1>6. /\ n.pager.needSync = (l.pager.needSync \/ (f /\ n.pg[p].needSync))
      /\ n.pg[p].inStmt = (h.inStmt \/ (j /\ l.stmt.inUse) \/ s)
      /\ n.pg[p].needSync = IF f THEN j \/ ~l.pager.journalStarted ELSE h.needSync
  <2>1. /\ n.pager.needSync = (m.pager.needSync \/ (f /\ n.pg[p].needSync))
        /\ n.pg[p].inStmt = (h.inStmt \/ (j /\ m.stmt.inUse) \/ s)
        /\ n.pg[p].needSync = IF f THEN j \/ ~m.pager.journalStarted ELSE h.needSync
    BY <1>2, Zenon DEF Wrote, h, j, s, f
  <2>2. QED
    BY <1>1, <2>1, Zenon
<1>7. QED
  BY <1>1, <1>2, <1>3, <1>4, <1>5, <1>6 DEF Wrote, h, j, s, f

LEMMA NotWrittenIn ==
  ASSUME file \in DatabaseType, NEW m, MemoryType(m), NEW p \in Page,
         NEW l, l = LoadPage(m, p), NEW n, n = DontWrite(m, p)
  PROVE  NotWritten(l, p, n, l.pg[p])
<1>1. /\ MemoryType(l) /\ l.pager = m.pager /\ l.stmt = m.stmt /\ l.items = m.items
      /\ \A q \in Page : q # p => l.pg[q] = m.pg[q]
      /\ l.pg[p] = Get(m, p) /\ l.pg[p].in /\ Get(l, p) = Get(m, p)
  BY LoadFields
<1>2. NotWritten(m, p, n, l.pg[p])
  BY <1>1, DontWriteFields
<1>3. QED
  BY <1>1, <1>2 DEF NotWritten

LEMMA NotRolledBackIn ==
  ASSUME file \in DatabaseType, NEW m, MemoryType(m), NEW p \in Page,
         NEW l, l = LoadPage(m, p), NEW n, n = DontRollback(m, p), n # m
  PROVE  NotRolledBack(l, p, n, l.pg[p])
<1>1. /\ MemoryType(l) /\ l.pager = m.pager /\ l.stmt = m.stmt /\ l.items = m.items
      /\ \A q \in Page : q # p => l.pg[q] = m.pg[q]
      /\ l.pg[p] = Get(m, p) /\ l.pg[p].in /\ Get(l, p) = Get(m, p)
  BY LoadFields
<1>2. NotRolledBack(m, p, n, l.pg[p])
  BY <1>1, DontRollbackFields
<1>3. ToJournal(l, p) <=> ToJournal(m, p)
  BY <1>1 DEF ToJournal
<1>4. QED
  BY <1>1, <1>2, <1>3 DEF NotRolledBack

\* The items after a record was added.
MoreItems(old, new, r) ==
  \/ new = old
  \/ /\ Len(new) = Len(old) + 1 /\ Len(old) \in Nat
     /\ \A i \in 1..Len(old) : new[i] = old[i]
     /\ new[Len(old) + 1] = r

LEMMA MoreIs ==
  ASSUME NEW old, NEW new, NEW r, MoreItems(old, new, r), r.type = "record", NEW H \in 1..Len(old), NEW safe,
         Len(old) \in Nat
  PROVE  /\ \A p : Recorded(old, p) => Recorded(new, p)
         /\ \A p : Stored(old, H, safe, p) => Stored(new, H, safe, p)
         /\ \A p : Recorded(new, p) => Recorded(old, p) \/ (p = r.page /\ new # old)
         /\ \A p \in Page : p # r.page /\ Recorded(new, p) => Recorded(old, p)
         /\ new # old => Recorded(new, r.page)
         /\ Len(old) <= Len(new)
<1>1. CASE new = old
  BY <1>1
<1>2. CASE new # old
  <2>1. /\ Len(new) = Len(old) + 1 /\ Len(old) \in Nat
        /\ \A i \in 1..Len(old) : new[i] = old[i]
        /\ new[Len(old) + 1] = r
    BY <1>2 DEF MoreItems
  <2>2. \A i \in 1..Len(old) : i \in 1..Len(new) /\ new[i] = old[i]
    BY <2>1
  <2>3. Len(old) + 1 \in 1..Len(new)
    BY <2>1
  <2>4. \A i \in 1..Len(new) : i \in 1..Len(old) \/ i = Len(old) + 1
    BY <2>1
  <2>5. \A p : Recorded(old, p) => Recorded(new, p)
    BY <2>2 DEF Recorded
  <2>6. \A i \in 1..Len(old) : Safely(old, H, safe, i) => Safely(new, H, safe, i)
    BY <2>2 DEF Safely
  <2>7. \A p : Stored(old, H, safe, p) => Stored(new, H, safe, p)
    BY <2>2, <2>6 DEF Stored
  <2>8. \A p : Recorded(new, p) => Recorded(old, p) \/ p = r.page
    BY <2>1, <2>2, <2>4 DEF Recorded
  <2>9. Recorded(new, r.page)
    BY <2>1, <2>3 DEF Recorded
  <2>10. Len(old) <= Len(new)
    BY <2>1
  <2>11. QED
    BY <1>2, <2>5, <2>7, <2>8, <2>9, <2>10
<1>3. QED
  BY <1>1, <1>2

\* What a write does to a page that is in the cache.
Written(l, p, c, n) ==
  LET h == l.pg[p]
      j == ~h.inJournal /\ p <= l.pager.origDbSize
      s == l.stmt.inUse /\ ~h.inStmt /\ ~j /\ p <= l.stmt.size
      r == Record(p, h.data)
  IN /\ MemoryType(n)
     /\ MoreItems(l.items, n.items, r) /\ (n.items # l.items <=> j)
     /\ n.pager.state = l.pager.state /\ n.pager.origDbSize = l.pager.origDbSize
     /\ n.pager.journalHdr = l.pager.journalHdr
     /\ n.pager.journalStarted = l.pager.journalStarted
     /\ n.pager.alwaysRollback = l.pager.alwaysRollback
     /\ n.pager.dbSize = IF p > l.pager.dbSize THEN p ELSE l.pager.dbSize
     /\ n.pager.aInJournal = IF j THEN l.pager.aInJournal \cup {p} ELSE l.pager.aInJournal
     /\ n.pager.needSync = (l.pager.needSync \/ (~h.inJournal /\ n.pg[p].needSync))
     /\ n.pager.dirtyCache
     /\ n.stmt.inUse = l.stmt.inUse /\ n.stmt.size = l.stmt.size /\ n.stmt.from = l.stmt.from
     /\ MoreItems(l.stmt.recs, n.stmt.recs, r) /\ (n.stmt.recs # l.stmt.recs <=> s)
     /\ n.stmt.aInStmt = IF s \/ (j /\ l.stmt.inUse) THEN l.stmt.aInStmt \cup {p} ELSE l.stmt.aInStmt
     /\ ~l.stmt.inUse => n.stmt = l.stmt
     /\ \A q \in Page : q # p => n.pg[q] = l.pg[q]
     /\ n.pg[p].in /\ n.pg[p].data = c /\ n.pg[p].dirty /\ n.pg[p].inJournal
     /\ n.pg[p].needSync = IF ~h.inJournal THEN j \/ ~l.pager.journalStarted ELSE h.needSync
     /\ n.pg[p].inStmt = (h.inStmt \/ (j /\ l.stmt.inUse) \/ s)
     /\ n.pg[p].alwaysRollback = h.alwaysRollback

LEMMA MoreAppend ==
  ASSUME NEW old \in Seq(Item), NEW r \in Item
  PROVE  MoreItems(old, Append(old, r), r) /\ Append(old, r) # old
<1>1. /\ Len(Append(old, r)) = Len(old) + 1 /\ Len(old) \in Nat
      /\ \A i \in 1..Len(old) : Append(old, r)[i] = old[i]
      /\ Append(old, r)[Len(old) + 1] = r
  BY AppendSeq, LenProperties
<1>2. QED
  BY <1>1 DEF MoreItems

LEMMA WrittenIs ==
  ASSUME NEW l, MemoryType(l), NEW p \in Page, NEW c, NEW n, Get(l, p) = l.pg[p], Wrote(l, p, c, n, l.pg[p])
  PROVE  Written(l, p, c, n)
<1> DEFINE h == l.pg[p]
           r == Record(p, h.data)
<1>1. h \in PgHdr /\ r \in Item /\ l.items \in Seq(Item) /\ l.stmt.recs \in Seq(Item)
  BY Items DEF MemoryType, StmtType, PgHdr
<1>2. /\ ToJournal(l, p) = (~h.inJournal /\ p <= l.pager.origDbSize)
      /\ Fresh(l, p) = ~h.inJournal
      /\ ToStmt(l, p) = (l.stmt.inUse /\ ~h.inStmt /\ ~ToJournal(l, p) /\ p <= l.stmt.size)
  BY DEF ToJournal, Fresh, ToStmt
<1>3. /\ MoreItems(l.items, Append(l.items, r), r) /\ Append(l.items, r) # l.items
      /\ MoreItems(l.stmt.recs, Append(l.stmt.recs, r), r) /\ Append(l.stmt.recs, r) # l.stmt.recs
      /\ MoreItems(l.items, l.items, r) /\ MoreItems(l.stmt.recs, l.stmt.recs, r)
  BY <1>1, MoreAppend DEF MoreItems
<1>4. /\ MoreItems(l.items, n.items, r) /\ (n.items # l.items <=> ToJournal(l, p))
      /\ MoreItems(l.stmt.recs, n.stmt.recs, r) /\ (n.stmt.recs # l.stmt.recs <=> ToStmt(l, p))
  <2>1. n.items = (IF ToJournal(l, p) THEN Append(l.items, r) ELSE l.items)
    BY DEF Wrote
  <2>2. n.stmt.recs = (IF ToStmt(l, p) THEN Append(l.stmt.recs, r) ELSE l.stmt.recs)
    BY DEF Wrote
  <2>3. QED
    BY <1>3, <2>1, <2>2
<1> HIDE DEF r
<1>5. QED
  BY <1>2, <1>4 DEF Wrote, Written, r

LEMMA WrittenRecord ==
  ASSUME NEW p, NEW c
  PROVE  Record(p, c).type = "record" /\ Record(p, c).page = p /\ Record(p, c).data = c
  BY DEF Record

LEMMA WriteItems ==
  ASSUME NEW l, MemoryType(l), NEW p \in Page, NEW c, NEW n, Written(l, p, c, n),
         l.pager.journalHdr \in 1..Len(l.items), NEW safe
  PROVE  /\ \A q : Recorded(l.items, q) => Recorded(n.items, q)
         /\ \A q : Stored(l.items, l.pager.journalHdr, safe, q) => Stored(n.items, n.pager.journalHdr, safe, q)
         /\ n.items # l.items => Recorded(n.items, p)
         /\ n.items # l.items <=> (~l.pg[p].inJournal /\ p <= l.pager.origDbSize)
         /\ \A i \in 1..Len(n.items) :
              \/ i \in 1..Len(l.items) /\ n.items[i] = l.items[i]
              \/ /\ n.items # l.items /\ i = Len(l.items) + 1 /\ Len(l.items) \in Nat
                 /\ n.items[i] = Record(p, l.pg[p].data)
<1> DEFINE r == Record(p, l.pg[p].data)
<1>1. /\ MoreItems(l.items, n.items, r) /\ n.pager.journalHdr = l.pager.journalHdr
      /\ n.items # l.items <=> (~l.pg[p].inJournal /\ p <= l.pager.origDbSize)
  BY DEF Written
<1>2. r.type = "record" /\ r.page = p
  BY WrittenRecord
<1>3. Len(l.items) \in Nat
  BY LenProperties DEF MemoryType
<1> HIDE DEF r
<1> DEFINE old == l.items
           new == n.items
           H == l.pager.journalHdr
<1>4. /\ \A q : Recorded(old, q) => Recorded(new, q)
      /\ \A q : Stored(old, H, safe, q) => Stored(new, H, safe, q)
      /\ new # old => Recorded(new, r.page)
  <2>1. MoreItems(old, new, r) /\ r.type = "record" /\ H \in 1..Len(old) /\ Len(old) \in Nat
    BY <1>1, <1>2, <1>3
  <2> HIDE DEF old, new, H
  <2>2. QED
    BY <2>1, MoreIs
<1>5. ASSUME NEW i \in 1..Len(n.items)
      PROVE  \/ i \in 1..Len(l.items) /\ n.items[i] = l.items[i]
             \/ n.items # l.items /\ i = Len(l.items) + 1 /\ n.items[i] = r
  <2>1. CASE n.items = l.items
    BY <2>1
  <2>2. CASE n.items # l.items
    BY <1>1, <1>3, <2>2 DEF MoreItems
  <2>3. QED
    BY <2>1, <2>2
<1>6. QED
  BY <1>1, <1>2, <1>3, <1>4, <1>5 DEF r

\* A page whose header says it is not in the journal has the content the transaction found.
LEMMA NotYet ==
  ASSUME NEW l, NEW p \in Page, l.pg[p].in, ~l.pg[p].inJournal, NEW b \in DatabaseType, NEW D, NEW safe,
         CoreOK(l, b, D, safe), p <= l.pager.origDbSize
  PROVE  /\ p \notin l.pager.aInJournal /\ p <= b.size
         /\ p \in Needed(b) => l.pg[p].data = b.page[p]
<1>1. l.pager.origDbSize = b.size /\ CachePage(l, b, p)
  BY DEF CoreOK, SizesOK
<1>2. p \notin l.pager.aInJournal /\ p <= b.size
  BY <1>1 DEF CachePage
<1>3. p \in Needed(b) => OriginalPage(l, b, D, safe, p)
  BY DEF CoreOK
<1>4. QED
  BY <1>2, <1>3 DEF OriginalPage, Cur

LEMMA WriteCore ==
  ASSUME NEW l, MemoryType(l), NEW p \in Page, l.pg[p].in, NEW c, NEW n, Written(l, p, c, n),
         l.pager.journalHdr \in 1..Len(l.items),
         NEW b \in DatabaseType, NEW D, D.file \in DatabaseType, NEW safe, CoreOK(l, b, D, safe)
  PROVE  CoreOK(n, b, D, safe)
<1> DEFINE h == l.pg[p]
           j == ~h.inJournal /\ p <= l.pager.origDbSize
<1>1. /\ SizesOK(l, b, D.file) /\ PagerOK(l) /\ ItemsOK(l, b)
      /\ \A q \in Page : CachePage(l, b, q)
      /\ \A q \in Needed(b) : OriginalPage(l, b, D, safe, q)
  BY DEF CoreOK
<1>2. l.pager.origDbSize = b.size
  BY <1>1 DEF SizesOK
<1>3. j => p \notin l.pager.aInJournal /\ (p \in Needed(b) => h.data = b.page[p])
  BY NotYet
<1>4. /\ n.pager.state = l.pager.state /\ n.pager.origDbSize = l.pager.origDbSize
      /\ n.pager.journalStarted = l.pager.journalStarted
      /\ n.pager.dbSize = IF p > l.pager.dbSize THEN p ELSE l.pager.dbSize
      /\ n.pager.aInJournal = IF j THEN l.pager.aInJournal \cup {p} ELSE l.pager.aInJournal
      /\ n.pager.needSync = (l.pager.needSync \/ (~h.inJournal /\ n.pg[p].needSync))
      /\ n.pager.dirtyCache
      /\ \A q \in Page : q # p => n.pg[q] = l.pg[q]
      /\ n.pg[p].in /\ n.pg[p].dirty /\ n.pg[p].inJournal
      /\ n.pg[p].needSync = IF ~h.inJournal THEN j \/ ~l.pager.journalStarted ELSE h.needSync
  BY DEF Written
<1>5. SizesOK(n, b, D.file)
  <2>1. n.pg[1].in
    BY <1>1, <1>4, PageOne DEF SizesOK
  <2>2. l.pager.dbSize \in Nat /\ b.size \in Nat /\ D.file.size \in Nat /\ p \in Nat
    BY PageOne, Contents DEF MemoryType, PagerType
  <2>3. QED
    BY <1>1, <1>4, <2>1, <2>2 DEF SizesOK
<1>6. PagerOK(n)
  BY <1>1, <1>4 DEF PagerOK
<1>7. /\ \A q : Recorded(l.items, q) => Recorded(n.items, q)
      /\ \A q : Stored(l.items, l.pager.journalHdr, safe, q) => Stored(n.items, n.pager.journalHdr, safe, q)
      /\ j => Recorded(n.items, p)
      /\ \A i \in 1..Len(n.items) :
           \/ i \in 1..Len(l.items) /\ n.items[i] = l.items[i]
           \/ j /\ n.items[i] = Record(p, h.data)
  <2>1. n.items # l.items <=> j
    BY WriteItems
  <2>2. \A i \in 1..Len(n.items) :
           \/ i \in 1..Len(l.items) /\ n.items[i] = l.items[i]
           \/ n.items # l.items /\ n.items[i] = Record(p, h.data)
    BY WriteItems
  <2>3. /\ \A q : Recorded(l.items, q) => Recorded(n.items, q)
        /\ n.items # l.items => Recorded(n.items, p)
    BY WriteItems
  <2>4. \A q : Stored(l.items, l.pager.journalHdr, safe, q) => Stored(n.items, n.pager.journalHdr, safe, q)
    BY WriteItems
  <2> HIDE DEF j, h
  <2>5. QED
    BY <2>1, <2>2, <2>3, <2>4
<1> HIDE DEF j
<1>8. ItemsOK(n, b)
  <2> SUFFICES ASSUME NEW i \in 1..Len(n.items), n.items[i].type = "record"
               PROVE  /\ n.items[i].page \in n.pager.aInJournal
                      /\ n.items[i].page \in Needed(b) => n.items[i].data = b.page[n.items[i].page]
    BY DEF ItemsOK
  <2>1. CASE i \in 1..Len(l.items) /\ n.items[i] = l.items[i]
    BY <1>1, <1>4, <2>1 DEF ItemsOK
  <2>2. CASE j /\ n.items[i] = Record(p, h.data)
    <3>1. n.items[i].page = p /\ n.items[i].data = h.data
      BY <2>2, WrittenRecord
    <3>2. QED
      BY <1>3, <1>4, <2>2, <3>1
  <2>3. QED
    BY <1>7, <2>1, <2>2
<1>9. ASSUME NEW q \in Page PROVE CachePage(n, b, q)
  <2>1. CachePage(l, b, q)
    BY <1>1
  <2>2. CASE q # p
    <3>1. q \in n.pager.aInJournal <=> q \in l.pager.aInJournal
      BY <1>4, <2>2
    <3>2. n.pg[q] = l.pg[q]
      BY <1>4, <2>2
    <3>3. QED
      BY <1>4, <2>1, <3>1, <3>2 DEF CachePage
  <2>3. CASE q = p
    <3>1. p <= b.size => p \in n.pager.aInJournal
      BY <1>2, <1>4, <2>1, <2>3 DEF CachePage, j
    <3>2. ~n.pg[p].needSync => n.pager.journalStarted
      BY <1>4, <2>1, <2>3 DEF CachePage
    <3>3. n.pg[p].needSync => n.pager.needSync
      BY <1>4, <2>1, <2>3 DEF CachePage
    <3>4. QED
      BY <1>4, <2>3, <3>1, <3>2, <3>3 DEF CachePage
  <2>4. QED
    BY <2>2, <2>3
<1>10. ASSUME NEW q \in Needed(b) PROVE OriginalPage(n, b, D, safe, q)
  <2>1. OriginalPage(l, b, D, safe, q) /\ q \in Page /\ q <= b.size
    BY <1>1, NeededPages
  <2>2. FileIs(D, q, b.page[q]) \/ Stored(n.items, n.pager.journalHdr, safe, q)
    BY <1>7, <2>1 DEF OriginalPage
  <2>3. CASE q # p
    <3>1. (q \in n.pager.aInJournal <=> q \in l.pager.aInJournal) /\ n.pg[q] = l.pg[q]
      BY <1>4, <2>1, <2>3
    <3>2. QED
      BY <1>7, <2>1, <2>2, <3>1 DEF OriginalPage, Cur
  <2>4. CASE q = p
    <3>1. p \in n.pager.aInJournal
      BY <1>1, <1>2, <1>4, <2>1, <2>4 DEF CachePage, j
    <3>2. CASE j
      <4>1. n.pg[p].needSync
        BY <1>4, <3>2 DEF j
      <4>2. QED
        BY <1>7, <2>2, <2>4, <3>1, <3>2, <4>1 DEF OriginalPage
    <3>3. CASE ~j
      <4>1. p \in l.pager.aInJournal /\ n.pg[p].needSync = h.needSync
        BY <1>1, <1>2, <1>4, <2>1, <2>4, <3>3 DEF j, CachePage
      <4>2. QED
        BY <1>7, <2>1, <2>2, <2>4, <3>1, <4>1 DEF OriginalPage
    <3>4. QED
      BY <3>2, <3>3
  <2>5. QED
    BY <2>3, <2>4
<1>11. QED
  BY <1>5, <1>6, <1>8, <1>9, <1>10 DEF CoreOK

\* A record that is written is of a page that the statement did not find yet.
LEMMA WriteHits ==
  ASSUME NEW l, MemoryType(l), NEW p \in Page, NEW c, NEW n, Written(l, p, c, n), l.stmt.inUse,
         l.stmt.from <= Len(l.items)
  PROVE  /\ \A q : Hit(l, q) => Hit(n, q)
         /\ \A q : q # p /\ Hit(n, q) => Hit(l, q)
         /\ n.items # l.items \/ n.stmt.recs # l.stmt.recs => Hit(n, p)
         /\ n.items = l.items /\ n.stmt.recs = l.stmt.recs => (Hit(n, p) <=> Hit(l, p))
<1> DEFINE r == Record(p, l.pg[p].data)
           k == l.stmt.from
<1>1. /\ MoreItems(l.items, n.items, r) /\ MoreItems(l.stmt.recs, n.stmt.recs, r) /\ n.stmt.from = k
  BY DEF Written
<1>2. r.type = "record" /\ r.page = p
  BY WrittenRecord
<1>3. Len(l.items) \in Nat /\ k \in Nat /\ k <= Len(l.items) /\ Len(l.stmt.recs) \in Nat
  BY LenProperties DEF MemoryType, StmtType
<1> HIDE DEF r, k
<1>4. /\ \A q : InRecs(l, q) => InRecs(n, q)
      /\ \A q : q # p /\ InRecs(n, q) => InRecs(l, q)
      /\ n.stmt.recs # l.stmt.recs => InRecs(n, p)
      /\ n.stmt.recs = l.stmt.recs => (InRecs(n, p) <=> InRecs(l, p))
  <2>1. CASE n.stmt.recs = l.stmt.recs
    BY <2>1 DEF InRecs
  <2>2. CASE n.stmt.recs # l.stmt.recs
    <3>1. /\ Len(n.stmt.recs) = Len(l.stmt.recs) + 1
          /\ \A i \in 1..Len(l.stmt.recs) : n.stmt.recs[i] = l.stmt.recs[i]
          /\ n.stmt.recs[Len(l.stmt.recs) + 1] = r
      BY <1>1, <2>2 DEF MoreItems
    <3>2. \A i \in 1..Len(l.stmt.recs) : i \in 1..Len(n.stmt.recs)
      BY <1>3, <3>1
    <3>3. Len(l.stmt.recs) + 1 \in 1..Len(n.stmt.recs)
      BY <1>3, <3>1
    <3>4. \A i \in 1..Len(n.stmt.recs) : i \in 1..Len(l.stmt.recs) \/ i = Len(l.stmt.recs) + 1
      BY <1>3, <3>1
    <3>5. InRecs(n, p)
      BY <1>2, <3>1, <3>3 DEF InRecs
    <3>6. \A q : InRecs(l, q) => InRecs(n, q)
      BY <3>1, <3>2 DEF InRecs
    <3>7. \A q : q # p /\ InRecs(n, q) => InRecs(l, q)
      BY <1>2, <3>1, <3>4 DEF InRecs
    <3>8. QED
      BY <2>2, <3>5, <3>6, <3>7
  <2>3. QED
    BY <2>1, <2>2
<1>5. /\ \A q : InTail(l, q) => InTail(n, q)
      /\ \A q : q # p /\ InTail(n, q) => InTail(l, q)
      /\ n.items # l.items => InTail(n, p)
      /\ n.items = l.items => (InTail(n, p) <=> InTail(l, p))
  <2>1. CASE n.items = l.items
    BY <1>1, <2>1 DEF InTail, k
  <2>2. CASE n.items # l.items
    <3>1. /\ Len(n.items) = Len(l.items) + 1
          /\ \A i \in 1..Len(l.items) : n.items[i] = l.items[i]
          /\ n.items[Len(l.items) + 1] = r
      BY <1>1, <2>2 DEF MoreItems
    <3>2. \A i \in (k + 1)..Len(l.items) : i \in (k + 1)..Len(n.items) /\ i \in 1..Len(l.items)
      BY <1>3, <3>1
    <3>3. Len(l.items) + 1 \in (k + 1)..Len(n.items)
      BY <1>3, <3>1
    <3>4. \A i \in (k + 1)..Len(n.items) :
            (i \in (k + 1)..Len(l.items) /\ i \in 1..Len(l.items)) \/ i = Len(l.items) + 1
      BY <1>3, <3>1
    <3>5. InTail(n, p)
      BY <1>1, <1>2, <3>1, <3>3 DEF InTail
    <3>6. \A q : InTail(l, q) => InTail(n, q)
      BY <1>1, <3>1, <3>2 DEF InTail, k
    <3>7. \A q : q # p /\ InTail(n, q) => InTail(l, q)
      BY <1>1, <1>2, <3>1, <3>4 DEF InTail, k
    <3>8. QED
      BY <2>2, <3>5, <3>6, <3>7
  <2>3. QED
    BY <2>1, <2>2
<1>6. QED
  BY <1>4, <1>5 DEF Hit

\* The page a write records for the statement has the content the statement found.
LEMMA NotYetStmt ==
  ASSUME NEW l, NEW p \in Page, l.pg[p].in, NEW b \in DatabaseType, NEW s \in DatabaseType, NEW f,
         NEW D, NEW safe, CoreOK(l, b, D, safe), l.stmt.inUse, StmtOK(l, s, b, f),
         \/ ~l.pg[p].inJournal /\ p <= l.pager.origDbSize
         \/ ~l.pg[p].inStmt /\ p <= l.stmt.size
  PROVE  p <= s.size /\ (p \in Needed(s) => l.pg[p].data = s.page[p])
<1>1. StmtOpen(l, s, b) /\ StmtPage(l, s, b, f, p)
  BY DEF StmtOK
<1>2. p \in Nat /\ b.size \in Nat /\ s.size \in Nat /\ b.size <= s.size /\ l.stmt.size = s.size
  BY <1>1, PageOne, Contents DEF StmtOpen
<1>3. CASE ~l.pg[p].inJournal /\ p <= l.pager.origDbSize
  <2>1. p \notin l.pager.aInJournal /\ p <= b.size
    BY <1>3, NotYet
  <2>2. p <= s.size
    BY <1>2, <2>1
  <2>3. ~Hit(l, p)
    BY <1>1, <2>1, <2>2 DEF StmtPage
  <2>4. QED
    BY <1>1, <2>2, <2>3 DEF StmtPage, Cur
<1>4. CASE ~l.pg[p].inStmt /\ p <= l.stmt.size
  <2>1. p <= s.size /\ p \notin l.stmt.aInStmt
    BY <1>1, <1>2, <1>4 DEF StmtPage
  <2>2. QED
    BY <1>1, <2>1 DEF StmtPage, Cur
<1>5. QED
  BY <1>3, <1>4

LEMMA WriteStmt ==
  ASSUME NEW l, MemoryType(l), NEW p \in Page, l.pg[p].in, NEW c, NEW n, Written(l, p, c, n),
         NEW b \in DatabaseType, NEW s \in DatabaseType, NEW D, NEW safe,
         CoreOK(l, b, D, safe), NEW f, StmtOK(l, s, b, f)
  PROVE  StmtOK(n, s, b, f)
<1> DEFINE h == l.pg[p]
           j == ~h.inJournal /\ p <= l.pager.origDbSize
           t == l.stmt.inUse /\ ~h.inStmt /\ ~j /\ p <= l.stmt.size
           r == Record(p, h.data)
<1>1. /\ MemoryType(n) /\ n.pager.state = l.pager.state
      /\ MoreItems(l.items, n.items, r) /\ MoreItems(l.stmt.recs, n.stmt.recs, r)
      /\ n.pager.dbSize = IF p > l.pager.dbSize THEN p ELSE l.pager.dbSize
      /\ n.pager.aInJournal = IF j THEN l.pager.aInJournal \cup {p} ELSE l.pager.aInJournal
      /\ n.pager.dirtyCache
      /\ n.stmt.inUse = l.stmt.inUse /\ n.stmt.size = l.stmt.size /\ n.stmt.from = l.stmt.from
      /\ n.stmt.aInStmt = IF t \/ (j /\ l.stmt.inUse) THEN l.stmt.aInStmt \cup {p} ELSE l.stmt.aInStmt
      /\ \A q \in Page : q # p => n.pg[q] = l.pg[q]
      /\ n.pg[p].in /\ n.pg[p].dirty
  BY DEF Written
<1>2. n.pg[p].inStmt = (h.inStmt \/ (j /\ l.stmt.inUse) \/ t)
  BY DEF Written
<1>3. (n.items # l.items <=> j) /\ (n.stmt.recs # l.stmt.recs <=> t)
  BY DEF Written
<1>4. CASE ~l.stmt.inUse
  <2>1. l.stmt = NoStmt /\ \A q \in Page : ~l.pg[q].inStmt
    BY <1>4 DEF StmtOK
  <2>2. n.stmt = NoStmt
    BY <1>4, <2>1 DEF Written
  <2>3. ~n.pg[p].inStmt
    BY <1>2, <1>4, <2>1
  <2>4. ASSUME NEW q \in Page PROVE ~n.pg[q].inStmt
    BY <1>1, <2>1, <2>3
  <2>5. QED
    BY <1>1, <1>4, <2>2, <2>4 DEF StmtOK
<1>5. CASE l.stmt.inUse
  <2>1. StmtOpen(l, s, b) /\ StmtRecs(l, s) /\ \A q \in Page : StmtPage(l, s, b, f, q)
    BY <1>5 DEF StmtOK
  <2>2. /\ l.stmt.size = s.size /\ s.size \in Page /\ s.size \in Nat /\ b.size \in Nat /\ p \in Nat
        /\ b.size <= s.size /\ l.pager.dbSize \in Nat /\ s.size <= l.pager.dbSize
        /\ l.stmt.from \in Nat /\ l.stmt.from <= Len(l.items) /\ Len(l.items) \in Nat
        /\ Len(l.stmt.recs) \in Nat
    BY <2>1, PageOne, Contents, LenProperties, SMTT(20) DEF StmtOpen, MemoryType, PagerType, StmtType, Page
  <2>3. l.pager.origDbSize = b.size /\ CachePage(l, b, p)
    BY DEF CoreOK, SizesOK
  <2>4. /\ \A q : Hit(l, q) => Hit(n, q)
        /\ \A q : q # p /\ Hit(n, q) => Hit(l, q)
        /\ j \/ t => Hit(n, p)
        /\ ~(j \/ t) => (Hit(n, p) <=> Hit(l, p))
    BY <1>3, <1>5, <2>2, WriteHits
  <2>5. j \/ t => p <= s.size /\ (p \in Needed(s) => h.data = s.page[p])
    BY <1>5, NotYetStmt
  <2>6. r \in RecordType /\ r.type = "record" /\ r.page = p /\ r.data = h.data
    BY WrittenRecord, Items DEF MemoryType, PgHdr
  <2> HIDE DEF h, j, t, r
  <2>7. StmtOpen(n, s, b)
    <3>1. s.size <= n.pager.dbSize
      BY <1>1, <2>2
    <3>2. Len(l.items) <= Len(n.items)
      BY <1>1, <2>2 DEF MoreItems
    <3>3. n.pg[s.size].dirty \/ n.pg[s.size] = l.pg[s.size]
      BY <1>1, <2>2
    <3>4. n.stmt.from <= Len(n.items)
      <4>1. \A x, y, z : x \in Nat /\ y \in Nat /\ x <= y /\ (z = y \/ z = y + 1) => x <= z
        OBVIOUS
      <4>2. Len(n.items) = Len(l.items) \/ Len(n.items) = Len(l.items) + 1
        BY <1>1 DEF MoreItems
      <4>3. QED
        BY <1>1, <2>2, <4>1, <4>2
    <3>5. QED
      BY <1>1, <2>1, <3>1, <3>3, <3>4 DEF StmtOpen
  <2>8. StmtRecs(n, s)
    <3>1. ASSUME NEW i \in 1..Len(n.stmt.recs)
          PROVE  /\ n.stmt.recs[i] \in RecordType
                 /\ n.stmt.recs[i].page \in Needed(s) => n.stmt.recs[i].data = s.page[n.stmt.recs[i].page]
      <4>1. (i \in 1..Len(l.stmt.recs) /\ n.stmt.recs[i] = l.stmt.recs[i]) \/ (t /\ n.stmt.recs[i] = r)
        BY <1>1, <1>3, <2>2, SMTT(20) DEF MoreItems
      <4>2. QED
        BY <2>1, <2>5, <2>6, <4>1 DEF StmtRecs
    <3>2. ASSUME NEW i \in (n.stmt.from + 1)..Len(n.items), n.items[i].type = "record",
                 n.items[i].page \in Needed(s)
          PROVE  n.items[i].data = s.page[n.items[i].page]
      <4>1. (i \in (l.stmt.from + 1)..Len(l.items) /\ n.items[i] = l.items[i]) \/ (j /\ n.items[i] = r)
        <5>1. CASE n.items = l.items
          BY <1>1, <5>1
        <5>2. CASE n.items # l.items
          BY <1>1, <1>3, <2>2, <5>2 DEF MoreItems
        <5>3. QED
          BY <5>1, <5>2
      <4>2. QED
        BY <2>1, <2>5, <2>6, <3>2, <4>1 DEF StmtRecs
    <3>3. QED
      BY <3>1, <3>2 DEF StmtRecs
  <2>9. ASSUME NEW q \in Page PROVE StmtPage(n, s, b, f, q)
    <3>1. StmtPage(l, s, b, f, q)
      BY <2>1
    <3>2. CASE q # p
      <4>1. /\ n.pg[q] = l.pg[q] /\ (Hit(n, q) <=> Hit(l, q))
            /\ (q \in n.stmt.aInStmt <=> q \in l.stmt.aInStmt)
            /\ (q \in n.pager.aInJournal <=> q \in l.pager.aInJournal)
        BY <1>1, <2>4, <3>2
      <4>2. QED
        BY <1>1, <3>1, <4>1 DEF StmtPage, Cur
    <3>3. CASE q = p
      <4>1. p <= s.size => (n.pg[p].inStmt <=> p \in n.stmt.aInStmt)
        BY <1>1, <1>2, <1>5, <3>1, <3>3 DEF StmtPage, h
      <4>2. n.pg[p].inStmt => p <= s.size
        BY <1>2, <1>5, <2>5, <3>1, <3>3 DEF StmtPage, h
      <4>3. p \in Needed(s) => Hit(n, p) /\ p \in n.stmt.aInStmt
        <5>1. CASE j \/ t
          BY <1>1, <1>5, <2>4, <5>1
        <5>2. CASE ~(j \/ t) /\ p \in Needed(s)
          <6>1. p <= s.size
            BY <2>2, <5>2 DEF Needed
          <6>2. l.pg[p].inStmt
            BY <1>5, <2>2, <5>2, <6>1 DEF t, j, h
          <6>3. p \in l.stmt.aInStmt /\ Hit(l, p)
            BY <3>1, <3>3, <5>2, <6>1, <6>2 DEF StmtPage
          <6>4. QED
            BY <1>1, <2>4, <6>3
        <5>3. QED
          BY <5>1, <5>2
      <4>4. p <= b.size => p \in n.pager.aInJournal
        BY <1>1, <2>3 DEF CachePage, j, h
      <4>5. QED
        BY <1>1, <3>3, <4>1, <4>2, <4>3, <4>4 DEF StmtPage
    <3>4. QED
      BY <3>2, <3>3
  <2>10. QED
    BY <1>1, <1>5, <2>7, <2>8, <2>9 DEF StmtOK
<1>6. QED
  BY <1>4, <1>5

\* What is to be shown after content c is written to page p.
Changed(e, k, p, c, X, Y) ==
  \A q \in Needed(k) \ Y :
    (q = p /\ k.page[p] = c) \/ (q # p /\ q \in Needed(e) \ X /\ k.page[q] = e.page[q])

LEMMA WriteShows ==
  ASSUME NEW l, MemoryType(l), NEW p \in Page, l.pg[p].in, NEW c, NEW n, Written(l, p, c, n),
         NEW e \in DatabaseType, NEW k \in DatabaseType, NEW f, f.size \in Nat,
         p > l.pager.dbSize \/ SizeShows(l, e, f), NEW X, NEW Y, \A q \in Needed(e) \ X : ShowsPage(l, e, f, q),
         k.size = n.pager.dbSize,
         Changed(e, k, p, c, X, Y)
  PROVE  ShowsBut(n, k, f, Y)
<1>1. /\ n.pager.dbSize = IF p > l.pager.dbSize THEN p ELSE l.pager.dbSize
      /\ \A q \in Page : q # p => n.pg[q] = l.pg[q]
      /\ n.pg[p].in /\ n.pg[p].data = c /\ n.pg[p].dirty
  BY DEF Written
<1>2. p \in Nat /\ 1 <= p /\ l.pager.dbSize \in Nat
  BY PageOne DEF MemoryType, PagerType, Page
<1>3. SizeShows(n, k, f)
  <2>1. CASE n.pager.dbSize = p
    BY <1>1, <1>2, <2>1 DEF SizeShows
  <2>2. CASE n.pager.dbSize # p
    <3>1. n.pager.dbSize = l.pager.dbSize /\ SizeShows(l, e, f)
      BY <1>1, <1>2, <2>2
    <3>2. e.size \in Page /\ n.pager.dbSize = e.size
      BY <3>1, Contents DEF SizeShows, Page
    <3>3. QED
      BY <1>1, <2>2, <3>1, <3>2 DEF SizeShows
  <2>3. QED
    BY <2>1, <2>2
<1>4. ASSUME NEW q \in Needed(k) \ Y PROVE ShowsPage(n, k, f, q)
  <2>1. q \in Page
    BY NeededPages
  <2>2. CASE q = p /\ k.page[p] = c
    BY <1>1, <2>2 DEF ShowsPage, Cur
  <2>3. CASE q # p /\ q \in Needed(e) \ X /\ k.page[q] = e.page[q]
    BY <1>1, <2>1, <2>3 DEF ShowsPage, Cur
  <2>4. QED
    BY <2>2, <2>3 DEF Changed
<1>5. QED
  BY <1>3, <1>4 DEF ShowsBut

\* sqlite3pager_dont_write clears dirty only when no statement is open.
LEMMA DontWriteCore ==
  ASSUME NEW l, NEW p \in Page, l.pg[p].in, NEW n, NotWritten(l, p, n, l.pg[p]),
         NEW b \in DatabaseType, NEW D, NEW safe, CoreOK(l, b, D, safe)
  PROVE  CoreOK(n, b, D, safe)
<1>1. /\ n.items = l.items /\ n.pager = l.pager /\ \A q \in Page : q # p => n.pg[q] = l.pg[q]
      /\ n.pg[p].in /\ n.pg[p].data = l.pg[p].data /\ n.pg[p].inJournal = l.pg[p].inJournal
      /\ n.pg[p].needSync = l.pg[p].needSync
      /\ n.pg[p].dirty = (l.pg[p].dirty /\ (l.stmt.inUse \/ (l.pager.dbSize = p /\
                                            l.pager.origDbSize < l.pager.dbSize)))
  BY DEF NotWritten
<1>2. SizesOK(n, b, D.file)
  <2>1. n.pg[1].in
    BY <1>1, PageOne DEF CoreOK, SizesOK
  <2>2. QED
    BY <1>1, <2>1 DEF CoreOK, SizesOK
<1>3. PagerOK(n) /\ ItemsOK(n, b)
  BY <1>1 DEF CoreOK, PagerOK, ItemsOK
<1>4. ASSUME NEW q \in Page PROVE CachePage(n, b, q)
  <2>1. CachePage(l, b, q)
    BY DEF CoreOK
  <2>2. CASE q # p
    BY <1>1, <2>1, <2>2 DEF CachePage
  <2>3. CASE q = p
    <3>1. n.pg[p].dirty => l.pg[p].dirty
      BY <1>1
    <3>2. QED
      BY <1>1, <2>1, <2>3, <3>1 DEF CachePage
  <2>4. QED
    BY <2>2, <2>3
<1>5. ASSUME NEW q \in Needed(b) PROVE OriginalPage(n, b, D, safe, q)
  <2>1. OriginalPage(l, b, D, safe, q) /\ q \in Page
    BY NeededPages DEF CoreOK
  <2>2. n.pg[q].needSync = l.pg[q].needSync /\ Cur(n, D.file, q) = Cur(l, D.file, q)
    BY <1>1, <2>1 DEF Cur
  <2>3. QED
    BY <1>1, <2>1, <2>2 DEF OriginalPage
<1>6. QED
  BY <1>2, <1>3, <1>4, <1>5 DEF CoreOK

LEMMA DontWriteStmt ==
  ASSUME NEW l, MemoryType(l), NEW p \in Page, l.pg[p].in, NEW n, NotWritten(l, p, n, l.pg[p]),
         NEW b \in DatabaseType, NEW s \in DatabaseType, NEW f, StmtOK(l, s, b, f)
  PROVE  StmtOK(n, s, b, f)
<1>1. /\ MemoryType(n) /\ n.items = l.items /\ n.pager = l.pager /\ n.stmt = l.stmt
      /\ \A q \in Page : q # p => n.pg[q] = l.pg[q]
      /\ n.pg[p].in /\ n.pg[p].data = l.pg[p].data /\ n.pg[p].inStmt = l.pg[p].inStmt
      /\ n.pg[p].needSync = l.pg[p].needSync
  BY DEF NotWritten
<1>2. CASE ~l.stmt.inUse
  <2>1. l.stmt = NoStmt /\ \A q \in Page : ~l.pg[q].inStmt
    BY <1>2 DEF StmtOK
  <2>2. ASSUME NEW q \in Page PROVE ~n.pg[q].inStmt
    BY <1>1, <2>1
  <2>3. QED
    BY <1>1, <1>2, <2>1, <2>2 DEF StmtOK
<1>3. CASE l.stmt.inUse
  <2>1. StmtOpen(l, s, b) /\ StmtRecs(l, s) /\ \A q \in Page : StmtPage(l, s, b, f, q)
    BY <1>3 DEF StmtOK
  <2>2. n.pg[p].dirty = l.pg[p].dirty
    <3>1. n.pg[p].dirty = (l.pg[p].dirty /\ (l.stmt.inUse \/ (l.pager.dbSize = p /\
                                            l.pager.origDbSize < l.pager.dbSize)))
      BY DEF NotWritten
    <3>2. n.pg[p] \in PgHdr /\ l.pg[p] \in PgHdr
      BY <1>1 DEF MemoryType
    <3>3. QED
      BY <1>3, <3>1, <3>2 DEF PgHdr
  <2>3. s.size \in Page
    BY <2>1, Contents DEF StmtOpen, Page
  <2>4. n.pg[s.size].dirty = l.pg[s.size].dirty
    BY <1>1, <2>2, <2>3
  <2>5. StmtOpen(n, s, b) /\ StmtRecs(n, s)
    BY <1>1, <2>1, <2>4, SMTT(20) DEF StmtOpen, StmtRecs
  <2>6. \A q : Hit(n, q) <=> Hit(l, q)
    BY <1>1 DEF Hit, InRecs, InTail
  <2>7. ASSUME NEW q \in Page PROVE StmtPage(n, s, b, f, q)
    <3>1. StmtPage(l, s, b, f, q)
      BY <2>1
    <3>2. /\ n.pg[q].in = l.pg[q].in \/ (n.pg[q].in /\ l.pg[q].in)
          /\ n.pg[q].data = l.pg[q].data /\ n.pg[q].inStmt = l.pg[q].inStmt
          /\ n.pg[q].needSync = l.pg[q].needSync /\ n.pg[q].dirty = l.pg[q].dirty
      BY <1>1, <2>2
    <3>3. Cur(n, f, q) = Cur(l, f, q)
      BY <3>2 DEF Cur
    <3>4. QED
      BY <1>1, <2>6, <3>1, <3>2, <3>3 DEF StmtPage
  <2>8. QED
    BY <1>1, <1>3, <2>5, <2>7 DEF StmtOK
<1>4. QED
  BY <1>2, <1>3

LEMMA DontWriteShows ==
  ASSUME NEW l, MemoryType(l), NEW p \in Page, NEW n, NotWritten(l, p, n, l.pg[p]),
         NEW e \in DatabaseType, NEW X, p \notin Needed(e) \ X, NEW f, f.size \in Nat, l.pager.origDbSize <= f.size,
         ShowsBut(l, e, f, X)
  PROVE  ShowsBut(n, e, f, X)
<1>1. n.pager = l.pager /\ \A q \in Page : q # p => n.pg[q] = l.pg[q]
  BY DEF NotWritten
<1>2. SizeShows(n, e, f)
  <2>1. SizeShows(l, e, f)
    BY DEF ShowsBut
  <2>2. e.size \in Page /\ l.pager.dbSize = e.size
    BY <2>1, Contents DEF SizeShows, Page
  <2>3. CASE e.size # p
    BY <1>1, <2>1, <2>2, <2>3 DEF SizeShows
  <2>4. CASE e.size = p
    <3>1. e.size > f.size => l.pager.origDbSize < l.pager.dbSize
      BY <2>2, PageOne DEF MemoryType, PagerType
    <3>2. n.pg[p].dirty = (l.pg[p].dirty /\ (l.stmt.inUse \/ (l.pager.dbSize = p /\
                                             l.pager.origDbSize < l.pager.dbSize)))
      BY DEF NotWritten
    <3>3. e.size > f.size => n.pg[p].dirty
      BY <2>1, <2>2, <2>4, <3>1, <3>2 DEF SizeShows
    <3>4. QED
      BY <1>1, <2>1, <2>2, <2>4, <3>3 DEF SizeShows
  <2>5. QED
    BY <2>3, <2>4
<1>3. ASSUME NEW q \in Needed(e) \ X PROVE ShowsPage(n, e, f, q)
  <2>1. ShowsPage(l, e, f, q) /\ q \in Page /\ q # p
    BY NeededPages DEF ShowsBut
  <2>2. QED
    BY <1>1, <2>1 DEF ShowsPage, Cur
<1>4. QED
  BY <1>2, <1>3 DEF ShowsBut

\* sqlite3pager_dont_rollback on a page whose content nobody rolls back to.
LEMMA DontRollbackCore ==
  ASSUME NEW l, MemoryType(l), NEW p \in Page, l.pg[p].in, NEW n, NotRolledBack(l, p, n, l.pg[p]),
         Get(l, p) = l.pg[p], NEW b \in DatabaseType, p \notin Needed(b), NEW D, NEW safe, CoreOK(l, b, D, safe)
  PROVE  CoreOK(n, b, D, safe)
<1> DEFINE j == ~l.pg[p].inJournal /\ p <= l.pager.origDbSize
<1>1. /\ l.pager.state = "EXCLUSIVE" /\ n.items = l.items /\ \A q \in Page : q # p => n.pg[q] = l.pg[q]
      /\ n.pg[p].in /\ n.pg[p].data = l.pg[p].data /\ n.pg[p].dirty = l.pg[p].dirty
      /\ n.pg[p].needSync = l.pg[p].needSync
      /\ n.pager = [l.pager EXCEPT !.aInJournal = n.pager.aInJournal]
  BY DEF NotRolledBack
<1>2. n.pager.aInJournal = IF j THEN l.pager.aInJournal \cup {p} ELSE l.pager.aInJournal
  BY DEF NotRolledBack, ToJournal
<1>3. n.pg[p].inJournal <=> l.pg[p].inJournal \/ j
  BY DEF NotRolledBack, ToJournal
<1> HIDE DEF j
<1>4. /\ n.pager.state = l.pager.state /\ n.pager.origDbSize = l.pager.origDbSize
      /\ n.pager.journalStarted = l.pager.journalStarted /\ n.pager.dbSize = l.pager.dbSize
      /\ n.pager.needSync = l.pager.needSync /\ n.pager.dirtyCache = l.pager.dirtyCache
      /\ n.pager.journalHdr = l.pager.journalHdr
  BY <1>1 DEF MemoryType, PagerType
<1>5. /\ SizesOK(l, b, D.file) /\ PagerOK(l) /\ ItemsOK(l, b) /\ l.pager.origDbSize = b.size
  BY DEF CoreOK, SizesOK
<1>6. l.pager.journalStarted /\ l.pager.dirtyCache
  BY <1>1, <1>5 DEF PagerOK
<1>7. SizesOK(n, b, D.file)
  <2>1. n.pg[1].in
    BY <1>1, <1>5, PageOne DEF SizesOK
  <2>2. QED
    BY <1>4, <1>5, <2>1 DEF SizesOK
<1>8. PagerOK(n)
  BY <1>1, <1>4, <1>6 DEF PagerOK
<1>9. ItemsOK(n, b)
  BY <1>1, <1>2, <1>5 DEF ItemsOK
<1>10. ASSUME NEW q \in Page PROVE CachePage(n, b, q)
  <2>1. CachePage(l, b, q)
    BY DEF CoreOK
  <2>2. CASE q # p
    <3>1. n.pg[q] = l.pg[q] /\ (q \in n.pager.aInJournal <=> q \in l.pager.aInJournal)
      BY <1>1, <1>2, <2>2
    <3>2. QED
      BY <1>4, <2>1, <3>1 DEF CachePage
  <2>3. CASE q = p
    <3>1. p <= b.size => (n.pg[p].inJournal <=> p \in n.pager.aInJournal)
      BY <1>2, <1>3, <1>5, <2>1, <2>3 DEF CachePage, j
    <3>2. QED
      BY <1>1, <1>3, <1>4, <1>6, <2>1, <2>3, <3>1 DEF CachePage
  <2>4. QED
    BY <2>2, <2>3
<1>11. ASSUME NEW q \in Needed(b) PROVE OriginalPage(n, b, D, safe, q)
  <2>1. OriginalPage(l, b, D, safe, q) /\ q \in Page /\ q # p
    BY NeededPages DEF CoreOK
  <2>2. n.pg[q] = l.pg[q] /\ (q \in n.pager.aInJournal <=> q \in l.pager.aInJournal)
    BY <1>1, <1>2, <2>1
  <2>3. QED
    BY <1>1, <1>4, <2>1, <2>2 DEF OriginalPage, Cur
<1>12. QED
  BY <1>7, <1>8, <1>9, <1>10, <1>11 DEF CoreOK

LEMMA DontRollbackStmt ==
  ASSUME NEW l, MemoryType(l), NEW p \in Page, l.pg[p].in, NEW n, NotRolledBack(l, p, n, l.pg[p]),
         Get(l, p) = l.pg[p], NEW b \in DatabaseType, NEW s \in DatabaseType, l.stmt.inUse => p \notin Needed(s),
         l.pager.origDbSize = b.size, NEW f, StmtOK(l, s, b, f)
  PROVE  StmtOK(n, s, b, f)
<1> DEFINE j == ~l.pg[p].inJournal /\ p <= l.pager.origDbSize
           t == l.stmt.inUse /\ (j \/ p <= l.stmt.size)
<1>1. /\ n.items = l.items /\ \A q \in Page : q # p => n.pg[q] = l.pg[q]
      /\ n.pg[p].in /\ n.pg[p].data = l.pg[p].data /\ n.pg[p].dirty = l.pg[p].dirty
      /\ n.pg[p].needSync = l.pg[p].needSync
      /\ n.pager = [l.pager EXCEPT !.aInJournal = n.pager.aInJournal]
      /\ n.stmt = [l.stmt EXCEPT !.aInStmt = n.stmt.aInStmt]
  BY DEF NotRolledBack
<1>2. /\ n.pager.aInJournal = IF j THEN l.pager.aInJournal \cup {p} ELSE l.pager.aInJournal
      /\ n.stmt.aInStmt = IF t THEN l.stmt.aInStmt \cup {p} ELSE l.stmt.aInStmt
  BY DEF NotRolledBack, ToJournal
<1>3. n.pg[p].inStmt <=> l.pg[p].inStmt \/ t
  BY DEF NotRolledBack, ToJournal
<1>4. /\ n.pager.state = l.pager.state /\ n.pager.origDbSize = l.pager.origDbSize
      /\ n.pager.dbSize = l.pager.dbSize /\ n.pager.dirtyCache = l.pager.dirtyCache
      /\ n.stmt.inUse = l.stmt.inUse /\ n.stmt.size = l.stmt.size /\ n.stmt.from = l.stmt.from
      /\ n.stmt.recs = l.stmt.recs
  BY <1>1 DEF MemoryType, PagerType, StmtType
<1>5. CASE ~l.stmt.inUse
  <2>1. l.stmt = NoStmt /\ \A q \in Page : ~l.pg[q].inStmt
    BY <1>5 DEF StmtOK
  <2>2. n.stmt.aInStmt = l.stmt.aInStmt
    BY <1>2, <1>5
  <2>3. n.stmt = l.stmt
    BY <1>1, <2>2 DEF MemoryType, StmtType
  <2>4. ASSUME NEW q \in Page PROVE ~n.pg[q].inStmt
    BY <1>1, <1>3, <1>5, <2>1
  <2>5. QED
    BY <1>5, <2>1, <2>3, <2>4 DEF StmtOK
<1>6. CASE l.stmt.inUse
  <2>1. StmtOpen(l, s, b) /\ StmtRecs(l, s) /\ \A q \in Page : StmtPage(l, s, b, f, q)
    BY <1>6 DEF StmtOK
  <2>2. s.size \in Page /\ s.size \in Nat /\ b.size \in Nat /\ p \in Nat /\ b.size <= s.size /\ l.stmt.size = s.size
    BY <2>1, PageOne, Contents DEF StmtOpen, Page
  <2>3. n.pg[s.size].dirty = l.pg[s.size].dirty
    BY <1>1, <2>2
  <2>4. StmtOpen(n, s, b) /\ StmtRecs(n, s)
    BY <1>1, <1>4, <2>1, <2>3, SMTT(20) DEF StmtOpen, StmtRecs
  <2>5. \A q : Hit(n, q) <=> Hit(l, q)
    BY <1>1, <1>4 DEF Hit, InRecs, InTail
  <2>6. t <=> p <= s.size
    BY <1>6, <2>2
  <2> HIDE DEF j, t
  <2>7. ASSUME NEW q \in Page PROVE StmtPage(n, s, b, f, q)
    <3>1. StmtPage(l, s, b, f, q)
      BY <2>1
    <3>2. CASE q # p
      <4>1. /\ n.pg[q] = l.pg[q] /\ (q \in n.pager.aInJournal <=> q \in l.pager.aInJournal)
            /\ (q \in n.stmt.aInStmt <=> q \in l.stmt.aInStmt)
        BY <1>1, <1>2, <3>2
      <4>2. QED
        BY <1>4, <2>5, <3>1, <4>1 DEF StmtPage, Cur
    <3>3. CASE q = p
      <4>1. p <= s.size => n.pg[p].inStmt /\ p \in n.stmt.aInStmt
        BY <1>2, <1>3, <2>6
      <4>2. n.pg[p].inStmt => p <= s.size
        BY <1>3, <2>6, <3>1, <3>3 DEF StmtPage
      <4>3. p \in l.pager.aInJournal => p \in n.pager.aInJournal
        BY <1>2
      <4>4. QED
        BY <1>1, <1>4, <1>6, <2>5, <3>1, <3>3, <4>1, <4>2, <4>3 DEF StmtPage
    <3>4. QED
      BY <3>2, <3>3
  <2>8. QED
    BY <1>4, <1>6, <2>4, <2>7 DEF StmtOK
<1>7. QED
  BY <1>5, <1>6

LEMMA DontRollbackShows ==
  ASSUME NEW l, MemoryType(l), NEW p \in Page, l.pg[p].in, NEW n, NotRolledBack(l, p, n, l.pg[p]),
         NEW e \in DatabaseType, NEW X, NEW f, ShowsBut(l, e, f, X)
  PROVE  ShowsBut(n, e, f, X)
<1>1. /\ \A q \in Page : q # p => n.pg[q] = l.pg[q]
      /\ n.pg[p].in /\ n.pg[p].data = l.pg[p].data /\ n.pg[p].dirty = l.pg[p].dirty
      /\ n.pager = [l.pager EXCEPT !.aInJournal = n.pager.aInJournal]
  BY DEF NotRolledBack
<1>2. n.pager.dbSize = l.pager.dbSize
  BY <1>1 DEF MemoryType, PagerType
<1>3. SizeShows(n, e, f)
  <2>1. SizeShows(l, e, f)
    BY DEF ShowsBut
  <2>2. e.size \in Page
    BY <2>1, Contents DEF SizeShows, Page
  <2>3. QED
    BY <1>1, <1>2, <2>1, <2>2 DEF SizeShows
<1>4. ASSUME NEW q \in Needed(e) \ X PROVE ShowsPage(n, e, f, q)
  <2>1. ShowsPage(l, e, f, q) /\ q \in Page
    BY NeededPages DEF ShowsBut
  <2>2. /\ n.pg[q].in = l.pg[q].in \/ (n.pg[q].in /\ l.pg[q].in)
        /\ n.pg[q].data = l.pg[q].data /\ n.pg[q].dirty = l.pg[q].dirty
    BY <1>1, <2>1
  <2>3. QED
    BY <2>1, <2>2 DEF ShowsPage, Cur
<1>5. QED
  BY <1>3, <1>4 DEF ShowsBut

\* What GoneInv says of a memory.
GoneOK(m) ==
  /\ \A i \in 1..Len(m.items) : m.items[i].type = "record" => Harmless(m.items[i].data, m.items[i].page)
  /\ \A p \in Page : m.pg[p].in /\ p \notin m.pager.aInJournal => Harmless(m.pg[p].data, p)

LEMMA LoadGone ==
  ASSUME NEW m, NEW l, NEW p \in Page, LoadedAs(m, l, p), \A q \in Page : Harmless(file.page[q], q), GoneOK(m)
  PROVE  GoneOK(l)
<1>1. /\ l.items = m.items /\ l.pager = m.pager /\ \A q \in Page : q # p => l.pg[q] = m.pg[q]
      /\ l.pg[p].data = IF m.pg[p].in THEN m.pg[p].data ELSE file.page[p]
  BY DEF LoadedAs, Cur
<1>2. ASSUME NEW q \in Page, l.pg[q].in, q \notin l.pager.aInJournal PROVE Harmless(l.pg[q].data, q)
  BY <1>1, <1>2 DEF GoneOK
<1>3. QED
  BY <1>1, <1>2 DEF GoneOK

LEMMA WriteGone ==
  ASSUME NEW l, MemoryType(l), NEW p \in Page, l.pg[p].in, NEW c, NEW n, Written(l, p, c, n),
         l.pager.journalHdr \in 1..Len(l.items),
         NEW b \in DatabaseType, NEW D, NEW safe, CoreOK(l, b, D, safe),
         gone.to \in DatabaseType, gone.to.size <= b.size, GoneOK(l)
  PROVE  GoneOK(n)
<1> DEFINE j == ~l.pg[p].inJournal /\ p <= l.pager.origDbSize
<1>1. /\ n.pager.aInJournal = IF j THEN l.pager.aInJournal \cup {p} ELSE l.pager.aInJournal
      /\ \A q \in Page : q # p => n.pg[q] = l.pg[q]
  BY DEF Written
<1>2. \A i \in 1..Len(n.items) :
        \/ i \in 1..Len(l.items) /\ n.items[i] = l.items[i]
        \/ n.items # l.items /\ n.items[i] = Record(p, l.pg[p].data)
  BY WriteItems
<1>3. n.items # l.items <=> j
  BY WriteItems
<1>4. l.pager.origDbSize = b.size /\ CachePage(l, b, p)
  BY DEF CoreOK, SizesOK
<1>5. j => p \notin l.pager.aInJournal
  BY NotYet
<1>6. ASSUME NEW i \in 1..Len(n.items), n.items[i].type = "record"
      PROVE  Harmless(n.items[i].data, n.items[i].page)
  <2>1. CASE i \in 1..Len(l.items) /\ n.items[i] = l.items[i]
    BY <1>6, <2>1 DEF GoneOK
  <2>2. CASE j /\ n.items[i] = Record(p, l.pg[p].data)
    <3>1. n.items[i].page = p /\ n.items[i].data = l.pg[p].data
      BY <2>2, WrittenRecord
    <3>2. QED
      BY <1>5, <2>2, <3>1 DEF GoneOK
  <2>3. QED
    BY <1>2, <1>3, <2>1, <2>2
<1>7. ASSUME NEW q \in Page, n.pg[q].in, q \notin n.pager.aInJournal PROVE Harmless(n.pg[q].data, q)
  <2>1. CASE q # p
    BY <1>1, <1>7, <2>1 DEF GoneOK
  <2>2. CASE q = p
    <3>1. ~(p <= b.size)
      BY <1>1, <1>4, <1>7, <2>2 DEF CachePage
    <3>2. p \notin Needed(gone.to)
      <4>1. p \in Nat /\ b.size \in Nat /\ gone.to.size \in Nat
        BY PageOne, Contents
      <4>2. QED
        BY <3>1, <4>1, NeededPages
    <3>3. QED
      BY <2>2, <3>2 DEF Harmless
  <2>3. QED
    BY <2>1, <2>2
<1>8. QED
  BY <1>6, <1>7 DEF GoneOK

LEMMA HintGone ==
  ASSUME NEW l, NEW p \in Page, l.pg[p].in, NEW n, GoneOK(l), MemoryType(l),
         NotWritten(l, p, n, l.pg[p]) \/ NotRolledBack(l, p, n, l.pg[p])
  PROVE  GoneOK(n)
<1>1. /\ n.items = l.items /\ l.pager.aInJournal \subseteq n.pager.aInJournal
      /\ \A q \in Page : q # p => n.pg[q] = l.pg[q]
      /\ n.pg[p].data = l.pg[p].data
  <2>1. CASE NotWritten(l, p, n, l.pg[p])
    BY <2>1 DEF NotWritten
  <2>2. CASE NotRolledBack(l, p, n, l.pg[p])
    BY <2>2 DEF NotRolledBack
  <2>3. QED
    BY <2>1, <2>2
<1>2. ASSUME NEW q \in Page, n.pg[q].in, q \notin n.pager.aInJournal PROVE Harmless(n.pg[q].data, q)
  BY <1>1, <1>2 DEF GoneOK
<1>3. QED
  BY <1>1, <1>2 DEF GoneOK

\* All that a call keeps of a memory that shows e, but for the pages of X.
TxnOK(m, e, X) ==
  /\ MemoryType(m) /\ m.pager.journalHdr \in 1..Len(m.items)
  /\ CoreOK(m, base, Disk, jrnl.safe) /\ ShowsBut(m, e, file, X) /\ StmtOK(m, saved, base, file)
  /\ gone.jrnl.exists /\ ~unsettled => GoneOK(m)

LEMMA TxnStart ==
  ASSUME LayInv, DataInv, at = "txn"
  PROVE  /\ InTxn /\ TxnOK(Memory, expect, {}) /\ FlagsOK(Memory, expect, base, saved) /\ job = 0
         /\ base.size <= file.size /\ Valid(expect) /\ Valid(base) /\ Valid(saved) /\ FileZero
         /\ expect \in DatabaseType /\ base \in DatabaseType /\ saved \in DatabaseType /\ file \in DatabaseType
         /\ gone.jrnl.exists /\ ~unsettled =>
              /\ gone.to \in DatabaseType /\ gone.to.size <= base.size
              /\ \A p \in Page : Harmless(file.page[p], p)
<1>1. InTxn
  BY DEF InTxn
<1>2. TxnInv /\ Valid(expect) /\ Valid(base) /\ Valid(saved) /\ FileZero /\ GoneInv
  BY <1>1, TxnFacts
<1>3. /\ CoreOK(Memory, base, Disk, jrnl.safe) /\ ShowsOK(Memory, expect, file) /\ SizesFrom(Disk, base.size)
      /\ StmtOK(Memory, saved, base, file) /\ FlagsOK(Memory, expect, base, saved) /\ Control
  BY <1>2 DEF TxnInv, Spilling
<1>4. job = 0 /\ base.size <= file.size
  <2>1. file.size >= base.size
    BY <1>3, DiskIs
  <2>2. file.size \in Nat /\ base.size \in Nat
    BY Typed, Contents
  <2>3. QED
    BY <1>3, <2>1, <2>2 DEF Control
<1>5. MemoryType(Memory) /\ Memory.pager.journalHdr \in 1..Len(Memory.items)
  BY <1>1, Typed, OpenJournal, MemoryFields
<1>6. ASSUME gone.jrnl.exists, ~unsettled
      PROVE  /\ gone.to \in DatabaseType /\ gone.to.size <= base.size
             /\ \A p \in Page : Harmless(file.page[p], p)
             /\ GoneOK(Memory)
  <2>1. /\ gone.to \in DatabaseType /\ gone.to.size <= Target.size
        /\ \A p \in Page : Harmless(file.page[p], p)
        /\ \A i \in 1..Len(jrnl.items) :
              jrnl.items[i].type = "record" => Harmless(jrnl.items[i].data, jrnl.items[i].page)
    BY <1>6, GoneFacts
  <2>2. Target = base
    BY DEF Target
  <2>3. \A p \in Page : pg[p].in /\ p \notin pager.aInJournal => Harmless(pg[p].data, p)
    BY <1>1, <1>2, <1>6 DEF GoneInv
  <2>4. QED
    BY <2>1, <2>2, <2>3, MemoryFields DEF GoneOK
<1>7. QED
  BY <1>1, <1>2, <1>3, <1>4, <1>5, <1>6, Typed DEF TxnOK, ShowsOK, ShowsBut

LEMMA LoadTxn ==
  ASSUME LayInv, DataInv, at = "txn", NEW e \in DatabaseType, NEW m, NEW X, TxnOK(m, e, X), NEW p \in Page,
         NEW l, l = LoadPage(m, p)
  PROVE  LoadedAs(m, l, p) /\ TxnOK(l, e, X)
<1>1. /\ file \in DatabaseType /\ base \in DatabaseType /\ saved \in DatabaseType /\ FileZero
      /\ gone.jrnl.exists /\ ~unsettled => \A q \in Page : Harmless(file.page[q], q)
  BY TxnStart
<1>2. /\ MemoryType(m) /\ m.pager.journalHdr \in 1..Len(m.items)
      /\ CoreOK(m, base, Disk, jrnl.safe) /\ ShowsBut(m, e, file, X) /\ StmtOK(m, saved, base, file)
      /\ gone.jrnl.exists /\ ~unsettled => GoneOK(m)
  BY DEF TxnOK
<1>3. ~m.pg[p].in => m.pg[p] = Absent
  BY <1>2 DEF CoreOK, CachePage
<1>4. file.size <= m.pager.dbSize
  BY <1>2, DiskFields DEF CoreOK, SizesOK
<1>5. LoadedAs(m, l, p)
  BY <1>1, <1>2, <1>3, <1>4, LoadIs
<1>6. CoreOK(l, base, Disk, jrnl.safe)
  BY <1>1, <1>2, <1>5, DiskFields, LoadCore
<1>7. ShowsBut(l, e, file, X)
  BY <1>2, <1>5, LoadShows
<1>8. StmtOK(l, saved, base, file)
  BY <1>1, <1>2, <1>5, LoadStmt
<1>9. gone.jrnl.exists /\ ~unsettled => GoneOK(l)
  BY <1>1, <1>2, <1>5, LoadGone
<1>10. MemoryType(l) /\ l.pager.journalHdr \in 1..Len(l.items)
  BY <1>2, <1>5 DEF LoadedAs
<1>11. QED
  BY <1>5, <1>6, <1>7, <1>8, <1>9, <1>10 DEF TxnOK

LEMMA WriteTxn ==
  ASSUME LayInv, DataInv, at = "txn", NEW e \in DatabaseType, NEW m, NEW X, TxnOK(m, e, X), NEW p \in Page,
         NEW c \in Cont, NEW n, n = Write(m, p, c), NEW k \in DatabaseType, k.size = n.pager.dbSize,
         NEW Y, Changed(e, k, p, c, X, Y)
  PROVE  TxnOK(n, k, Y)
<1> DEFINE l == LoadPage(m, p)
<1>1. LoadedAs(m, l, p) /\ TxnOK(l, e, X)
  BY LoadTxn
<1>2. /\ file \in DatabaseType /\ base \in DatabaseType /\ saved \in DatabaseType
      /\ gone.jrnl.exists /\ ~unsettled => gone.to \in DatabaseType /\ gone.to.size <= base.size
  BY TxnStart
<1>3. MemoryType(m)
  BY DEF TxnOK
<1>4. Wrote(l, p, c, n, l.pg[p])
  BY <1>2, <1>3, WroteIn
<1> HIDE DEF l
<1>5. MemoryType(l) /\ Get(l, p) = l.pg[p] /\ l.pg[p].in
  BY <1>1 DEF LoadedAs
<1>6. Written(l, p, c, n)
  BY <1>4, <1>5, WrittenIs
<1>7. /\ l.pager.journalHdr \in 1..Len(l.items)
      /\ CoreOK(l, base, Disk, jrnl.safe) /\ ShowsBut(l, e, file, X) /\ StmtOK(l, saved, base, file)
      /\ gone.jrnl.exists /\ ~unsettled => GoneOK(l)
  BY <1>1 DEF TxnOK
<1>8. CoreOK(n, base, Disk, jrnl.safe)
  BY <1>2, <1>5, <1>6, <1>7, DiskFields, WriteCore
<1>9. StmtOK(n, saved, base, file)
  BY <1>2, <1>5, <1>6, <1>7, WriteStmt
<1>10. ShowsBut(n, k, file, Y)
  <2>1. SizeShows(l, e, file) /\ \A q \in Needed(e) \ X : ShowsPage(l, e, file, q)
    BY <1>7 DEF ShowsBut
  <2>2. file.size \in Nat
    BY <1>2, Contents
  <2>3. QED
    BY <1>5, <1>6, <2>1, <2>2, WriteShows
<1>11. gone.jrnl.exists /\ ~unsettled => GoneOK(n)
  BY <1>2, <1>5, <1>6, <1>7, WriteGone
<1>12. MemoryType(n) /\ n.pager.journalHdr \in 1..Len(n.items)
  <2>1. MemoryType(n) /\ n.pager.journalHdr = l.pager.journalHdr
    BY <1>6 DEF Written
  <2>2. Len(l.items) \in Nat /\ (n.items = l.items \/ Len(n.items) = Len(l.items) + 1)
    BY <1>5, <1>6, LenProperties DEF Written, MoreItems, MemoryType
  <2>3. QED
    BY <1>7, <2>1, <2>2
<1>13. QED
  BY <1>8, <1>9, <1>10, <1>11, <1>12 DEF TxnOK

\* What else a write leaves as it was.
LEMMA WriteRest ==
  ASSUME LayInv, DataInv, at = "txn", NEW e \in DatabaseType, NEW m, NEW X, TxnOK(m, e, X), NEW p \in Page,
         NEW c \in Cont, NEW n, n = Write(m, p, c)
  PROVE  /\ n.pg[p].inJournal /\ n.pager.state = m.pager.state /\ n.pager.journalStarted = m.pager.journalStarted
         /\ n.pager.dirtyCache /\ n.stmt.inUse = m.stmt.inUse
         /\ n.pager.dbSize = IF p > m.pager.dbSize THEN p ELSE m.pager.dbSize
         /\ \A q \in Page : Flag(n, q) <=> Flag(m, q)
<1> DEFINE l == LoadPage(m, p)
<1>1. LoadedAs(m, l, p)
  BY LoadTxn
<1>2. file \in DatabaseType /\ MemoryType(m)
  BY TxnStart DEF TxnOK
<1>3. Wrote(l, p, c, n, l.pg[p])
  BY <1>2, WroteIn
<1>4. \A q \in Page : Flag(l, q) <=> Flag(m, q)
  BY <1>1, LoadCur
<1> HIDE DEF l
<1>5. Written(l, p, c, n)
  BY <1>1, <1>3, WrittenIs DEF LoadedAs
<1>6. \A q \in Page : Flag(n, q) <=> Flag(l, q)
  BY <1>5 DEF Written, Flag
<1>7. l.pager = m.pager /\ l.stmt = m.stmt
  BY <1>1 DEF LoadedAs
<1>8. QED
  BY <1>4, <1>5, <1>6, <1>7 DEF Written

LEMMA DontWriteTxn ==
  ASSUME LayInv, DataInv, at = "txn", NEW e \in DatabaseType, NEW m, NEW X, TxnOK(m, e, X), NEW p \in Page,
         p \notin Needed(e) \ X, NEW n, n = DontWrite(m, p)
  PROVE  /\ TxnOK(n, e, X) /\ n.pager = m.pager /\ n.stmt = m.stmt
         /\ Flag(n, p) /\ \A q \in Page : Flag(m, q) => Flag(n, q)
<1> DEFINE l == LoadPage(m, p)
<1>1. LoadedAs(m, l, p) /\ TxnOK(l, e, X)
  BY LoadTxn
<1>2. /\ file \in DatabaseType /\ base \in DatabaseType /\ saved \in DatabaseType /\ base.size <= file.size
      /\ MemoryType(m)
  BY TxnStart DEF TxnOK
<1>3. NotWritten(l, p, n, l.pg[p])
  BY <1>2, NotWrittenIn
<1>4. \A q \in Page : Flag(l, q) <=> Flag(m, q)
  BY <1>1, LoadCur
<1> HIDE DEF l
<1>5. /\ MemoryType(l) /\ l.pg[p].in /\ l.pager = m.pager /\ l.stmt = m.stmt
  BY <1>1 DEF LoadedAs
<1>6. /\ l.pager.journalHdr \in 1..Len(l.items)
      /\ CoreOK(l, base, Disk, jrnl.safe) /\ ShowsBut(l, e, file, X) /\ StmtOK(l, saved, base, file)
      /\ gone.jrnl.exists /\ ~unsettled => GoneOK(l)
  BY <1>1 DEF TxnOK
<1>7. CoreOK(n, base, Disk, jrnl.safe)
  BY <1>2, <1>3, <1>5, <1>6, DontWriteCore
<1>8. StmtOK(n, saved, base, file)
  BY <1>2, <1>3, <1>5, <1>6, DontWriteStmt
<1>9. ShowsBut(n, e, file, X)
  <2>1. l.pager.origDbSize <= file.size /\ file.size \in Nat
    BY <1>2, <1>6, Contents DEF CoreOK, SizesOK
  <2>2. QED
    BY <1>3, <1>5, <1>6, <2>1, DontWriteShows
<1>10. gone.jrnl.exists /\ ~unsettled => GoneOK(n)
  BY <1>3, <1>5, <1>6, HintGone
<1>11. /\ MemoryType(n) /\ n.items = l.items /\ n.pager = l.pager /\ n.stmt = l.stmt
       /\ n.pg[p].alwaysRollback /\ \A q \in Page : q # p => n.pg[q] = l.pg[q]
  BY <1>3 DEF NotWritten
<1>12. Flag(n, p) /\ \A q \in Page : Flag(l, q) => Flag(n, q)
  BY <1>11 DEF Flag
<1>13. QED
  BY <1>4, <1>5, <1>6, <1>7, <1>8, <1>9, <1>10, <1>11, <1>12 DEF TxnOK

LEMMA DontRollbackTxn ==
  ASSUME LayInv, DataInv, at = "txn", NEW e \in DatabaseType, NEW m, NEW X, TxnOK(m, e, X), NEW p \in Page,
         NEW n, n = DontRollback(m, p),
         ~Flag(m, p) => p \notin Needed(base) /\ (m.stmt.inUse => p \notin Needed(saved))
  PROVE  /\ TxnOK(n, e, X) /\ n.pager.dirtyCache = m.pager.dirtyCache /\ n.stmt.inUse = m.stmt.inUse
         /\ n.pager.state = m.pager.state /\ n.pager.journalStarted = m.pager.journalStarted
         /\ n.pager.dbSize = m.pager.dbSize
         /\ \A q \in Page : Flag(m, q) => Flag(n, q)
<1>1. CASE n = m
  BY <1>1
<1>2. CASE n # m
  <2> DEFINE l == LoadPage(m, p)
  <2>1. LoadedAs(m, l, p) /\ TxnOK(l, e, X)
    BY LoadTxn
  <2>2. /\ file \in DatabaseType /\ base \in DatabaseType /\ saved \in DatabaseType /\ MemoryType(m)
    BY TxnStart DEF TxnOK
  <2>3. NotRolledBack(l, p, n, l.pg[p])
    BY <1>2, <2>2, NotRolledBackIn
  <2>4. \A q \in Page : Flag(l, q) <=> Flag(m, q)
    BY <2>1, LoadCur
  <2> HIDE DEF l
  <2>5. /\ MemoryType(l) /\ l.pg[p].in /\ l.pager = m.pager /\ l.stmt = m.stmt /\ Get(l, p) = l.pg[p]
    BY <2>1 DEF LoadedAs
  <2>6. /\ l.pager.journalHdr \in 1..Len(l.items)
        /\ CoreOK(l, base, Disk, jrnl.safe) /\ ShowsBut(l, e, file, X) /\ StmtOK(l, saved, base, file)
        /\ gone.jrnl.exists /\ ~unsettled => GoneOK(l)
    BY <2>1 DEF TxnOK
  <2>7. ~Flag(l, p)
    BY <2>3 DEF NotRolledBack, Flag
  <2>8. p \notin Needed(base) /\ (l.stmt.inUse => p \notin Needed(saved))
    BY <2>4, <2>5, <2>7
  <2>9. CoreOK(n, base, Disk, jrnl.safe)
    BY <2>2, <2>3, <2>5, <2>6, <2>8, DontRollbackCore
  <2>10. StmtOK(n, saved, base, file)
    <3>1. l.pager.origDbSize = base.size
      BY <2>6 DEF CoreOK, SizesOK
    <3>2. QED
      BY <2>2, <2>3, <2>5, <2>6, <2>8, <3>1, DontRollbackStmt
  <2>11. ShowsBut(n, e, file, X)
    BY <2>3, <2>5, <2>6, DontRollbackShows
  <2>12. gone.jrnl.exists /\ ~unsettled => GoneOK(n)
    BY <2>3, <2>5, <2>6, HintGone
  <2>13. /\ MemoryType(n) /\ n.items = l.items /\ \A q \in Page : q # p => n.pg[q] = l.pg[q]
         /\ n.pager = [l.pager EXCEPT !.aInJournal = n.pager.aInJournal]
         /\ n.stmt = [l.stmt EXCEPT !.aInStmt = n.stmt.aInStmt]
    BY <2>3 DEF NotRolledBack
  <2>14. /\ n.pager.state = l.pager.state /\ n.pager.journalStarted = l.pager.journalStarted
         /\ n.pager.dbSize = l.pager.dbSize /\ n.pager.dirtyCache = l.pager.dirtyCache
         /\ n.pager.journalHdr = l.pager.journalHdr /\ n.pager.alwaysRollback = l.pager.alwaysRollback
         /\ n.stmt.inUse = l.stmt.inUse
    BY <2>5, <2>13, Zenon DEF MemoryType, PagerType, StmtType
  <2>15. ASSUME NEW q \in Page, Flag(l, q) PROVE Flag(n, q)
    <3>1. q # p
      BY <2>7, <2>15
    <3>2. QED
      BY <2>13, <2>14, <2>15, <3>1 DEF Flag
  <2>16. TxnOK(n, e, X)
    BY <2>6, <2>9, <2>10, <2>11, <2>12, <2>13, <2>14 DEF TxnOK
  <2>17. QED
    BY <2>4, <2>5, <2>14, <2>15, <2>16
<1>3. QED
  BY <1>1, <1>2

\* The predicates on a memory read its fields only.
LEMMA SameMemory ==
  ASSUME NEW m, NEW n, n.pager = m.pager, n.stmt = m.stmt, n.pg = m.pg, n.items = m.items,
         NEW b, NEW s, NEW e, NEW f, NEW D, NEW safe
  PROVE  /\ CoreOK(m, b, D, safe) => CoreOK(n, b, D, safe)
         /\ ShowsOK(m, e, f) => ShowsOK(n, e, f)
         /\ StmtOK(m, s, b, f) => StmtOK(n, s, b, f)
         /\ FlagsOK(m, e, b, s) => FlagsOK(n, e, b, s)
         /\ GoneOK(m) => GoneOK(n)
<1>1. \A p : Cur(n, D.file, p) = Cur(m, D.file, p) /\ Cur(n, f, p) = Cur(m, f, p) /\ (Flag(n, p) <=> Flag(m, p))
  BY DEF Cur, Flag
<1>2. CoreOK(m, b, D, safe) => CoreOK(n, b, D, safe)
  <2>1. SizesOK(m, b, D.file) => SizesOK(n, b, D.file)
    BY DEF SizesOK
  <2>2. (PagerOK(m) => PagerOK(n)) /\ (ItemsOK(m, b) => ItemsOK(n, b))
    BY DEF PagerOK, ItemsOK
  <2>3. \A p \in Page : CachePage(m, b, p) => CachePage(n, b, p)
    BY DEF CachePage
  <2>4. \A p : OriginalPage(m, b, D, safe, p) => OriginalPage(n, b, D, safe, p)
    BY <1>1 DEF OriginalPage
  <2>5. QED
    BY <2>1, <2>2, <2>3, <2>4 DEF CoreOK
<1>3. ShowsOK(m, e, f) => ShowsOK(n, e, f)
  <2>1. SizeShows(m, e, f) => SizeShows(n, e, f)
    BY DEF SizeShows
  <2>2. \A p : ShowsPage(m, e, f, p) => ShowsPage(n, e, f, p)
    BY <1>1 DEF ShowsPage
  <2>3. QED
    BY <2>1, <2>2 DEF ShowsOK
<1>4. StmtOK(m, s, b, f) => StmtOK(n, s, b, f)
  <2>1. (StmtOpen(m, s, b) => StmtOpen(n, s, b)) /\ (StmtRecs(m, s) => StmtRecs(n, s))
    BY DEF StmtOpen, StmtRecs
  <2>2. \A p : Hit(n, p) <=> Hit(m, p)
    BY DEF Hit, InRecs, InTail
  <2>3. \A p \in Page : StmtPage(m, s, b, f, p) => StmtPage(n, s, b, f, p)
    BY <1>1, <2>2 DEF StmtPage
  <2>4. QED
    BY <2>1, <2>3 DEF StmtOK
<1>5. FlagsOK(m, e, b, s) => FlagsOK(n, e, b, s)
  BY <1>1 DEF FlagsOK
<1>6. GoneOK(m) => GoneOK(n)
  BY DEF GoneOK
<1>7. QED
  BY <1>2, <1>3, <1>4, <1>5, <1>6

\* A call that leaves the files alone.
LEMMA RecallData ==
  ASSUME LayInv, DataInv, at = "txn", NEW n, Recall(n), Valid(expect'), TxnOK(n, expect', {}),
         FlagsOK(n, expect', base, saved), n.pager.state = pager.state,
         n.pager.dirtyCache \/ (at' = "txn" /\ expect' = base),
         n.pager.journalStarted = pager.journalStarted,
         UNCHANGED <<level, file, wild, gone, base, saved, unsettled>>, job' = 0,
         at' \in {"txn", "sync", "store"}, at' = "store" => ~n.pager.needSync /\ n.pg[1].inJournal
  PROVE  DataInv'
<1>1. /\ pager' = n.pager /\ stmt' = n.stmt /\ pg' = n.pg /\ jrnl' = [jrnl EXCEPT !.items = n.items]
  BY DEF Recall
<1>2. /\ jrnl'.items = n.items /\ jrnl'.safe = jrnl.safe /\ jrnl'.named = jrnl.named /\ jrnl'.exists = jrnl.exists
  BY <1>1, Typed DEF JournalType
<1>3. InTxn /\ InTxn'
  BY DEF InTxn
<1>4. TxnInv /\ Valid(base) /\ Valid(saved) /\ FileZero /\ GoneInv /\ Control
  BY <1>3, TxnFacts
<1>5. Disk' = Disk
  BY QuietDisk
<1>6. /\ CoreOK(n, base, Disk, jrnl.safe) /\ ShowsOK(n, expect', file) /\ StmtOK(n, saved, base, file)
      /\ gone.jrnl.exists /\ ~unsettled => GoneOK(n)
  BY DEF TxnOK, ShowsBut, ShowsOK
<1>7. /\ CoreOK(Memory', base', Disk', jrnl'.safe) /\ ShowsOK(Memory', expect', file')
      /\ StmtOK(Memory', saved', base', file') /\ FlagsOK(Memory', expect', base', saved')
      /\ gone.jrnl.exists /\ ~unsettled => GoneOK(Memory')
  <2>1. Memory'.pager = n.pager /\ Memory'.stmt = n.stmt /\ Memory'.pg = n.pg /\ Memory'.items = n.items
    BY <1>1, <1>2, MemoryFields
  <2>2. base' = base /\ saved' = saved /\ file' = file
    OBVIOUS
  <2>3. CoreOK(Memory', base, Disk, jrnl.safe)
    BY <1>6, <2>1, SameMemory
  <2>4. ShowsOK(Memory', expect', file)
    BY <1>6, <2>1, SameMemory
  <2>5. StmtOK(Memory', saved, base, file)
    BY <1>6, <2>1, SameMemory
  <2>6. FlagsOK(Memory', expect', base, saved)
    BY <1>6, <2>1, SameMemory
  <2>7. gone.jrnl.exists /\ ~unsettled => GoneOK(Memory')
    BY <1>6, <2>1, SameMemory
  <2> HIDE DEF Memory, Disk
  <2>8. QED
    BY <1>2, <1>5, <2>2, <2>3, <2>4, <2>5, <2>6, <2>7
<1>8. TxnInv'
  <2>1. SizesFrom(Disk', base'.size)
    BY <1>4, <1>5 DEF TxnInv
  <2>2. ~jrnl'.named \/ pager'.state = "RESERVED" => Pure(Disk', base')
    BY <1>1, <1>2, <1>4, <1>5 DEF TxnInv
  <2>3. pager'.journalStarted => jrnl'.named /\ jrnl'.safe >= 1
    BY <1>1, <1>2, <1>4 DEF TxnInv
  <2>4. pager'.state # "SYNCED"
    BY <1>1, <1>4 DEF TxnInv, Spilling
  <2>5. Control'
    <3>1. at' = "store" => ~pager'.needSync /\ pager'.journalStarted
      <4>1. SUFFICES ASSUME at' = "store" PROVE pager'.journalStarted
        BY <1>1
      <4>2. CachePage(n, base, 1) /\ PagerOK(n)
        BY <1>6, PageOne DEF CoreOK
      <4>3. QED
        BY <1>1, <4>1, <4>2 DEF CachePage
    <3>2. QED
      BY <1>1, <3>1 DEF Control
  <2>6. QED
    BY <1>7, <2>1, <2>2, <2>3, <2>4, <2>5 DEF TxnInv
<1>9. GoneInv'
  <2>1. jrnl'.named => jrnl'.exists /\ ~gone'.jrnl.exists
    BY <1>2, <1>4 DEF GoneInv
  <2>2. ASSUME gone'.jrnl.exists, ~unsettled'
        PROVE  /\ Valid(gone'.to) /\ Crash(Disk', gone'.jrnl, gone'.to, level')
               /\ \A i \in 1..Len(jrnl'.items) :
                    jrnl'.items[i].type = "record" => Harmless(jrnl'.items[i].data, jrnl'.items[i].page)
               /\ \A p \in Page : pg'[p].in /\ ~(InTxn' /\ p \in pager'.aInJournal) => Harmless(pg'[p].data, p)
    <3>1. gone.jrnl.exists /\ ~unsettled
      BY <2>2
    <3>2. Valid(gone'.to) /\ Crash(Disk', gone'.jrnl, gone'.to, level')
      BY <1>4, <1>5, <3>1 DEF GoneInv
    <3>3. GoneOK(n)
      BY <1>6, <3>1
    <3>4. QED
      BY <1>1, <1>2, <1>3, <3>2, <3>3 DEF GoneOK
  <2>3. \A c, p : Harmless(c, p)' <=> Harmless(c, p)
    BY DEF Harmless
  <2>4. QED
    BY <2>1, <2>2 DEF GoneInv, Harmless
<1>10. FileZero'
  BY <1>4 DEF FileZero
<1>11. QED
  BY <1>3, <1>4, <1>8, <1>9, <1>10 DEF DataInv
==============================================================================
