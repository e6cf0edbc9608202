-------------------------- MODULE SharedCacheProofs --------------------------
(***************************************************************************)
(* What SharedCache.tla promises its readers, for any number of            *)
(* connections, tables and contents: nobody who did not ask for it sees    *)
(* what is not committed, a table that is locked stays as it is, and the   *)
(* counts of the shared cache and its lock on the file are right.          *)
(*                                                                         *)
(* The invariant has two halves.  Consistent(b) is about the shared cache  *)
(* alone: whoever has changed a table still has the only lock on it, and   *)
(* a lock belongs to a transaction of its handle.  Served(b, v) says that  *)
(* a statement with an open cursor has the locks it needs.  A lemma for    *)
(* each function of btree.c says what it does to the first, and a relation *)
(* between two caches what it leaves to the others: Kept, for a function   *)
(* that takes, and Left, for one that gives up what one handle has.        *)
(*                                                                         *)
(* The last part is about a failed statement: the invariant StmtInv ties   *)
(* the statement of the cache (BtShared.inStmt, the pager's stmtInUse) to  *)
(* the one statement that is open for writing.                             *)
(***************************************************************************)
EXTENDS SharedCache, FiniteSetTheorems, TLAPS

InTrans(b) == {c \in Conn : b.inTrans[c] # TRANS_NONE}

LocksExclude(b) ==
  \A c, d \in Conn, t \in Table :
    c # d /\ b.locks[c][t] = WRITE_LOCK => b.locks[d][t] = NO_LOCK
LocksInTrans(b) ==
  \A c \in Conn, t \in Table :
    /\ b.locks[c][t] # NO_LOCK => b.inTrans[c] # TRANS_NONE
    /\ b.locks[c][t] = WRITE_LOCK => b.inTrans[c] = TRANS_WRITE
OneWriter(b) ==
  \A c, d \in Conn : b.inTrans[c] = TRANS_WRITE /\ b.inTrans[d] = TRANS_WRITE => c = d
Counted(b) ==
  /\ b.nTransaction = Cardinality(InTrans(b))
  /\ b.inTransaction = TRANS_NONE <=> InTrans(b) = {}
  /\ b.inTransaction = TRANS_WRITE <=> \E c \in Conn : b.inTrans[c] = TRANS_WRITE
  /\ b.page1 <=> b.inTransaction # TRANS_NONE
\* What differs from the file, or can be rolled back with a statement, is locked.
Changed(b) ==
  \A t \in Table : b.cache[t] # b.disk[t] \/ b.mark[t] # "no" =>
    \E c \in Conn : b.locks[c][t] = WRITE_LOCK
Saved(b) == \A t \in Table : b.mark[t] # "no" => b.saved[t] # {}

Consistent(b) ==
  /\ b \in Bt
  /\ LocksExclude(b) /\ LocksInTrans(b) /\ OneWriter(b)
  /\ Counted(b) /\ Changed(b) /\ Saved(b)

\* A statement with an open cursor is in a transaction and has its lock.
Served(b, v) ==
  /\ \A c \in Conn, r \in Role : v[c][r].at = "open" => b.inTrans[c] # TRANS_NONE
  /\ \A c \in Conn : v[c]["write"].at = "open" =>
       b.locks[c][v[c]["write"].table] = WRITE_LOCK
  /\ \A c \in Conn : v[c]["read"].at = "open" /\ ~v[c]["read"].dirty =>
       b.locks[c][v[c]["read"].table] # NO_LOCK

Owned ==
  /\ \A c \in Conn : c \notin connected =>
       bt.inTrans[c] = TRANS_NONE /\ \A r \in Role : vm[c][r].at = "idle"
  /\ bt.nRef = Cardinality(connected)

TypeRest ==
  /\ connected \subseteq Conn
  /\ autoCommit \in [Conn -> BOOLEAN] /\ readUncommitted \in [Conn -> BOOLEAN]
  /\ vm \in [Conn -> [Role -> Statement]] /\ disturbed \in BOOLEAN

ScInv == TypeRest /\ Consistent(bt) /\ Served(bt, vm) /\ Owned

\* Handle c takes something: the contents stay, and nobody loses a lock.
Kept(b, n, c) ==
  /\ n.cache = b.cache /\ n.nRef = b.nRef
  /\ \A d \in Conn, t \in Table : n.locks[d][t] >= b.locks[d][t]
  /\ \A d \in Conn : n.inTrans[d] >= b.inTrans[d]
  /\ \A d \in Conn \ {c} : n.inTrans[d] = b.inTrans[d]

\* Handle c gives up everything: a table that another one has locked stays as it is.
Left(b, n, c) ==
  /\ n.nRef = b.nRef
  /\ n.inTrans[c] = TRANS_NONE
  /\ \A t \in Table : n.locks[c][t] = NO_LOCK
  /\ \A d \in Conn \ {c} : n.locks[d] = b.locks[d] /\ n.inTrans[d] = b.inTrans[d]
  /\ \A d \in Conn \ {c}, t \in Table : b.locks[d][t] # NO_LOCK => n.cache[t] = b.cache[t]

\* The statement ends: the locks stay, and so does a table whose lock is not its writer's.
Ended(b, n) ==
  /\ n.nRef = b.nRef /\ n.locks = b.locks /\ n.inTrans = b.inTrans
  /\ \A d \in Conn, t \in Table :
       b.locks[d][t] # NO_LOCK /\ b.inTrans[d] # TRANS_WRITE => n.cache[t] = b.cache[t]

Still(b, n) ==
  \A c \in Conn, t \in Table :
    b.locks[c][t] # NO_LOCK /\ n.locks[c][t] # NO_LOCK /\ n.inTrans[c] # TRANS_WRITE
      => n.cache[t] = b.cache[t]

USE DEF TRANS_NONE, TRANS_READ, TRANS_WRITE, NO_LOCK, READ_LOCK, WRITE_LOCK

----------------------------------------------------------------------------
\* The fields of a cache.

LEMMA Fields ==
  ASSUME NEW b, b \in Bt
  PROVE  /\ b.locks \in [Conn -> [Table -> 0..2]] /\ b.inTrans \in [Conn -> 0..2]
         /\ b.inTransaction \in 0..2 /\ b.nTransaction \in Nat /\ b.nRef \in Nat
         /\ b.inStmt \in BOOLEAN /\ b.page1 \in BOOLEAN /\ b.stmtInUse \in BOOLEAN
         /\ b.cache \in [Table -> Value] /\ b.disk \in [Table -> Value]
         /\ b.mark \in [Table -> {"no", "journal", "stmt", "stale"}]
         /\ b.journaled \in [Table -> BOOLEAN] /\ b.saved \in [Table -> SUBSET Value]
  BY DEF Bt

\* Who is in a transaction.
LEMMA InTransFinite ==
  ASSUME NEW b
  PROVE  IsFiniteSet(InTrans(b)) /\ Cardinality(InTrans(b)) \in Nat
         /\ (Cardinality(InTrans(b)) = 0 <=> InTrans(b) = {})
<1>1. IsFiniteSet(InTrans(b))
  BY SharedCacheSets, FS_Subset, InTrans(b) \subseteq Conn DEF InTrans
<1>2. QED
  BY <1>1, FS_CardinalityType, FS_EmptySet

LEMMA OneLess ==
  ASSUME NEW b, NEW n, NEW c \in Conn, n.inTrans[c] = TRANS_NONE,
         \A d \in Conn \ {c} : n.inTrans[d] = b.inTrans[d]
  PROVE  /\ InTrans(n) = InTrans(b) \ {c}
         /\ Cardinality(InTrans(n)) = IF b.inTrans[c] # TRANS_NONE THEN Cardinality(InTrans(b)) - 1
                                      ELSE Cardinality(InTrans(b))
<1>1. InTrans(n) = InTrans(b) \ {c}
  BY DEF InTrans
<1>2. c \in InTrans(b) <=> b.inTrans[c] # TRANS_NONE
  BY DEF InTrans
<1>3. QED
  BY <1>1, <1>2, InTransFinite, FS_RemoveElement

LEMMA OneMore ==
  ASSUME NEW b, NEW n, NEW c \in Conn, n.inTrans[c] # TRANS_NONE,
         \A d \in Conn \ {c} : n.inTrans[d] = b.inTrans[d]
  PROVE  /\ InTrans(n) = InTrans(b) \cup {c}
         /\ Cardinality(InTrans(n)) = IF b.inTrans[c] = TRANS_NONE THEN Cardinality(InTrans(b)) + 1
                                      ELSE Cardinality(InTrans(b))
<1>1. InTrans(n) = InTrans(b) \cup {c}
  BY DEF InTrans
<1>2. c \in InTrans(b) <=> b.inTrans[c] # TRANS_NONE
  BY DEF InTrans
<1>3. QED
  BY <1>1, <1>2, InTransFinite, FS_AddElement

----------------------------------------------------------------------------
\* sqlite3BtreeBeginTrans.

LEMMA BeginTransConsistent ==
  ASSUME NEW b, Consistent(b), NEW c \in Conn, NEW wrflag \in BOOLEAN,
         ~AnotherWrites(b, c, wrflag), NEW n, n = BeginTrans(b, c, wrflag)
  PROVE  /\ Consistent(n) /\ Kept(b, n, c) /\ n.inTrans[c] # TRANS_NONE
         /\ wrflag => n.inTrans[c] = TRANS_WRITE
<1>b. b \in Bt
  BY DEF Consistent
<1>t. b.locks \in [Conn -> [Table -> 0..2]] /\ b.inTrans \in [Conn -> 0..2]
      /\ b.inTransaction \in 0..2 /\ b.nTransaction \in Nat
  BY <1>b, Fields
<1>1. CASE NoOp(b, c, wrflag)
  BY <1>1, <1>t DEF BeginTrans, NoOp, Kept
<1>2. CASE ~NoOp(b, c, wrflag)
  <2>1. PICK x \in 1..2 : x = IF wrflag THEN TRANS_WRITE ELSE TRANS_READ
    OBVIOUS
  <2>2. /\ n \in Bt
        /\ n.locks = b.locks /\ n.cache = b.cache /\ n.disk = b.disk /\ n.nRef = b.nRef
        /\ n.mark = b.mark /\ n.saved = b.saved /\ n.page1 = TRUE
        /\ n.inTrans = [b.inTrans EXCEPT ![c] = x]
        /\ n.nTransaction = IF b.inTrans[c] = TRANS_NONE THEN b.nTransaction + 1
                            ELSE b.nTransaction
        /\ n.inTransaction = IF x > b.inTransaction THEN x ELSE b.inTransaction
    <3> DEFINE i == [b.inTrans EXCEPT ![c] = x]
               k == IF b.inTrans[c] = TRANS_NONE THEN b.nTransaction + 1 ELSE b.nTransaction
               j == IF x > b.inTransaction THEN x ELSE b.inTransaction
               s == b.inStmt /\ ~wrflag
    <3>1. i \in [Conn -> 0..2] /\ k \in Nat /\ j \in 0..2 /\ s \in BOOLEAN
      BY <1>t
    <3>2. n = [b EXCEPT !.page1 = TRUE, !.inStmt = s, !.inTrans = i, !.nTransaction = k,
                        !.inTransaction = j]
      BY <1>b, <1>2, <2>1 DEF Bt, BeginTrans
    <3> HIDE DEF i, k, j, s
    <3>3. n \in Bt
      BY <1>b, <3>1, <3>2 DEF Bt
    <3>4. QED
      BY <1>b, <3>2, <3>3 DEF Bt, i, k, j, s
  <2>3. b.inTrans[c] < x /\ (x = TRANS_WRITE => b.inTransaction # TRANS_WRITE)
    BY <1>2, <1>t, <2>1 DEF NoOp, AnotherWrites
  <2>4. LocksExclude(n) /\ LocksInTrans(n) /\ Changed(n) /\ Saved(n)
    BY <1>t, <2>2, <2>3
    DEF Consistent, LocksExclude, LocksInTrans, Changed, Saved
  <2>5. OneWriter(n)
    BY <1>t, <2>2, <2>3 DEF Consistent, OneWriter, Counted
  <2>6. Counted(n)
    <3>0. /\ InTrans(n) = InTrans(b) \cup {c}
          /\ Cardinality(InTrans(n)) = IF b.inTrans[c] = TRANS_NONE THEN Cardinality(InTrans(b)) + 1
                                       ELSE Cardinality(InTrans(b))
      <4>1. n.inTrans[c] # TRANS_NONE /\ \A d \in Conn \ {c} : n.inTrans[d] = b.inTrans[d]
        BY <1>t, <2>2
      <4>2. QED
        BY <4>1, OneMore
    <3>1. InTrans(n) = InTrans(b) \cup {c} /\ n.nTransaction = Cardinality(InTrans(n))
      BY <2>2, <3>0 DEF Consistent, Counted
    <3>2. n.inTransaction # TRANS_NONE /\ InTrans(n) # {}
      BY <1>t, <2>2, <3>1
    <3>3. n.inTransaction = TRANS_WRITE <=> \E d \in Conn : n.inTrans[d] = TRANS_WRITE
      BY <1>t, <2>2, <2>3 DEF Consistent, Counted
    <3>4. QED
      BY <2>2, <3>1, <3>2, <3>3 DEF Counted
  <2>7. Kept(b, n, c)
    BY <1>t, <2>2, <2>3 DEF Kept
  <2>8. QED
    BY <1>t, <2>1, <2>2, <2>4, <2>5, <2>6, <2>7 DEF Consistent
<1>3. QED
  BY <1>1, <1>2

----------------------------------------------------------------------------
\* lockTable, where queryTableLock grants the lock.

LEMMA LockConsistent ==
  ASSUME NEW b, Consistent(b), NEW c \in Conn, NEW t \in Table, NEW e \in 1..2,
         b.inTrans[c] # TRANS_NONE, e = WRITE_LOCK => b.inTrans[c] = TRANS_WRITE,
         queryTableLock(b, c, t, e), NEW n, n = lockTable(b, c, t, e)
  PROVE  /\ Consistent(n) /\ Kept(b, n, c) /\ n.inTrans = b.inTrans
         /\ NoReadLock(c, t, e) \/ n.locks[c][t] >= e
<1>b. b \in Bt
  BY DEF Consistent
<1>t. b.locks \in [Conn -> [Table -> 0..2]] /\ b.inTrans \in [Conn -> 0..2]
  BY <1>b, Fields
<1>1. CASE NoReadLock(c, t, e) \/ e <= b.locks[c][t]
  BY <1>1, <1>t DEF lockTable, Kept
<1>2. CASE ~(NoReadLock(c, t, e) \/ e <= b.locks[c][t])
  <2>1. n = [b EXCEPT !.locks[c][t] = e]
    BY <1>2 DEF lockTable
  <2>2. /\ n \in Bt /\ n.locks = [b.locks EXCEPT ![c][t] = e]
        /\ n.inTrans = b.inTrans /\ n.cache = b.cache /\ n.disk = b.disk /\ n.nRef = b.nRef
        /\ n.mark = b.mark /\ n.saved = b.saved /\ n.page1 = b.page1
        /\ n.nTransaction = b.nTransaction /\ n.inTransaction = b.inTransaction
    <3> DEFINE x == [b.locks EXCEPT ![c][t] = e]
    <3>1. x \in [Conn -> [Table -> 0..2]]
      BY <1>t
    <3>2. n = [b EXCEPT !.locks = x]
      BY <1>b, <2>1 DEF Bt
    <3> HIDE DEF x
    <3>3. n \in Bt /\ n.locks = x
      BY <1>b, <3>1, <3>2 DEF Bt
    <3>4. QED
      BY <1>b, <3>2, <3>3 DEF Bt, x
  <2>3. \A d \in Conn \ {c} : b.locks[d][t] = NO_LOCK \/ (b.locks[d][t] = READ_LOCK /\ e = READ_LOCK)
    BY <1>2 DEF queryTableLock
  <2>4. \A d \in Conn, s \in Table :
          n.locks[d][s] = IF d = c /\ s = t THEN e ELSE b.locks[d][s]
    BY <1>t, <2>2
  <2>5. LocksExclude(n) /\ LocksInTrans(n)
    BY <1>t, <2>2, <2>3, <2>4 DEF Consistent, LocksExclude, LocksInTrans
  <2>6. OneWriter(n) /\ Counted(n) /\ Saved(n)
    BY <2>2 DEF Consistent, OneWriter, Counted, InTrans, Saved
  <2>7. Changed(n)
    BY <1>t, <1>2, <2>2, <2>4 DEF Consistent, Changed
  <2>8. Kept(b, n, c)
    <3>1. \A d \in Conn, s \in Table : n.locks[d][s] >= b.locks[d][s]
      <4> SUFFICES ASSUME NEW d \in Conn, NEW s \in Table PROVE n.locks[d][s] >= b.locks[d][s]
        OBVIOUS
      <4>1. b.locks[d][s] \in 0..2
        BY <1>t
      <4>2. QED
        BY <1>2, <2>4, <4>1
    <3>2. \A d \in Conn : n.inTrans[d] >= b.inTrans[d]
      BY <1>t, <2>2
    <3>3. QED
      BY <2>2, <3>1, <3>2 DEF Kept
  <2>9. QED
    BY <1>t, <2>2, <2>4, <2>5, <2>6, <2>7, <2>8 DEF Consistent
<1>3. QED
  BY <1>1, <1>2

----------------------------------------------------------------------------
\* The end of a transaction.

\* What sqlite3BtreeCommit and sqlite3BtreeRollback have in common: the handle leaves, its
\* locks go, and if it has written then the cache is the file's and no table is marked.
Leaves(b, n, c) ==
  /\ n \in Bt /\ n.nRef = b.nRef
  /\ n.locks = [b.locks EXCEPT ![c] = [t \in Table |-> NO_LOCK]]
  /\ n.inTrans = [b.inTrans EXCEPT ![c] = TRANS_NONE]
  /\ n.nTransaction = IF b.inTrans[c] # TRANS_NONE THEN b.nTransaction - 1 ELSE b.nTransaction
  /\ n.inTransaction = IF b.inTrans[c] # TRANS_NONE /\ b.nTransaction = 1 THEN TRANS_NONE
                       ELSE IF b.inTrans[c] = TRANS_WRITE THEN TRANS_READ ELSE b.inTransaction
  /\ IF b.inTrans[c] = TRANS_WRITE
     THEN n.cache = n.disk /\ n.mark = NoMarks /\ (n.cache = b.cache \/ n.cache = b.disk)
     ELSE n.cache = b.cache /\ n.disk = b.disk /\ n.mark = b.mark /\ n.saved = b.saved

LEMMA LeaveFields ==
  ASSUME NEW b, b \in Bt, NEW c \in Conn, b.inTrans[c] # TRANS_NONE => b.nTransaction > 0,
         NEW n, n = LeaveTrans(unlockAllTables(b, c), c)
  PROVE  /\ n \in Bt /\ n.nRef = b.nRef /\ n.page1 = b.page1
         /\ n.cache = b.cache /\ n.disk = b.disk /\ n.mark = b.mark /\ n.saved = b.saved
         /\ n.locks = [b.locks EXCEPT ![c] = [t \in Table |-> NO_LOCK]]
         /\ n.inTrans = [b.inTrans EXCEPT ![c] = TRANS_NONE]
         /\ n.nTransaction = IF b.inTrans[c] # TRANS_NONE THEN b.nTransaction - 1
                             ELSE b.nTransaction
         /\ n.inTransaction = IF b.inTrans[c] # TRANS_NONE /\ b.nTransaction = 1 THEN TRANS_NONE
                              ELSE IF b.inTrans[c] = TRANS_WRITE THEN TRANS_READ
                              ELSE b.inTransaction
<1>t. b.locks \in [Conn -> [Table -> 0..2]] /\ b.inTrans \in [Conn -> 0..2]
      /\ b.inTransaction \in 0..2 /\ b.nTransaction \in Nat
  BY Fields
<1> DEFINE l == [b.locks EXCEPT ![c] = [t \in Table |-> NO_LOCK]]
           i == [b.inTrans EXCEPT ![c] = TRANS_NONE]
           k == IF b.inTrans[c] # TRANS_NONE THEN b.nTransaction - 1 ELSE b.nTransaction
           j == IF b.inTrans[c] # TRANS_NONE /\ b.nTransaction = 1 THEN TRANS_NONE
                ELSE IF b.inTrans[c] = TRANS_WRITE THEN TRANS_READ ELSE b.inTransaction
<1>1. l \in [Conn -> [Table -> 0..2]] /\ i \in [Conn -> 0..2] /\ k \in Nat /\ j \in 0..2
  BY <1>t
<1>2. n = [b EXCEPT !.locks = l, !.inTrans = i, !.nTransaction = k, !.inTransaction = j]
  BY DEF Bt, LeaveTrans, unlockAllTables
<1> HIDE DEF l, i, k, j
<1>3. n \in Bt
  BY <1>1, <1>2 DEF Bt
<1>4. QED
  BY <1>2, <1>3 DEF Bt, l, i, k, j

LEMMA UnlockFields ==
  ASSUME NEW b, b \in Bt, NEW v, NEW n, n = unlockBtreeIfUnused(b, v)
  PROVE  /\ n \in Bt /\ n.nRef = b.nRef /\ n.locks = b.locks /\ n.inTrans = b.inTrans
         /\ n.cache = b.cache /\ n.disk = b.disk /\ n.mark = b.mark /\ n.saved = b.saved
         /\ n.nTransaction = b.nTransaction /\ n.inTransaction = b.inTransaction
         /\ n.page1 <=> (b.page1 /\ ~(b.inTransaction = TRANS_NONE /\ Cursors(v) = {}))
  BY DEF Bt, unlockBtreeIfUnused

LEMMA CommitLeaves ==
  ASSUME NEW b, b \in Bt, NEW c \in Conn, NEW v,
         b.inTrans[c] # TRANS_NONE => b.nTransaction > 0, NEW n, n = BtreeCommit(b, c, v)
  PROVE  /\ Leaves(b, n, c)
         /\ n.page1 <=> (b.page1 /\ ~(n.inTransaction = TRANS_NONE /\ Cursors(v) = {}))
<1> DEFINE p == IF b.inTrans[c] = TRANS_WRITE
                THEN [pager_stmt_commit(b) EXCEPT !.disk = b.cache, !.inStmt = FALSE,
                                                  !.journaled = NotJournaled] ELSE b
           l == LeaveTrans(unlockAllTables(p, c), c)
<1>1. /\ p \in Bt /\ p.nRef = b.nRef /\ p.locks = b.locks /\ p.inTrans = b.inTrans
      /\ p.page1 = b.page1 /\ p.nTransaction = b.nTransaction
      /\ p.inTransaction = b.inTransaction
  BY DEF Bt, pager_stmt_commit, NoMarks, NoneSaved, NotJournaled
<1>2. IF b.inTrans[c] = TRANS_WRITE
      THEN p.cache = p.disk /\ p.mark = NoMarks /\ (p.cache = b.cache \/ p.cache = b.disk)
      ELSE p.cache = b.cache /\ p.disk = b.disk /\ p.mark = b.mark /\ p.saved = b.saved
  BY DEF Bt, pager_stmt_commit
<1>3. n = unlockBtreeIfUnused(l, v)
  BY DEF BtreeCommit
<1> HIDE DEF p
<1>4. /\ l \in Bt /\ l.nRef = p.nRef /\ l.page1 = p.page1
      /\ l.cache = p.cache /\ l.disk = p.disk /\ l.mark = p.mark /\ l.saved = p.saved
      /\ l.locks = [p.locks EXCEPT ![c] = [t \in Table |-> NO_LOCK]]
      /\ l.inTrans = [p.inTrans EXCEPT ![c] = TRANS_NONE]
      /\ l.nTransaction = IF p.inTrans[c] # TRANS_NONE THEN p.nTransaction - 1
                          ELSE p.nTransaction
      /\ l.inTransaction = IF p.inTrans[c] # TRANS_NONE /\ p.nTransaction = 1 THEN TRANS_NONE
                           ELSE IF p.inTrans[c] = TRANS_WRITE THEN TRANS_READ
                           ELSE p.inTransaction
  BY <1>1, LeaveFields
<1> HIDE DEF l
<1>5. /\ n \in Bt /\ n.nRef = l.nRef /\ n.locks = l.locks /\ n.inTrans = l.inTrans
      /\ n.cache = l.cache /\ n.disk = l.disk /\ n.mark = l.mark /\ n.saved = l.saved
      /\ n.nTransaction = l.nTransaction /\ n.inTransaction = l.inTransaction
      /\ n.page1 <=> (l.page1 /\ ~(l.inTransaction = TRANS_NONE /\ Cursors(v) = {}))
  BY <1>3, <1>4, UnlockFields
<1>6. QED
  BY <1>1, <1>2, <1>4, <1>5 DEF Leaves

LEMMA RollbackLeaves ==
  ASSUME NEW b, b \in Bt, NEW c \in Conn, NEW v,
         b.inTrans[c] # TRANS_NONE => b.nTransaction > 0, NEW n, n = BtreeRollback(b, c, v)
  PROVE  /\ Leaves(b, n, c)
         /\ n.page1 <=> (b.page1 /\ ~(n.inTransaction = TRANS_NONE /\ Cursors(v) = {}))
<1> DEFINE p == IF b.inTrans[c] = TRANS_WRITE
                THEN [pager_stmt_commit(b) EXCEPT !.cache = b.disk, !.journaled = NotJournaled]
                ELSE b
           k == LeaveTrans(unlockAllTables(p, c), c)
           l == [k EXCEPT !.inStmt = FALSE]
<1>1. /\ p \in Bt /\ p.nRef = b.nRef /\ p.locks = b.locks /\ p.inTrans = b.inTrans
      /\ p.page1 = b.page1 /\ p.nTransaction = b.nTransaction
      /\ p.inTransaction = b.inTransaction
  BY DEF Bt, pager_stmt_commit, NoMarks, NoneSaved, NotJournaled
<1>2. IF b.inTrans[c] = TRANS_WRITE
      THEN p.cache = p.disk /\ p.mark = NoMarks /\ (p.cache = b.cache \/ p.cache = b.disk)
      ELSE p.cache = b.cache /\ p.disk = b.disk /\ p.mark = b.mark /\ p.saved = b.saved
  BY DEF Bt, pager_stmt_commit
<1>3. n = unlockBtreeIfUnused(l, v)
  BY DEF BtreeRollback
<1> HIDE DEF p
<1>4. /\ k \in Bt /\ k.nRef = p.nRef /\ k.page1 = p.page1
      /\ k.cache = p.cache /\ k.disk = p.disk /\ k.mark = p.mark /\ k.saved = p.saved
      /\ k.locks = [p.locks EXCEPT ![c] = [t \in Table |-> NO_LOCK]]
      /\ k.inTrans = [p.inTrans EXCEPT ![c] = TRANS_NONE]
      /\ k.nTransaction = IF p.inTrans[c] # TRANS_NONE THEN p.nTransaction - 1
                          ELSE p.nTransaction
      /\ k.inTransaction = IF p.inTrans[c] # TRANS_NONE /\ p.nTransaction = 1 THEN TRANS_NONE
                           ELSE IF p.inTrans[c] = TRANS_WRITE THEN TRANS_READ
                           ELSE p.inTransaction
  BY <1>1, LeaveFields
<1> HIDE DEF k
<1>5. /\ l \in Bt /\ l.nRef = k.nRef /\ l.page1 = k.page1
      /\ l.cache = k.cache /\ l.disk = k.disk /\ l.mark = k.mark /\ l.saved = k.saved
      /\ l.locks = k.locks /\ l.inTrans = k.inTrans
      /\ l.nTransaction = k.nTransaction /\ l.inTransaction = k.inTransaction
  BY <1>4 DEF Bt
<1> HIDE DEF l
<1>6. /\ n \in Bt /\ n.nRef = l.nRef /\ n.locks = l.locks /\ n.inTrans = l.inTrans
      /\ n.cache = l.cache /\ n.disk = l.disk /\ n.mark = l.mark /\ n.saved = l.saved
      /\ n.nTransaction = l.nTransaction /\ n.inTransaction = l.inTransaction
      /\ n.page1 <=> (l.page1 /\ ~(l.inTransaction = TRANS_NONE /\ Cursors(v) = {}))
  BY <1>3, <1>5, UnlockFields
<1>7. QED
  BY <1>1, <1>2, <1>4, <1>5, <1>6 DEF Leaves

LEMMA CountPositive ==
  ASSUME NEW b, Consistent(b), NEW c \in Conn, b.inTrans[c] # TRANS_NONE
  PROVE  b.nTransaction > 0
<1>1. InTrans(b) # {}
  BY DEF InTrans
<1>2. QED
  BY <1>1, InTransFinite DEF Consistent, Counted

\* The handle is gone, and the cache is right for those that stay.
LEMMA LeavesConsistent ==
  ASSUME NEW b, Consistent(b), NEW c \in Conn, NEW n, Leaves(b, n, c), NEW closed \in BOOLEAN,
         n.page1 <=> (b.page1 /\ ~(n.inTransaction = TRANS_NONE /\ closed)),
         InTrans(b) \ {c} = {} => closed
  PROVE  Consistent(n) /\ Left(b, n, c)
<1>b. b \in Bt
  BY DEF Consistent
<1>t. /\ b.locks \in [Conn -> [Table -> 0..2]] /\ b.inTrans \in [Conn -> 0..2]
      /\ b.inTransaction \in 0..2 /\ b.nTransaction \in Nat
      /\ b.cache \in [Table -> Value] /\ b.disk \in [Table -> Value]
  BY <1>b, Fields
<1>1. /\ n.inTrans[c] = TRANS_NONE
      /\ \A d \in Conn \ {c} : n.inTrans[d] = b.inTrans[d] /\ n.locks[d] = b.locks[d]
      /\ \A t \in Table : n.locks[c][t] = NO_LOCK
  BY <1>t DEF Leaves
<1>2. LocksExclude(n) /\ LocksInTrans(n) /\ OneWriter(n)
  BY <1>1 DEF Consistent, LocksExclude, LocksInTrans, OneWriter
<1>3. \A t \in Table : n.cache[t] # n.disk[t] \/ n.mark[t] # "no" =>
        b.inTrans[c] # TRANS_WRITE /\ n.cache[t] = b.cache[t] /\ n.disk[t] = b.disk[t]
        /\ n.mark[t] = b.mark[t] /\ n.saved[t] = b.saved[t]
  BY DEF Leaves, NoMarks
<1>4. Saved(n)
  BY <1>3 DEF Consistent, Saved
<1>5. Changed(n)
  <2> SUFFICES ASSUME NEW t \in Table, n.cache[t] # n.disk[t] \/ n.mark[t] # "no"
               PROVE  \E d \in Conn : n.locks[d][t] = WRITE_LOCK
    BY DEF Changed
  <2>1. PICK d \in Conn : b.locks[d][t] = WRITE_LOCK
    BY <1>3 DEF Consistent, Changed
  <2>2. d # c
    BY <1>3, <2>1 DEF Consistent, LocksInTrans
  <2>3. QED
    BY <1>1, <2>1, <2>2
<1>6. Counted(n)
  <2>1. /\ InTrans(n) = InTrans(b) \ {c}
        /\ Cardinality(InTrans(n)) = IF b.inTrans[c] # TRANS_NONE
                                     THEN Cardinality(InTrans(b)) - 1 ELSE Cardinality(InTrans(b))
    BY <1>1, OneLess
  <2>2. n.nTransaction = Cardinality(InTrans(n))
    BY <2>1 DEF Leaves, Consistent, Counted
  <2>3. n.nTransaction = 0 <=> InTrans(n) = {}
    BY <2>2, InTransFinite
  <2>4. n.inTransaction = TRANS_NONE <=> InTrans(n) = {}
    <3>1. CASE b.inTrans[c] = TRANS_NONE
      <4>1. c \notin InTrans(b)
        BY <3>1 DEF InTrans
      <4>2. QED
        BY <2>1, <3>1, <4>1 DEF Leaves, Consistent, Counted
    <3>2. CASE b.inTrans[c] # TRANS_NONE
      <4>1. c \in InTrans(b) /\ b.inTransaction # TRANS_NONE
        BY <3>2 DEF InTrans, Consistent, Counted
      <4>2. b.nTransaction = 1 <=> InTrans(n) = {}
        BY <1>t, <2>3, <3>2 DEF Leaves
      <4>3. QED
        BY <3>2, <4>1, <4>2 DEF Leaves
    <3>3. QED
      BY <3>1, <3>2
  <2>5. n.inTransaction = TRANS_WRITE <=> \E d \in Conn : n.inTrans[d] = TRANS_WRITE
    <3>1. CASE b.inTrans[c] = TRANS_WRITE
      <4>1. \A d \in Conn : n.inTrans[d] # TRANS_WRITE
        BY <1>1, <3>1 DEF Consistent, OneWriter
      <4>2. QED
        BY <3>1, <4>1 DEF Leaves
    <3>2. CASE b.inTrans[c] # TRANS_WRITE
      <4>1. \A d \in Conn : n.inTrans[d] = TRANS_WRITE <=> b.inTrans[d] = TRANS_WRITE
        BY <1>1, <3>2
      <4>2. CASE n.inTransaction = TRANS_NONE
        BY <2>4, <4>2 DEF InTrans
      <4>3. CASE n.inTransaction # TRANS_NONE
        BY <3>2, <4>1, <4>3 DEF Leaves, Consistent, Counted
      <4>4. QED
        BY <4>2, <4>3
    <3>3. QED
      BY <3>1, <3>2
  <2>6. n.page1 <=> n.inTransaction # TRANS_NONE
    <3>1. n.inTransaction = TRANS_NONE => closed
      BY <2>1, <2>4
    <3>2. n.inTransaction # TRANS_NONE => b.inTransaction # TRANS_NONE
      BY <1>t, <2>1, <2>4 DEF Consistent, Counted
    <3>3. QED
      BY <3>1, <3>2 DEF Consistent, Counted
  <2>7. QED
    BY <2>2, <2>4, <2>5, <2>6 DEF Counted
<1>7. \A d \in Conn \ {c}, t \in Table : b.locks[d][t] # NO_LOCK => n.cache[t] = b.cache[t]
  <2> SUFFICES ASSUME NEW d \in Conn \ {c}, NEW t \in Table, b.locks[d][t] # NO_LOCK
               PROVE  n.cache[t] = b.cache[t]
    OBVIOUS
  <2>1. CASE b.cache[t] = b.disk[t] \/ b.inTrans[c] # TRANS_WRITE
    BY <2>1 DEF Leaves
  <2>2. CASE b.cache[t] # b.disk[t] /\ b.inTrans[c] = TRANS_WRITE
    <3>1. PICK e \in Conn : b.locks[e][t] = WRITE_LOCK
      BY <2>2 DEF Consistent, Changed
    <3>2. e = c
      BY <2>2, <3>1 DEF Consistent, LocksInTrans, OneWriter
    <3>3. QED
      BY <3>1, <3>2 DEF Consistent, LocksExclude
  <2>3. QED
    BY <2>1, <2>2
<1>8. QED
  BY <1>1, <1>2, <1>4, <1>5, <1>6, <1>7 DEF Consistent, Left, Leaves

----------------------------------------------------------------------------
\* Statements of the cache, and a write.

LEMMA BeginStmtConsistent ==
  ASSUME NEW b, Consistent(b), NEW c \in Conn, NEW n, n = BtreeBeginStmt(b)
  PROVE  Consistent(n) /\ Kept(b, n, c) /\ n.locks = b.locks /\ n.inTrans = b.inTrans
<1>b. b \in Bt
  BY DEF Consistent
<1>t. /\ b.locks \in [Conn -> [Table -> 0..2]] /\ b.inTrans \in [Conn -> 0..2]
      /\ b.mark \in [Table -> {"no", "journal", "stmt", "stale"}]
  BY <1>b, Fields
<1> DEFINE m == [t \in Table |-> IF b.mark[t] = "journal" THEN "stale" ELSE b.mark[t]]
<1>1. m \in [Table -> {"no", "journal", "stmt", "stale"}]
      /\ \A t \in Table : m[t] # "no" => b.mark[t] # "no"
  BY <1>t
<1>2. n = [b EXCEPT !.stmtInUse = TRUE, !.mark = m, !.inStmt = TRUE]
  BY <1>b DEF Bt, BtreeBeginStmt, pager_stmt_begin
<1> HIDE DEF m
<1>3. /\ n \in Bt /\ n.nRef = b.nRef /\ n.locks = b.locks /\ n.inTrans = b.inTrans
      /\ n.cache = b.cache /\ n.disk = b.disk /\ n.mark = m /\ n.saved = b.saved
      /\ n.nTransaction = b.nTransaction /\ n.inTransaction = b.inTransaction
      /\ n.page1 = b.page1
  BY <1>b, <1>1, <1>2 DEF Bt
<1>4. LocksExclude(n) /\ LocksInTrans(n) /\ OneWriter(n) /\ Counted(n)
  BY <1>3 DEF Consistent, LocksExclude, LocksInTrans, OneWriter, Counted, InTrans
<1>5. Changed(n) /\ Saved(n)
  BY <1>1, <1>3 DEF Consistent, Changed, Saved
<1>6. Kept(b, n, c)
  BY <1>t, <1>3 DEF Kept
<1>7. QED
  BY <1>3, <1>4, <1>5, <1>6 DEF Consistent

\* The contents may go back, and nothing is marked any more.
LEMMA EndStmtConsistent ==
  ASSUME NEW b, Consistent(b), NEW n, n \in Bt,
         n.nRef = b.nRef, n.locks = b.locks, n.inTrans = b.inTrans,
         n.nTransaction = b.nTransaction, n.inTransaction = b.inTransaction,
         n.page1 = b.page1, n.disk = b.disk,
         \A t \in Table : n.mark[t] # "no" => n.mark[t] = b.mark[t] /\ n.saved[t] = b.saved[t],
         \A t \in Table : n.cache[t] = b.cache[t] \/ b.mark[t] # "no"
  PROVE  Consistent(n) /\ Ended(b, n)
<1>1. LocksExclude(n) /\ LocksInTrans(n) /\ OneWriter(n) /\ Counted(n)
  BY DEF Consistent, LocksExclude, LocksInTrans, OneWriter, Counted, InTrans
<1>2. Changed(n)
  BY DEF Consistent, Changed
<1>3. Saved(n)
  BY DEF Consistent, Saved
<1>4. \A d \in Conn, t \in Table :
        b.locks[d][t] # NO_LOCK /\ b.inTrans[d] # TRANS_WRITE => n.cache[t] = b.cache[t]
  BY DEF Consistent, Changed, LocksExclude, LocksInTrans
<1>5. QED
  BY <1>1, <1>2, <1>3, <1>4 DEF Consistent, Ended

LEMMA CommitStmtConsistent ==
  ASSUME NEW b, Consistent(b), NEW n, n = BtreeCommitStmt(b)
  PROVE  Consistent(n) /\ Ended(b, n)
<1>b. b \in Bt
  BY DEF Consistent
<1>1. /\ n \in Bt /\ n.nRef = b.nRef /\ n.locks = b.locks /\ n.inTrans = b.inTrans
      /\ n.nTransaction = b.nTransaction /\ n.inTransaction = b.inTransaction
      /\ n.page1 = b.page1 /\ n.cache = b.cache /\ n.disk = b.disk
  BY <1>b DEF Bt, BtreeCommitStmt, pager_stmt_commit, NoMarks, NoneSaved
<1>2. \A t \in Table : n.mark[t] # "no" => n.mark[t] = b.mark[t] /\ n.saved[t] = b.saved[t]
  BY <1>b DEF Bt, BtreeCommitStmt, pager_stmt_commit, NoMarks
<1>3. QED
  BY <1>1, <1>2, EndStmtConsistent

LEMMA RollbackStmtConsistent ==
  ASSUME NEW b, Consistent(b), NEW n, n = BtreeRollbackStmt(b)
  PROVE  Consistent(n) /\ Ended(b, n)
<1>b. b \in Bt
  BY DEF Consistent
<1>t. /\ b.cache \in [Table -> Value] /\ b.saved \in [Table -> SUBSET Value]
  BY <1>b, Fields
<1>1. CASE ~b.inStmt
  <2>1. n = b
    BY <1>1 DEF BtreeRollbackStmt
  <2>2. QED
    BY <1>b, <2>1, EndStmtConsistent
<1>2. CASE b.inStmt
  <2> DEFINE x == [t \in Table |-> IF b.mark[t] \in {"journal", "stmt"}
                                  THEN CHOOSE v \in Value : v \in b.saved[t] ELSE b.cache[t]]
  <2>1. \A t \in Table : b.mark[t] \in {"journal", "stmt"} =>
          (CHOOSE v \in Value : v \in b.saved[t]) \in Value
    BY <1>t DEF Consistent, Saved
  <2>2. x \in [Table -> Value]
    BY <1>t, <2>1
  <2>3. \A t \in Table : x[t] = b.cache[t] \/ b.mark[t] # "no"
    OBVIOUS
  <2>4. n = [b EXCEPT !.cache = x, !.stmtInUse = FALSE, !.mark = NoMarks, !.saved = NoneSaved,
                      !.inStmt = FALSE]
    <3>1. n = [pager_stmt_commit([b EXCEPT !.cache = x]) EXCEPT !.inStmt = FALSE]
      BY <1>2 DEF BtreeRollbackStmt, pager_stmt_rollback
    <3> HIDE DEF x
    <3>2. QED
      <4> DEFINE y == [b EXCEPT !.cache = x]
      <4>1. n = [y EXCEPT !.stmtInUse = FALSE, !.mark = NoMarks, !.saved = NoneSaved,
                          !.inStmt = FALSE]
        BY <3>1 DEF pager_stmt_commit
      <4>2. QED
        BY <1>b, <4>1 DEF Bt
  <2> HIDE DEF x
  <2>5. /\ n \in Bt /\ n.nRef = b.nRef /\ n.locks = b.locks /\ n.inTrans = b.inTrans
        /\ n.nTransaction = b.nTransaction /\ n.inTransaction = b.inTransaction
        /\ n.page1 = b.page1 /\ n.cache = x /\ n.disk = b.disk /\ n.mark = NoMarks
    <3>1. /\ NoMarks \in [Table -> {"no", "journal", "stmt", "stale"}]
          /\ NoneSaved \in [Table -> SUBSET Value]
      BY DEF NoMarks, NoneSaved
    <3>2. n \in Bt
      BY <1>b, <2>2, <2>4, <3>1 DEF Bt
    <3>3. QED
      BY <1>b, <2>4, <3>2 DEF Bt
  <2>6. \A t \in Table : n.mark[t] = "no"
    BY <2>5 DEF NoMarks
  <2>7. QED
    BY <2>3, <2>5, <2>6, EndStmtConsistent
<1>3. QED
  BY <1>1, <1>2

LEMMA WriteConsistent ==
  ASSUME NEW b, Consistent(b), NEW c \in Conn, NEW t \in Table, b.locks[c][t] = WRITE_LOCK,
         NEW content \in Value, NEW n, n = WriteTable(b, t, content)
  PROVE  /\ Consistent(n) /\ n.nRef = b.nRef /\ n.locks = b.locks /\ n.inTrans = b.inTrans
         /\ \A s \in Table \ {t} : n.cache[s] = b.cache[s]
<1>b. b \in Bt
  BY DEF Consistent
<1>t. /\ b.cache \in [Table -> Value] /\ b.saved \in [Table -> SUBSET Value]
      /\ b.mark \in [Table -> {"no", "journal", "stmt", "stale"}]
      /\ b.journaled \in [Table -> BOOLEAN]
  BY <1>b, Fields
<1> DEFINE first == b.mark[t] = "no" /\ b.stmtInUse
           x == [b.cache EXCEPT ![t] = content]
           m == [b.mark EXCEPT ![t] = IF first THEN IF b.journaled[t] THEN "stmt" ELSE "journal"
                                      ELSE b.mark[t]]
           j == [b.journaled EXCEPT ![t] = TRUE]
           s == [b.saved EXCEPT ![t] = IF first THEN {b.cache[t]} ELSE b.saved[t]]
<1>1. x \in [Table -> Value] /\ \A u \in Table \ {t} : x[u] = b.cache[u]
  BY <1>t
<1>2. /\ m \in [Table -> {"no", "journal", "stmt", "stale"}]
      /\ \A u \in Table \ {t} : m[u] = b.mark[u]
  BY <1>t
<1>3. j \in [Table -> BOOLEAN]
  BY <1>t
<1>4. /\ s \in [Table -> SUBSET Value] /\ \A u \in Table \ {t} : s[u] = b.saved[u]
  BY <1>t
<1>5. m[t] # "no" => s[t] # {}
  BY <1>t DEF Consistent, Saved
<1>6. n = [b EXCEPT !.cache = x, !.mark = m, !.journaled = j, !.saved = s]
  BY <1>b DEF Bt, WriteTable
<1> HIDE DEF x, m, j, s, first
<1>7. /\ n \in Bt /\ n.nRef = b.nRef /\ n.locks = b.locks /\ n.inTrans = b.inTrans
      /\ n.nTransaction = b.nTransaction /\ n.inTransaction = b.inTransaction
      /\ n.page1 = b.page1 /\ n.cache = x /\ n.disk = b.disk /\ n.mark = m /\ n.saved = s
  BY <1>b, <1>1, <1>2, <1>3, <1>4, <1>6 DEF Bt
<1>8. LocksExclude(n) /\ LocksInTrans(n) /\ OneWriter(n) /\ Counted(n)
  BY <1>7 DEF Consistent, LocksExclude, LocksInTrans, OneWriter, Counted, InTrans
<1>9. Changed(n)
  BY <1>1, <1>2, <1>7 DEF Consistent, Changed
<1>10. Saved(n)
  BY <1>2, <1>4, <1>5, <1>7 DEF Consistent, Saved
<1>11. QED
  BY <1>1, <1>7, <1>8, <1>9, <1>10 DEF Consistent

----------------------------------------------------------------------------
\* The statements of the virtual machines.

\* No cursor has been opened between v and w.
Fewer(v, w) == \A d \in Conn, r \in Role : w[d][r].at = "open" => w[d][r] = v[d][r]

LEMMA ServedFewer ==
  ASSUME NEW b, NEW v, NEW w, Served(b, v), Fewer(v, w)
  PROVE  Served(b, w)
  BY DEF Served, Fewer, Role

LEMMA ServedKept ==
  ASSUME NEW b, b \in Bt, NEW n, n \in Bt, NEW c \in Conn, Kept(b, n, c),
         NEW v, v \in [Conn -> [Role -> Statement]], Served(b, v)
  PROVE  Served(n, v)
<1>t. /\ b.locks \in [Conn -> [Table -> 0..2]] /\ b.inTrans \in [Conn -> 0..2]
      /\ n.locks \in [Conn -> [Table -> 0..2]] /\ n.inTrans \in [Conn -> 0..2]
  BY Fields
<1>1. \A d \in Conn, r \in Role : v[d][r].table \in Table
  BY DEF Statement
<1>2. \A d \in Conn, t \in Table :
        /\ b.locks[d][t] # NO_LOCK => n.locks[d][t] # NO_LOCK
        /\ b.locks[d][t] = WRITE_LOCK => n.locks[d][t] = WRITE_LOCK
  <2> SUFFICES ASSUME NEW d \in Conn, NEW t \in Table
               PROVE  /\ b.locks[d][t] # NO_LOCK => n.locks[d][t] # NO_LOCK
                      /\ b.locks[d][t] = WRITE_LOCK => n.locks[d][t] = WRITE_LOCK
    OBVIOUS
  <2>1. b.locks[d][t] \in 0..2 /\ n.locks[d][t] \in 0..2 /\ n.locks[d][t] >= b.locks[d][t]
    BY <1>t DEF Kept
  <2>2. QED
    BY <2>1
<1>3. \A d \in Conn : b.inTrans[d] # TRANS_NONE => n.inTrans[d] # TRANS_NONE
  <2> SUFFICES ASSUME NEW d \in Conn, b.inTrans[d] # TRANS_NONE
               PROVE  n.inTrans[d] # TRANS_NONE
    OBVIOUS
  <2>1. b.inTrans[d] \in 0..2 /\ n.inTrans[d] \in 0..2 /\ n.inTrans[d] >= b.inTrans[d]
    BY <1>t DEF Kept
  <2>2. QED
    BY <2>1
<1>4. QED
  BY <1>1, <1>2, <1>3 DEF Served, Role

LEMMA KeptTwice ==
  ASSUME NEW b, b \in Bt, NEW m, m \in Bt, NEW n, n \in Bt, NEW c \in Conn,
         Kept(b, m, c), Kept(m, n, c)
  PROVE  Kept(b, n, c)
<1>1. \A d \in Conn, t \in Table : n.locks[d][t] >= b.locks[d][t]
  <2> SUFFICES ASSUME NEW d \in Conn, NEW t \in Table PROVE n.locks[d][t] >= b.locks[d][t]
    OBVIOUS
  <2>1. b.locks[d][t] \in 0..2 /\ m.locks[d][t] \in 0..2 /\ n.locks[d][t] \in 0..2
    BY Fields
  <2>2. m.locks[d][t] >= b.locks[d][t] /\ n.locks[d][t] >= m.locks[d][t]
    BY DEF Kept
  <2>3. QED
    BY <2>1, <2>2
<1>2. \A d \in Conn : n.inTrans[d] >= b.inTrans[d]
  <2> SUFFICES ASSUME NEW d \in Conn PROVE n.inTrans[d] >= b.inTrans[d]
    OBVIOUS
  <2>1. b.inTrans[d] \in 0..2 /\ m.inTrans[d] \in 0..2 /\ n.inTrans[d] \in 0..2
    BY Fields
  <2>2. m.inTrans[d] >= b.inTrans[d] /\ n.inTrans[d] >= m.inTrans[d]
    BY DEF Kept
  <2>3. QED
    BY <2>1, <2>2
<1>3. QED
  BY <1>1, <1>2 DEF Kept

LEMMA KeptSame ==
  ASSUME NEW b, b \in Bt, NEW c \in Conn
  PROVE  Kept(b, b, c)
<1>1. b.locks \in [Conn -> [Table -> 0..2]] /\ b.inTrans \in [Conn -> 0..2]
  BY Fields
<1>2. QED
  BY <1>1 DEF Kept

LEMMA NoCursors ==
  ASSUME NEW b, NEW c \in Conn, NEW v, Served(b, v), \A r \in Role : v[c][r].at # "open",
         InTrans(b) \ {c} = {}
  PROVE  Cursors(v) = {}
<1>1. ASSUME NEW d \in Conn, NEW r \in Role, v[d][r].at = "open" PROVE FALSE
  <2>1. d # c
    BY <1>1
  <2>2. b.inTrans[d] # TRANS_NONE
    BY <1>1 DEF Served
  <2>3. QED
    BY <2>1, <2>2 DEF InTrans
<1>2. QED
  BY <1>1 DEF Cursors

\* The transaction of a handle ends, one way or the other, with its cursors closed.
LEMMA TransEnds ==
  ASSUME NEW b, Consistent(b), NEW c \in Conn, NEW v, Served(b, v),
         \A r \in Role : v[c][r].at # "open",
         NEW n, n = BtreeCommit(b, c, v) \/ n = BtreeRollback(b, c, v)
  PROVE  Consistent(n) /\ Left(b, n, c) /\ Served(n, v)
<1>1. /\ Leaves(b, n, c)
      /\ n.page1 <=> (b.page1 /\ ~(n.inTransaction = TRANS_NONE /\ Cursors(v) = {}))
  <2>1. b \in Bt /\ (b.inTrans[c] # TRANS_NONE => b.nTransaction > 0)
    BY CountPositive DEF Consistent
  <2>2. QED
    BY <2>1, CommitLeaves, RollbackLeaves
<1>2. InTrans(b) \ {c} = {} => Cursors(v) = {}
  BY NoCursors
<1>3. Consistent(n) /\ Left(b, n, c)
  <2> DEFINE closed == Cursors(v) = {}
  <2>1. closed \in BOOLEAN
    OBVIOUS
  <2>2. n.page1 <=> (b.page1 /\ ~(n.inTransaction = TRANS_NONE /\ closed))
    BY <1>1
  <2>3. InTrans(b) \ {c} = {} => closed
    BY <1>2
  <2> HIDE DEF closed
  <2>4. QED
    BY <1>1, <2>1, <2>2, <2>3, LeavesConsistent
<1>4. Served(n, v)
  BY <1>3 DEF Left, Served, Role
<1>5. QED
  BY <1>3, <1>4

\* Handle c takes what it needs, b, and then a statement of it ends.
LEMMA StatementEnds ==
  ASSUME NEW b, b \in Bt, NEW m, Consistent(m), NEW c \in Conn, Kept(b, m, c),
         NEW v, v \in [Conn -> [Role -> Statement]], Served(b, v), NEW w, Fewer(v, w), NEW n,
         \/ /\ n = BtreeCommit(m, c, w) \/ n = BtreeRollback(m, c, w)
            /\ \A r \in Role : w[c][r].at # "open"
         \/ n = BtreeCommitStmt(m) \/ n = BtreeRollbackStmt(m)
  PROVE  /\ Consistent(n) /\ Served(n, w) /\ Still(b, n) /\ n.nRef = b.nRef
         /\ \A d \in Conn \ {c} : n.inTrans[d] = b.inTrans[d]
<1>m. m \in Bt
  BY DEF Consistent
<1>1. Served(m, w)
  <2>1. Served(m, v)
    BY <1>m, ServedKept
  <2>2. QED
    BY <2>1, ServedFewer
<1>2. \A d \in Conn, t \in Table : b.locks[d][t] # NO_LOCK => m.locks[d][t] # NO_LOCK
  <2> SUFFICES ASSUME NEW d \in Conn, NEW t \in Table, b.locks[d][t] # NO_LOCK
               PROVE  m.locks[d][t] # NO_LOCK
    OBVIOUS
  <2>1. b.locks[d][t] \in 0..2 /\ m.locks[d][t] \in 0..2
    BY <1>m, Fields
  <2>2. m.locks[d][t] >= b.locks[d][t]
    BY DEF Kept
  <2>3. QED
    BY <2>1, <2>2
<1>3. CASE /\ n = BtreeCommit(m, c, w) \/ n = BtreeRollback(m, c, w)
           /\ \A r \in Role : w[c][r].at # "open"
  <2>1. Consistent(n) /\ Left(m, n, c) /\ Served(n, w)
    BY <1>1, <1>3, TransEnds
  <2>2. Still(b, n)
    BY <1>2, <2>1 DEF Left, Kept, Still
  <2>3. QED
    BY <2>1, <2>2 DEF Left, Kept
<1>4. CASE n = BtreeCommitStmt(m) \/ n = BtreeRollbackStmt(m)
  <2>1. Consistent(n) /\ Ended(m, n)
    BY <1>4, CommitStmtConsistent, RollbackStmtConsistent
  <2>2. Served(n, w)
    BY <1>1, <2>1 DEF Served, Ended
  <2>3. Still(b, n)
    BY <1>2, <2>1 DEF Ended, Kept, Still
  <2>4. QED
    BY <2>1, <2>2, <2>3 DEF Ended, Kept
<1>5. QED
  BY <1>3, <1>4

----------------------------------------------------------------------------
\* The steps.

LEMMA InitInv == ScInit => ScInv
<1> SUFFICES ASSUME ScInit PROVE ScInv
  OBVIOUS
<1>1. PICK content \in [Table -> Value] :
        bt = [locks |-> [c \in Conn |-> [t \in Table |-> NO_LOCK]],
             inTrans |-> [c \in Conn |-> TRANS_NONE],
             inTransaction |-> TRANS_NONE, nTransaction |-> 0, nRef |-> 0,
             inStmt |-> FALSE, page1 |-> FALSE, cache |-> content, disk |-> content,
             stmtInUse |-> FALSE, mark |-> [t \in Table |-> "no"],
             journaled |-> [t \in Table |-> FALSE], saved |-> [t \in Table |-> {}]]
  BY DEF ScInit
<1>2. bt \in Bt
  BY <1>1 DEF Bt
<1>3. LocksExclude(bt) /\ LocksInTrans(bt) /\ OneWriter(bt) /\ Changed(bt) /\ Saved(bt)
  BY <1>1 DEF LocksExclude, LocksInTrans, OneWriter, Changed, Saved
<1>4. Counted(bt)
  <2>1. InTrans(bt) = {}
    BY <1>1 DEF InTrans
  <2>2. QED
    <3>1. Cardinality(InTrans(bt)) = 0
      BY <2>1, FS_EmptySet
    <3>2. ~\E c \in Conn : bt.inTrans[c] = TRANS_WRITE
      BY <1>1
    <3>3. bt.nTransaction = 0 /\ bt.inTransaction = TRANS_NONE /\ bt.page1 = FALSE
      BY <1>1
    <3>4. QED
      BY <2>1, <3>1, <3>2, <3>3 DEF Counted
<1>5. TypeRest /\ Served(bt, vm) /\ Owned
  <2>1. Idle \in Statement /\ Idle.at = "idle"
    BY SharedCacheSets DEF Idle, Statement
  <2>2. TypeRest
    BY <2>1 DEF ScInit, TypeRest
  <2>3. \A c \in Conn, s \in Role : vm[c][s].at = "idle"
    BY <2>1 DEF ScInit
  <2>4. Served(bt, vm)
    BY <2>3 DEF Served, Role
  <2>5. Cardinality(connected) = 0
    BY FS_EmptySet DEF ScInit
  <2>6. Owned
    BY <1>1, <2>3, <2>5 DEF Owned
  <2>7. QED
    BY <2>2, <2>4, <2>6
<1>6. QED
  BY <1>2, <1>3, <1>4, <1>5 DEF ScInv, Consistent

\* What a statement takes before it runs, as far as it gets.
LEMMA Entering ==
  ASSUME ScInv, NEW c \in Conn, NEW r \in Role, NEW t \in Table,
         ~AnotherWrites(bt, c, r = "write")
  PROVE  /\ Consistent(Begun(c, r)) /\ Kept(bt, Begun(c, r), c)
         /\ CanVerify(c, r) => Consistent(Verified(c, r)) /\ Kept(bt, Verified(c, r), c)
         /\ CanLock(c, r, t) =>
              LET i == InStatement(c, r, t) IN
              /\ Consistent(i) /\ Kept(bt, i, c) /\ i.inTrans[c] # TRANS_NONE
              /\ r = "write" => i.locks[c][t] = WRITE_LOCK
              /\ r = "read" /\ ~readUncommitted[c] => i.locks[c][t] # NO_LOCK
<1> DEFINE g == Begun(c, r)
           y == Verified(c, r)
           l == Locked(c, r, t)
           i == InStatement(c, r, t)
<1>b. Consistent(bt) /\ bt \in Bt
  BY DEF ScInv, Consistent
<1>1. /\ Consistent(g) /\ Kept(bt, g, c) /\ g.inTrans[c] # TRANS_NONE
      /\ r = "write" => g.inTrans[c] = TRANS_WRITE
  <2> DEFINE wr == r = "write"
  <2>1. wr \in BOOLEAN /\ ~AnotherWrites(bt, c, wr) /\ g = BeginTrans(bt, c, wr)
    BY DEF Begun
  <2> HIDE DEF wr, g
  <2>2. /\ Consistent(g) /\ Kept(bt, g, c) /\ g.inTrans[c] # TRANS_NONE
        /\ wr => g.inTrans[c] = TRANS_WRITE
    BY <1>b, <2>1, BeginTransConsistent, Zenon
  <2>3. QED
    BY <2>2 DEF wr
<1>2. ASSUME CanVerify(c, r)
      PROVE  /\ Consistent(y) /\ Kept(bt, y, c) /\ y.inTrans = g.inTrans
  <2>1. queryTableLock(g, c, MASTER_ROOT, READ_LOCK) /\ y = lockTable(g, c, MASTER_ROOT, READ_LOCK)
    BY <1>2 DEF CanVerify, Verified
  <2> HIDE DEF g, y
  <2>2. Consistent(y) /\ Kept(g, y, c) /\ y.inTrans = g.inTrans
    BY <1>1, <2>1, SharedCacheSets, LockConsistent
  <2>3. QED
    BY <1>b, <1>1, <2>2, KeptTwice DEF Consistent
<1>3. ASSUME CanLock(c, r, t)
      PROVE  /\ Consistent(i) /\ Kept(bt, i, c) /\ i.inTrans[c] # TRANS_NONE
             /\ r = "write" => i.locks[c][t] = WRITE_LOCK
             /\ r = "read" /\ ~readUncommitted[c] => i.locks[c][t] # NO_LOCK
  <2>1. CanVerify(c, r) /\ queryTableLock(y, c, t, Lock(r)) /\ l = lockTable(y, c, t, Lock(r))
    BY <1>3 DEF CanLock, Locked
  <2>2. /\ Consistent(y) /\ Kept(bt, y, c) /\ y.inTrans[c] # TRANS_NONE
        /\ r = "write" => y.inTrans[c] = TRANS_WRITE
    BY <1>1, <1>2, <2>1
  <2>3. i = l \/ i = BtreeBeginStmt(l)
    BY DEF InStatement
  <2> HIDE DEF g, y, l, i
  <2>4. PICK e \in 1..2 : e = Lock(r) /\ (e = WRITE_LOCK <=> r = "write")
    BY DEF Lock
  <2>5. /\ Consistent(l) /\ Kept(y, l, c) /\ l.inTrans = y.inTrans
        /\ NoReadLock(c, t, e) \/ l.locks[c][t] >= e
    <3>1. e = WRITE_LOCK => y.inTrans[c] = TRANS_WRITE
      BY <2>2, <2>4
    <3>2. queryTableLock(y, c, t, e) /\ l = lockTable(y, c, t, e)
      BY <2>1, <2>4
    <3>3. QED
      BY <2>2, <3>1, <3>2, LockConsistent, Zenon
  <2>6. l \in Bt /\ y \in Bt /\ l.locks[c][t] \in 0..2
    BY <2>2, <2>5, Fields DEF Consistent
  <2>7. /\ r = "write" => l.locks[c][t] = WRITE_LOCK
        /\ r = "read" /\ ~readUncommitted[c] => l.locks[c][t] # NO_LOCK
    BY <2>4, <2>5, <2>6 DEF NoReadLock
  <2>8. Consistent(i) /\ Kept(l, i, c) /\ i.locks = l.locks /\ i.inTrans = l.inTrans
    BY <2>3, <2>5, <2>6, KeptSame, BeginStmtConsistent
  <2>9. Kept(bt, l, c)
    BY <1>b, <2>2, <2>5, <2>6, KeptTwice
  <2>10. Kept(bt, i, c)
    BY <1>b, <2>6, <2>8, <2>9, KeptTwice DEF Consistent
  <2>11. QED
    BY <2>2, <2>5, <2>7, <2>8, <2>10
<1>4. QED
  BY <1>1, <1>2, <1>3

\* A statement, or all of a handle's transaction, ends; m is what the handle took before.
LEMMA Ends ==
  ASSUME ScInv, NEW c \in connected, NEW m, Consistent(m), Kept(bt, m, c),
         vm' \in [Conn -> [Role -> Statement]], Fewer(vm, vm'),
         \A d \in Conn \ {c} : vm'[d] = vm[d],
         \/ /\ bt' = BtreeCommit(m, c, vm') \/ bt' = BtreeRollback(m, c, vm')
            /\ \A r \in Role : vm'[c][r].at # "open"
         \/ bt' = BtreeCommitStmt(m) \/ bt' = BtreeRollbackStmt(m),
         autoCommit' \in [Conn -> BOOLEAN], disturbed' \in BOOLEAN,
         UNCHANGED <<connected, readUncommitted>>
  PROVE  ScInv' /\ Still(bt, bt')
<1>1. c \in Conn /\ bt \in Bt /\ Served(bt, vm) /\ vm \in [Conn -> [Role -> Statement]]
  BY DEF ScInv, TypeRest, Consistent
<1>2. /\ Consistent(bt') /\ Served(bt', vm') /\ Still(bt, bt') /\ bt'.nRef = bt.nRef
      /\ \A d \in Conn \ {c} : bt'.inTrans[d] = bt.inTrans[d]
  BY <1>1, StatementEnds
<1>3. Served(bt, vm)'
  BY <1>2 DEF Served
<1>4. Owned'
  BY <1>2 DEF ScInv, Owned
<1>5. Consistent(bt)'
  BY <1>2 DEF Consistent, LocksExclude, LocksInTrans, OneWriter, Counted, Changed, Saved, InTrans
<1>6. TypeRest'
  BY DEF ScInv, TypeRest
<1>7. QED
  BY <1>2, <1>3, <1>4, <1>5, <1>6 DEF ScInv

\* Nothing is open after the end of one, if the handle had no more.
LEMMA Closed ==
  ASSUME vm \in [Conn -> [Role -> Statement]], NEW c \in Conn, NEW r \in Role,
         NEW x \in Statement, x.at # "open", vm' = [vm EXCEPT ![c][r] = x]
  PROVE  /\ vm' \in [Conn -> [Role -> Statement]] /\ Fewer(vm, vm')
         /\ \A d \in Conn \ {c} : vm'[d] = vm[d]
         /\ Active(vm, c) \subseteq {r} => \A s \in Role : vm'[c][s].at # "open"
<1>1. vm' \in [Conn -> [Role -> Statement]]
  OBVIOUS
<1>2. \A d \in Conn, s \in Role : vm'[d][s] = IF d = c /\ s = r THEN x ELSE vm[d][s]
  OBVIOUS
<1>3. \A d \in Conn \ {c} : vm'[d] = vm[d]
  OBVIOUS
<1>4. QED
  BY <1>1, <1>2, <1>3 DEF Fewer, Active

LEMMA IdleStatement == Idle \in Statement /\ Idle.at = "idle"
                       /\ [Idle EXCEPT !.at = "done"] \in Statement
                       /\ [Idle EXCEPT !.at = "aborted"] \in Statement
  BY SharedCacheSets DEF Idle, Statement

LEMMA ForgetType ==
  ASSUME NEW c, NEW r, Forget(c, r), disturbed \in BOOLEAN
  PROVE  disturbed' \in BOOLEAN
  BY DEF Forget, Disturbs

LEMMA SameTypes ==
  ASSUME ScInv
  PROVE  /\ connected \subseteq Conn /\ autoCommit \in [Conn -> BOOLEAN]
         /\ readUncommitted \in [Conn -> BOOLEAN] /\ disturbed \in BOOLEAN
         /\ vm \in [Conn -> [Role -> Statement]] /\ bt \in Bt
         /\ Consistent(bt) /\ Served(bt, vm) /\ Owned
         /\ \A c \in Conn : Kept(bt, bt, c)
<1>1. bt \in Bt
  BY DEF ScInv, Consistent
<1>2. QED
  BY <1>1, KeptSame DEF ScInv, TypeRest

\* Nothing happens to the cache or to the cursors.
LEMMA SameCache ==
  ASSUME ScInv, UNCHANGED <<bt, connected, readUncommitted>>,
         vm' \in [Conn -> [Role -> Statement]], Fewer(vm, vm'),
         \A d \in Conn \ connected : vm'[d] = vm[d],
         autoCommit' \in [Conn -> BOOLEAN], disturbed' \in BOOLEAN
  PROVE  ScInv' /\ Still(bt, bt')
<1>1. Served(bt, vm')
  BY ServedFewer DEF ScInv
<1>2. Served(bt, vm)'
  BY <1>1 DEF Served
<1>3. Consistent(bt)'
  BY DEF ScInv, Consistent, LocksExclude, LocksInTrans, OneWriter, Counted, Changed, Saved,
     InTrans
<1>4. Owned' /\ TypeRest'
  BY DEF ScInv, Owned, TypeRest
<1>5. QED
  BY <1>2, <1>3, <1>4 DEF ScInv, Still

\* A handle more or less.
LEMMA RefConsistent ==
  ASSUME NEW b, Consistent(b), NEW k \in Nat, NEW n, n = [b EXCEPT !.nRef = k]
  PROVE  /\ Consistent(n) /\ n.nRef = k
         /\ n.locks = b.locks /\ n.inTrans = b.inTrans /\ n.cache = b.cache
<1>1. /\ n \in Bt /\ n.nRef = k /\ n.locks = b.locks /\ n.inTrans = b.inTrans
      /\ n.nTransaction = b.nTransaction /\ n.inTransaction = b.inTransaction
      /\ n.page1 = b.page1 /\ n.cache = b.cache /\ n.disk = b.disk
      /\ n.mark = b.mark /\ n.saved = b.saved
  BY DEF Consistent, Bt
<1>2. LocksExclude(n) /\ LocksInTrans(n) /\ OneWriter(n) /\ Counted(n) /\ Changed(n) /\ Saved(n)
  BY <1>1 DEF Consistent, LocksExclude, LocksInTrans, OneWriter, Counted, InTrans, Changed, Saved
<1>3. QED
  BY <1>1, <1>2 DEF Consistent

LEMMA ConnectedFinite ==
  ASSUME ScInv
  PROVE  IsFiniteSet(connected) /\ Cardinality(connected) \in Nat
<1>1. IsFiniteSet(connected)
  BY SharedCacheSets, FS_Subset DEF ScInv, TypeRest
<1>2. QED
  BY <1>1, FS_CardinalityType

LEMMA OpenStep ==
  ASSUME ScInv, NEW c \in Conn, Open(c)
  PROVE  ScInv' /\ Still(bt, bt')
<1>1. /\ c \notin connected /\ connected' = connected \cup {c}
      /\ bt' = [bt EXCEPT !.nRef = bt.nRef + 1]
      /\ UNCHANGED <<autoCommit, readUncommitted, vm, disturbed>>
  BY DEF Open
<1>2. bt.nRef + 1 \in Nat
  BY SameTypes, Fields
<1>3. /\ Consistent(bt') /\ bt'.nRef = bt.nRef + 1
      /\ bt'.locks = bt.locks /\ bt'.inTrans = bt.inTrans /\ bt'.cache = bt.cache
  BY <1>1, <1>2, SameTypes, RefConsistent
<1>4. Cardinality(connected') = Cardinality(connected) + 1
  BY <1>1, ConnectedFinite, FS_AddElement
<1>5. Owned' /\ TypeRest'
  BY <1>1, <1>3, <1>4 DEF ScInv, Owned, TypeRest
<1>6. Served(bt, vm)'
  BY <1>1, <1>3 DEF ScInv, Served
<1>7. Consistent(bt)'
  BY <1>3 DEF Consistent, LocksExclude, LocksInTrans, OneWriter, Counted, Changed, Saved, InTrans
<1>8. QED
  BY <1>3, <1>5, <1>6, <1>7 DEF ScInv, Still

LEMMA CloseStep ==
  ASSUME ScInv, NEW c \in Conn, Close(c)
  PROVE  ScInv' /\ Still(bt, bt')
<1> DEFINE n == BtreeRollback(bt, c, vm)
<1>1. /\ c \in connected /\ Active(vm, c) = {} /\ connected' = connected \ {c}
      /\ bt' = [n EXCEPT !.nRef = n.nRef - 1] /\ Forget(c, "none") /\ vm' = vm
      /\ autoCommit' = [autoCommit EXCEPT ![c] = TRUE]
      /\ readUncommitted' = [readUncommitted EXCEPT ![c] = FALSE]
  BY DEF Close
<1>2. \A r \in Role : vm[c][r].at = "idle"
  BY <1>1 DEF Active
<1> HIDE DEF n
<1>3. Consistent(n) /\ Left(bt, n, c) /\ Served(n, vm)
  BY <1>2, SameTypes, TransEnds DEF n
<1>4. Cardinality(connected') = Cardinality(connected) - 1
  BY <1>1, ConnectedFinite, FS_RemoveElement
<1>5. n.nRef = Cardinality(connected) /\ n.nRef - 1 \in Nat
  <2>1. IsFiniteSet(connected') /\ Cardinality(connected') \in Nat
    <3>1. IsFiniteSet(connected')
      BY <1>1, ConnectedFinite, FS_RemoveElement
    <3>2. QED
      BY <3>1, FS_CardinalityType
  <2>2. QED
    BY <1>3, <1>4, <2>1, ConnectedFinite DEF Left, ScInv, Owned
<1>6. /\ Consistent(bt') /\ bt'.nRef = n.nRef - 1
      /\ bt'.locks = n.locks /\ bt'.inTrans = n.inTrans /\ bt'.cache = n.cache
  BY <1>1, <1>3, <1>5, RefConsistent
<1>7. Owned'
  BY <1>1, <1>2, <1>3, <1>4, <1>5, <1>6 DEF ScInv, Owned, Left
<1>8. TypeRest'
  BY <1>1, ForgetType DEF ScInv, TypeRest
<1>9. Served(bt, vm)'
  BY <1>1, <1>2, <1>3, <1>6, SameTypes DEF Served, Role
<1>10. Consistent(bt)'
  BY <1>6 DEF Consistent, LocksExclude, LocksInTrans, OneWriter, Counted, Changed, Saved, InTrans
<1>11. Still(bt, bt')
  BY <1>3, <1>6 DEF Left, Still
<1>12. QED
  BY <1>7, <1>8, <1>9, <1>10, <1>11 DEF ScInv

LEMMA PragmaStep ==
  ASSUME ScInv, NEW c \in Conn, SetReadUncommitted(c)
  PROVE  ScInv' /\ Still(bt, bt')
<1>1. /\ readUncommitted' = [readUncommitted EXCEPT ![c] = ~readUncommitted[c]]
      /\ UNCHANGED <<bt, connected, autoCommit, vm, disturbed>>
  BY DEF SetReadUncommitted
<1>2. Served(bt, vm)'
  BY <1>1, SameTypes DEF Served, Role
<1>3. TypeRest' /\ Owned'
  BY <1>1 DEF ScInv, TypeRest, Owned
<1>4. Consistent(bt)'
  BY <1>1 DEF ScInv, Consistent, LocksExclude, LocksInTrans, OneWriter, Counted, Changed, Saved,
     InTrans
<1>5. QED
  BY <1>1, <1>2, <1>3, <1>4 DEF ScInv, Still

\* BEGIN, COMMIT and ROLLBACK, and the other ends of statements.
LEMMA BeginStep ==
  ASSUME ScInv, NEW c \in Conn, Begin(c)
  PROVE  ScInv' /\ Still(bt, bt')
<1>1. /\ c \in connected /\ bt' = BtreeCommitStmt(bt)
      /\ autoCommit' \in [Conn -> BOOLEAN] /\ disturbed' \in BOOLEAN
      /\ UNCHANGED <<connected, readUncommitted, vm>>
  BY SameTypes, ForgetType DEF Begin
<1>2. Fewer(vm, vm')
  BY <1>1 DEF Fewer
<1>3. QED
  BY <1>1, <1>2, SameTypes, Ends

LEMMA TransactionStep ==
  ASSUME ScInv, NEW c \in Conn, Commit(c) \/ Rollback(c)
  PROVE  ScInv' /\ Still(bt, bt')
<1>1. /\ c \in connected
      /\ bt' = BtreeCommit(bt, c, vm') \/ bt' = BtreeRollback(bt, c, vm')
      /\ \A r \in Role : vm'[c][r].at # "open"
      /\ autoCommit' \in [Conn -> BOOLEAN] /\ disturbed' \in BOOLEAN
      /\ UNCHANGED <<connected, readUncommitted, vm>>
  BY SameTypes, ForgetType DEF Commit, Rollback, Active
<1>2. Fewer(vm, vm')
  BY <1>1 DEF Fewer
<1>3. QED
  BY <1>1, <1>2, SameTypes, Ends

LEMMA HaltStep ==
  ASSUME ScInv, NEW c \in Conn, NEW r \in Role, Halt(c, r)
  PROVE  ScInv' /\ Still(bt, bt')
<1>1. /\ vm[c][r].at # "idle" /\ vm' = [vm EXCEPT ![c][r] = Idle] /\ disturbed' \in BOOLEAN
      /\ \/ Active(vm, c) \subseteq {r} /\ bt' = BtreeCommit(bt, c, vm')
         \/ bt' = BtreeCommitStmt(bt)
      /\ UNCHANGED <<connected, autoCommit, readUncommitted>>
  BY SameTypes, ForgetType DEF Halt, OnlyOne
<1>2. c \in connected
  BY <1>1, SameTypes DEF Owned
<1>3. /\ vm' \in [Conn -> [Role -> Statement]] /\ Fewer(vm, vm')
      /\ \A d \in Conn \ {c} : vm'[d] = vm[d]
      /\ Active(vm, c) \subseteq {r} => \A s \in Role : vm'[c][s].at # "open"
  BY <1>1, SameTypes, IdleStatement, Closed
<1>4. QED
  BY <1>1, <1>2, <1>3, SameTypes, Ends

LEMMA EmptyStep ==
  ASSUME ScInv, NEW c \in Conn, HaltEmpty(c) \/ RefusedAutoCommit(c)
  PROVE  ScInv' /\ Still(bt, bt')
<1>1. /\ c \in connected /\ disturbed' \in BOOLEAN
      /\ \/ /\ bt' = BtreeCommit(bt, c, vm') \/ bt' = BtreeRollback(bt, c, vm')
            /\ \A r \in Role : vm'[c][r].at # "open"
         \/ bt' = BtreeCommitStmt(bt) \/ bt' = BtreeRollbackStmt(bt)
      /\ UNCHANGED <<connected, autoCommit, readUncommitted, vm>>
  BY SameTypes, ForgetType DEF HaltEmpty, RefusedAutoCommit, OnlyOne, Active, Role
<1>2. Fewer(vm, vm')
  BY <1>1 DEF Fewer
<1>3. QED
  BY <1>1, <1>2, SameTypes, Ends

LEMMA AbortStep ==
  ASSUME ScInv, NEW c \in connected, NEW r \in Role, NEW b, Consistent(b), Kept(bt, b, c),
         AbortFrom(c, r, b)
  PROVE  ScInv' /\ Still(bt, bt')
<1>c. c \in Conn
  BY SameTypes
<1>1. /\ vm' = [vm EXCEPT ![c][r] = Idle] /\ disturbed' \in BOOLEAN
      /\ \/ Active(vm, c) \subseteq {r} /\ bt' = BtreeRollback(b, c, vm')
         \/ bt' = BtreeRollbackStmt(b)
      /\ UNCHANGED <<connected, autoCommit, readUncommitted>>
  BY SameTypes, ForgetType DEF AbortFrom, OnlyOne
<1>2. /\ vm' \in [Conn -> [Role -> Statement]] /\ Fewer(vm, vm')
      /\ \A d \in Conn \ {c} : vm'[d] = vm[d]
      /\ Active(vm, c) \subseteq {r} => \A s \in Role : vm'[c][s].at # "open"
  BY <1>c, <1>1, SameTypes, IdleStatement, Closed
<1>3. QED
  BY <1>1, <1>2, SameTypes, Ends

LEMMA RefusedStep ==
  ASSUME ScInv, NEW c \in Conn, NEW r \in Role, NEW t \in Table, Refused(c, r, t)
  PROVE  ScInv' /\ Still(bt, bt')
<1>1. c \in connected /\ ~AnotherWrites(bt, c, r = "write")
  BY DEF Refused, Starts
<1>2. PICK b : AbortFrom(c, r, b) /\ \/ b = Begun(c, r)
                                     \/ CanVerify(c, r) /\ b = Verified(c, r)
                                     \/ CanLock(c, r, t) /\ b = InStatement(c, r, t)
  BY DEF Refused
<1>3. Consistent(b) /\ Kept(bt, b, c)
  BY <1>1, <1>2, Entering
<1>4. QED
  BY <1>1, <1>2, <1>3, AbortStep

LEMMA OrRollbackStep ==
  ASSUME ScInv, NEW c \in Conn, OrRollback(c)
  PROVE  ScInv' /\ Still(bt, bt')
<1> DEFINE x == IF vm[c]["read"].at = "idle" THEN vm[c]["read"] ELSE [Idle EXCEPT !.at = "aborted"]
<1>1. /\ vm[c]["write"].at = "open"
      /\ vm' = [vm EXCEPT ![c] = [vm[c] EXCEPT !["write"] = Idle, !["read"] = x]]
      /\ bt' = BtreeRollback(bt, c, vm') /\ Forget(c, "write")
      /\ autoCommit' = [autoCommit EXCEPT ![c] = TRUE]
      /\ UNCHANGED <<connected, readUncommitted>>
  BY SameTypes DEF OrRollback, Role
<1>2. x \in Statement /\ x.at # "open"
  BY SameTypes, IdleStatement DEF Role, Idle
<1>3. /\ vm' \in [Conn -> [Role -> Statement]] /\ \A d \in Conn \ {c} : vm'[d] = vm[d]
      /\ vm'[c]["write"] = Idle /\ vm'[c]["read"] = x
  BY <1>1, <1>2, SameTypes, IdleStatement DEF Role
<1> HIDE DEF x
<1>4. \A s \in Role : vm'[c][s].at # "open"
  BY <1>2, <1>3, IdleStatement DEF Role
<1>5. Fewer(vm, vm')
  BY <1>3, <1>4 DEF Fewer
<1>6. c \in connected
  BY <1>1, SameTypes DEF Owned, Role
<1>7. autoCommit' \in [Conn -> BOOLEAN] /\ disturbed' \in BOOLEAN
  BY <1>1, SameTypes, ForgetType
<1>8. QED
  BY <1>1, <1>3, <1>4, <1>5, <1>6, <1>7, SameTypes, Ends

LEMMA BusyStep ==
  ASSUME ScInv, NEW c \in Conn,
         (\E t \in Table : Busy(c, t)) \/ \E r \in Role : HaltBusy(c, r)
  PROVE  ScInv' /\ Still(bt, bt')
<1>1. PICK r \in Role, x \in Statement :
        /\ x.at # "open" /\ vm' = [vm EXCEPT ![c][r] = x]
        /\ c \in connected
        /\ UNCHANGED <<bt, connected, autoCommit, readUncommitted, disturbed>>
  <2>1. CASE \E t \in Table : Busy(c, t)
    <3>1. PICK t \in Table : Busy(c, t)
      BY <2>1
    <3>2. [Idle EXCEPT !.at = "begun", !.table = t] \in Statement
          /\ [Idle EXCEPT !.at = "begun", !.table = t].at # "open"
      BY DEF Idle, Statement
    <3>3. QED
      BY <3>1, <3>2 DEF Busy, Starts, Role
  <2>2. CASE \E r \in Role : HaltBusy(c, r)
    <3>1. PICK r \in Role : HaltBusy(c, r)
      BY <2>2
    <3>2. [Idle EXCEPT !.at = "done"].at # "open"
      BY DEF Idle
    <3>3. c \in connected
      BY <3>1, SameTypes DEF HaltBusy, Owned
    <3>4. QED
      BY <3>1, <3>2, <3>3, IdleStatement DEF HaltBusy
  <2>3. QED
    BY <2>1, <2>2
<1>2. /\ vm' \in [Conn -> [Role -> Statement]] /\ Fewer(vm, vm')
      /\ \A d \in Conn \ {c} : vm'[d] = vm[d]
  BY <1>1, SameTypes, Closed
<1>3. QED
  BY <1>1, <1>2, SameTypes, SameCache

LEMMA EnterStep ==
  ASSUME ScInv, NEW c \in Conn, NEW r \in Role, NEW t \in Table, Enter(c, r, t)
  PROVE  ScInv' /\ Still(bt, bt')
<1> DEFINE i == InStatement(c, r, t)
           x == [at |-> "open", table |-> t, found |-> IF r = "write" THEN {bt.cache[t]} ELSE {},
                 dirty |-> r = "read" /\ readUncommitted[c]]
<1>1. /\ c \in connected /\ ~AnotherWrites(bt, c, r = "write") /\ CanLock(c, r, t)
      /\ bt' = i /\ vm' = [vm EXCEPT ![c][r] = x]
      /\ UNCHANGED <<connected, autoCommit, readUncommitted, disturbed>>
  BY DEF Enter, Starts, CanOpen
<1>2. /\ Consistent(i) /\ Kept(bt, i, c) /\ i.inTrans[c] # TRANS_NONE
      /\ r = "write" => i.locks[c][t] = WRITE_LOCK
      /\ r = "read" /\ ~readUncommitted[c] => i.locks[c][t] # NO_LOCK
  BY <1>1, Entering
<1>3. /\ x \in Statement /\ x.at = "open" /\ x.table = t
      /\ r = "read" /\ ~x.dirty => ~readUncommitted[c]
  BY SameTypes, Fields DEF Statement
<1> HIDE DEF i, x
<1>4. /\ vm' \in [Conn -> [Role -> Statement]]
      /\ \A d \in Conn, s \in Role : vm'[d][s] = IF d = c /\ s = r THEN x ELSE vm[d][s]
  BY <1>1, <1>3, SameTypes
<1>5. Served(i, vm)
  BY <1>2, SameTypes, ServedKept DEF Consistent
<1>6. Served(bt', vm')
  BY <1>1, <1>2, <1>3, <1>4, <1>5 DEF Served, Role
<1>7. Served(bt, vm)'
  BY <1>1, <1>6 DEF Served
<1>8. Consistent(bt)'
  BY <1>1, <1>2 DEF Consistent, LocksExclude, LocksInTrans, OneWriter, Counted, Changed, Saved,
     InTrans
<1>9. Owned'
  BY <1>1, <1>2, <1>4, SameTypes DEF Owned, Kept
<1>10. TypeRest'
  BY <1>1, <1>4, SameTypes DEF TypeRest
<1>11. QED
  BY <1>1, <1>2, <1>7, <1>8, <1>9, <1>10 DEF ScInv, Still, Kept

LEMMA WriteStep ==
  ASSUME ScInv, NEW c \in Conn, NEW content \in Value, Write(c, content)
  PROVE  ScInv' /\ Still(bt, bt')
<1> DEFINE t == vm[c]["write"].table
<1>1. /\ vm[c]["write"].at = "open" /\ bt' = WriteTable(bt, t, content)
      /\ UNCHANGED <<connected, autoCommit, readUncommitted, vm, disturbed>>
  BY DEF Write
<1>2. t \in Table
  BY SameTypes DEF Role, Statement
<1>3. bt.locks[c][t] = WRITE_LOCK
  BY <1>1 DEF ScInv, Served
<1> HIDE DEF t
<1>4. /\ Consistent(bt') /\ bt'.nRef = bt.nRef /\ bt'.locks = bt.locks /\ bt'.inTrans = bt.inTrans
      /\ \A s \in Table \ {t} : bt'.cache[s] = bt.cache[s]
  BY <1>1, <1>2, <1>3, SameTypes, WriteConsistent
<1>5. Served(bt, vm)' /\ Owned' /\ TypeRest'
  BY <1>1, <1>4 DEF ScInv, Served, Owned, TypeRest
<1>6. Consistent(bt)'
  BY <1>4 DEF Consistent, LocksExclude, LocksInTrans, OneWriter, Counted, Changed, Saved, InTrans
<1>7. Still(bt, bt')
  <2>1. bt.inTrans[c] = TRANS_WRITE
    BY <1>2, <1>3 DEF ScInv, Consistent, LocksInTrans
  <2>2. \A d \in Conn \ {c} : bt.locks[d][t] = NO_LOCK
    BY <1>2, <1>3 DEF ScInv, Consistent, LocksExclude
  <2>3. QED
    BY <1>4, <2>1, <2>2 DEF Still
<1>8. QED
  BY <1>5, <1>6, <1>7 DEF ScInv

LEMMA NextInv ==
  ASSUME ScInv, [ScNext]_vars
  PROVE  ScInv' /\ Still(bt, bt')
<1>1. CASE UNCHANGED vars
  <2>1. Fewer(vm, vm')
    BY <1>1 DEF Fewer, vars
  <2>2. QED
    BY <1>1, <2>1, SameTypes, SameCache DEF vars
<1>2. ASSUME NEW c \in Conn, Call(c)
      PROVE  ScInv' /\ Still(bt, bt')
  <2>1. CASE \E r \in Role : Abort(c, r)
    <3>1. PICK r \in Role : Abort(c, r)
      BY <2>1
    <3>2. c \in connected
      BY <3>1, SameTypes DEF Abort, Owned
    <3>3. QED
      BY <3>1, <3>2, SameTypes, AbortStep DEF Abort
  <2>2. CASE (\E t \in Table : Busy(c, t)) \/ \E r \in Role : HaltBusy(c, r)
    BY <2>2, BusyStep
  <2>3. CASE \E r \in Role, t \in Table : Enter(c, r, t) \/ Refused(c, r, t)
    BY <2>3, EnterStep, RefusedStep
  <2>4. QED
    BY <1>2, <2>1, <2>2, <2>3, OpenStep, CloseStep, PragmaStep, BeginStep, TransactionStep,
       EmptyStep, WriteStep, OrRollbackStep, HaltStep DEF Call
<1>3. QED
  BY <1>1, <1>2 DEF ScNext

----------------------------------------------------------------------------
\* The statement of the cache.  While no statement has ended in the middle of another's
\* writes, it is that of the one that is open, and the pager has what that one found.

\* No statement of the cache is in progress.
Quiet(b) == ~b.stmtInUse /\ ~b.inStmt /\ b.mark = NoMarks
\* The cache and the pager agree on whether one is.
Agreed(b) == (b.stmtInUse <=> b.inStmt) /\ (~b.stmtInUse => b.mark = NoMarks)

WriteOpen(c) == vm[c]["write"].at = "open"
FoundAgain(c) ==
  LET t == vm[c]["write"].table IN
  IF bt.mark[t] = "no" THEN vm[c]["write"].found = {bt.cache[t]}
  ELSE vm[c]["write"].found = bt.saved[t]
Recorded ==
  /\ Agreed(bt) /\ \A t \in Table : bt.mark[t] # "stale"
  /\ bt.inStmt => \E c \in Conn : WriteOpen(c) /\ ~autoCommit[c]
  /\ \A c \in Conn : WriteOpen(c) /\ ~autoCommit[c] => bt.inStmt /\ FoundAgain(c)
  /\ \A c \in Conn : WriteOpen(c) => \E x \in Value : vm[c]["write"].found = {x}

StmtInv ==
  /\ bt.inTransaction # TRANS_WRITE => Quiet(bt)
  /\ ~disturbed => Recorded

\* What the functions of btree.c do to a statement of the cache.
LEMMA LeaveStmt ==
  ASSUME NEW b, b \in Bt, NEW c \in Conn, NEW n, n = LeaveTrans(unlockAllTables(b, c), c)
  PROVE  n.stmtInUse = b.stmtInUse /\ n.inStmt = b.inStmt /\ n.mark = b.mark
<1> DEFINE l == unlockAllTables(b, c)
<1>1. l.stmtInUse = b.stmtInUse /\ l.inStmt = b.inStmt /\ l.mark = b.mark
      /\ n.stmtInUse = l.stmtInUse /\ n.inStmt = l.inStmt /\ n.mark = l.mark
  BY DEF Bt, LeaveTrans, unlockAllTables
<1>2. QED
  BY <1>1

LEMMA TransEndQuiet ==
  ASSUME NEW b, b \in Bt, NEW c \in Conn, NEW v,
         b.inTrans[c] # TRANS_NONE => b.nTransaction > 0,
         NEW n, n = BtreeCommit(b, c, v) \/ n = BtreeRollback(b, c, v),
         b.inTrans[c] = TRANS_WRITE \/ Quiet(b)
  PROVE  Quiet(n)
<1>1. CASE n = BtreeCommit(b, c, v)
  <2> DEFINE p == IF b.inTrans[c] = TRANS_WRITE
                  THEN [pager_stmt_commit(b) EXCEPT !.disk = b.cache, !.inStmt = FALSE,
                                                    !.journaled = NotJournaled] ELSE b
             l == LeaveTrans(unlockAllTables(p, c), c)
  <2>1. p \in Bt /\ Quiet(p)
    BY DEF Bt, pager_stmt_commit, NoMarks, NoneSaved, NotJournaled, Quiet
  <2>2. n = unlockBtreeIfUnused(l, v)
    BY <1>1 DEF BtreeCommit
  <2> HIDE DEF p
  <2>3. p.inTrans[c] # TRANS_NONE => p.nTransaction > 0
    BY DEF Bt, pager_stmt_commit, p
  <2>4. l \in Bt /\ Quiet(l)
    <3>1. l \in Bt
      BY <2>1, <2>3, LeaveFields
    <3>2. l.stmtInUse = p.stmtInUse /\ l.inStmt = p.inStmt /\ l.mark = p.mark
      BY <2>1, LeaveStmt
    <3>3. QED
      BY <2>1, <3>1, <3>2 DEF Quiet
  <2>5. QED
    BY <2>2, <2>4 DEF Bt, unlockBtreeIfUnused, Quiet
<1>2. CASE n = BtreeRollback(b, c, v)
  <2> DEFINE p == IF b.inTrans[c] = TRANS_WRITE
                  THEN [pager_stmt_commit(b) EXCEPT !.cache = b.disk, !.journaled = NotJournaled]
                  ELSE b
             k == LeaveTrans(unlockAllTables(p, c), c)
             l == [k EXCEPT !.inStmt = FALSE]
  <2>1. p \in Bt /\ ~p.stmtInUse /\ p.mark = NoMarks
    BY DEF Bt, pager_stmt_commit, NoMarks, NoneSaved, NotJournaled, Quiet
  <2>2. n = unlockBtreeIfUnused(l, v)
    BY <1>2 DEF BtreeRollback
  <2> HIDE DEF p
  <2>3. p.inTrans[c] # TRANS_NONE => p.nTransaction > 0
    BY DEF Bt, pager_stmt_commit, p
  <2>4. k \in Bt /\ ~k.stmtInUse /\ k.mark = NoMarks
    <3>1. k \in Bt
      BY <2>1, <2>3, LeaveFields
    <3>2. k.stmtInUse = p.stmtInUse /\ k.mark = p.mark
      BY <2>1, LeaveStmt
    <3>3. QED
      BY <2>1, <3>1, <3>2
  <2> HIDE DEF k
  <2>5. l \in Bt /\ Quiet(l)
    BY <2>4 DEF Bt, Quiet
  <2>6. QED
    BY <2>2, <2>5 DEF Bt, unlockBtreeIfUnused, Quiet
<1>3. QED
  BY <1>1, <1>2

LEMMA StmtEndQuiet ==
  ASSUME NEW b, b \in Bt, Agreed(b),
         NEW n, n = BtreeCommitStmt(b) \/ n = BtreeRollbackStmt(b)
  PROVE  Quiet(n)
<1>1. CASE ~b.inStmt
  BY <1>1 DEF Bt, BtreeCommitStmt, BtreeRollbackStmt, Agreed, Quiet
<1>2. CASE b.inStmt
  BY <1>2 DEF Bt, BtreeCommitStmt, BtreeRollbackStmt, pager_stmt_rollback, pager_stmt_commit, Quiet
<1>3. QED
  BY <1>1, <1>2

LEMMA BeginTransStmt ==
  ASSUME NEW b, b \in Bt, NEW c \in Conn, NEW wrflag \in BOOLEAN,
         NEW n, n = BeginTrans(b, c, wrflag)
  PROVE  /\ n.stmtInUse = b.stmtInUse /\ n.mark = b.mark /\ n.saved = b.saved
         /\ n.cache = b.cache
         /\ n.inStmt = b.inStmt \/ (wrflag /\ b.inTrans[c] # TRANS_WRITE /\ ~n.inStmt)
  BY DEF Bt, BeginTrans, NoOp

LEMMA LockStmt ==
  ASSUME NEW b, b \in Bt, NEW c \in Conn, NEW t \in Table, NEW e \in 1..2,
         NEW n, n = lockTable(b, c, t, e)
  PROVE  /\ n \in Bt /\ n.stmtInUse = b.stmtInUse /\ n.mark = b.mark /\ n.saved = b.saved
         /\ n.cache = b.cache /\ n.inStmt = b.inStmt /\ n.inTrans = b.inTrans
<1>1. CASE n = b
  BY <1>1
<1>2. CASE n = [b EXCEPT !.locks[c][t] = e]
  <2> DEFINE x == [b.locks EXCEPT ![c][t] = e]
  <2>1. x \in [Conn -> [Table -> 0..2]]
    BY Fields
  <2>2. n = [b EXCEPT !.locks = x]
    BY <1>2 DEF Bt
  <2> HIDE DEF x
  <2>3. QED
    BY <2>1, <2>2 DEF Bt
<1>3. QED
  BY <1>1, <1>2 DEF lockTable

LEMMA BeginStmtMarks ==
  ASSUME NEW b, b \in Bt, Quiet(b), NEW n, n = BtreeBeginStmt(b)
  PROVE  /\ n.stmtInUse /\ n.inStmt /\ n.mark = NoMarks
         /\ n.cache = b.cache
<1>1. n.stmtInUse /\ n.inStmt /\ n.cache = b.cache
      /\ n.mark = [t \in Table |-> IF b.mark[t] = "journal" THEN "stale" ELSE b.mark[t]]
  BY DEF Bt, BtreeBeginStmt, pager_stmt_begin
<1>2. QED
  BY <1>1 DEF Quiet, NoMarks

Same(b, n) ==
  /\ n.stmtInUse = b.stmtInUse /\ n.inStmt = b.inStmt /\ n.mark = b.mark
  /\ n.saved = b.saved /\ n.cache = b.cache

\* A statement of the virtual machine that is open for writing has the cache to itself.
LEMMA WriterAlone ==
  ASSUME ScInv, NEW c \in Conn, WriteOpen(c)
  PROVE  /\ bt.inTrans[c] = TRANS_WRITE /\ bt.inTransaction = TRANS_WRITE
         /\ \A d \in Conn : WriteOpen(d) => d = c
<1>1. \A d \in Conn : WriteOpen(d) => bt.inTrans[d] = TRANS_WRITE
  <2> SUFFICES ASSUME NEW d \in Conn, WriteOpen(d) PROVE bt.inTrans[d] = TRANS_WRITE
    OBVIOUS
  <2>1. vm[d]["write"].table \in Table
    BY SameTypes DEF Role, Statement
  <2>2. bt.locks[d][vm[d]["write"].table] = WRITE_LOCK
    BY SameTypes DEF Served, WriteOpen
  <2>3. QED
    BY <2>1, <2>2, SameTypes DEF Consistent, LocksInTrans
<1>2. QED
  BY <1>1, SameTypes DEF Consistent, OneWriter, Counted

LEMMA NobodyWrites ==
  ASSUME ScInv, Recorded, \A d \in Conn : ~WriteOpen(d)
  PROVE  Quiet(bt)
  BY DEF Recorded, Agreed, Quiet

LEMMA QuietRecorded ==
  ASSUME Quiet(bt'), \A d \in Conn : ~WriteOpen(d)'
  PROVE  Recorded'
<1>1. \A t \in Table : bt'.mark[t] = "no"
  BY DEF Quiet, NoMarks
<1>2. Agreed(bt)' /\ ~bt'.inStmt
  BY DEF Quiet, Agreed
<1>3. QED
  BY <1>1, <1>2 DEF Recorded

\* What a statement takes before it runs.
LEMMA TakenStmt ==
  ASSUME ScInv, StmtInv, NEW c \in Conn, NEW r \in Role, NEW t \in Table,
         ~AnotherWrites(bt, c, r = "write"),
         NEW m, \/ m = Begun(c, r) \/ m = Verified(c, r) \/ m = InStatement(c, r, t)
  PROVE  /\ r = "read" => Same(bt, m)
         /\ r = "write" => (Agreed(bt) => Agreed(m)) /\ m.inTrans[c] = TRANS_WRITE
         /\ r = "write" /\ Quiet(bt) /\ m = InStatement(c, r, t) =>
              /\ m.cache = bt.cache /\ m.mark = NoMarks
              /\ IF autoCommit[c] THEN Quiet(m) ELSE m.stmtInUse /\ m.inStmt
<1> DEFINE g == Begun(c, r)
           y == Verified(c, r)
           l == Locked(c, r, t)
           i == InStatement(c, r, t)
<1>b. bt \in Bt /\ Consistent(bt)
  BY SameTypes
<1>1. /\ g \in Bt /\ (r = "write" => g.inTrans[c] = TRANS_WRITE)
      /\ g.stmtInUse = bt.stmtInUse /\ g.mark = bt.mark /\ g.saved = bt.saved
      /\ g.cache = bt.cache
      /\ \/ g.inStmt = bt.inStmt
         \/ r = "write" /\ bt.inTrans[c] # TRANS_WRITE /\ ~g.inStmt
  <2> DEFINE wr == r = "write"
  <2>1. wr \in BOOLEAN /\ ~AnotherWrites(bt, c, wr) /\ g = BeginTrans(bt, c, wr)
    BY DEF Begun
  <2> HIDE DEF wr, g
  <2>2. Consistent(g) /\ (wr => g.inTrans[c] = TRANS_WRITE)
    BY <1>b, <2>1, BeginTransConsistent, Zenon
  <2>3. /\ g.stmtInUse = bt.stmtInUse /\ g.mark = bt.mark /\ g.saved = bt.saved
        /\ g.cache = bt.cache
        /\ g.inStmt = bt.inStmt \/ (wr /\ bt.inTrans[c] # TRANS_WRITE /\ ~g.inStmt)
    BY <1>b, <2>1, BeginTransStmt
  <2>4. QED
    BY <2>2, <2>3 DEF wr, Consistent
<1>2. r = "write" /\ bt.inTrans[c] # TRANS_WRITE => Quiet(bt)
  <2>1. r = "write" /\ bt.inTrans[c] # TRANS_WRITE => bt.inTransaction # TRANS_WRITE
    BY DEF AnotherWrites, NoOp
  <2>2. QED
    BY <2>1 DEF StmtInv
<1>3. y \in Bt /\ Same(g, y) /\ y.inTrans = g.inTrans
  <2>1. y = lockTable(g, c, MASTER_ROOT, READ_LOCK)
    BY DEF Verified
  <2> HIDE DEF g, y
  <2>2. QED
    BY <1>1, <2>1, LockStmt, SharedCacheSets DEF Same
<1>4. l \in Bt /\ Same(y, l) /\ l.inTrans = y.inTrans
  <2>1. PICK e \in 1..2 : e = Lock(r)
    BY DEF Lock
  <2>2. l = lockTable(y, c, t, e)
    BY <2>1 DEF Locked
  <2> HIDE DEF y, l
  <2>3. QED
    BY <1>3, <2>2, LockStmt DEF Same
<1>5. IF r = "write" /\ ~autoCommit[c] /\ ~l.inStmt THEN i = BtreeBeginStmt(l) ELSE i = l
  BY DEF InStatement
<1> HIDE DEF g, y, l, i
<1>6. /\ r = "read" => Same(bt, g) /\ Same(bt, y) /\ Same(bt, l) /\ Same(bt, i)
      /\ r = "write" => y.inTrans[c] = TRANS_WRITE /\ l.inTrans[c] = TRANS_WRITE
  BY <1>1, <1>3, <1>4, <1>5 DEF Same
<1>7. r = "write" => i.inTrans[c] = TRANS_WRITE
  <2>1. BtreeBeginStmt(l).inTrans = l.inTrans
    BY <1>4 DEF Bt, BtreeBeginStmt, pager_stmt_begin
  <2>2. QED
    BY <1>5, <1>6, <2>1
<1>8. r = "write" /\ Agreed(bt) => Agreed(g) /\ Agreed(y) /\ Agreed(l)
  BY <1>1, <1>2, <1>3, <1>4 DEF Same, Agreed, Quiet
<1>9. r = "write" /\ Agreed(bt) => Agreed(i)
  <2>1. Quiet(l) => Agreed(BtreeBeginStmt(l))
    BY <1>4, BeginStmtMarks DEF Agreed
  <2>2. QED
    BY <1>5, <1>8, <2>1 DEF Agreed, Quiet
<1>10. r = "write" /\ Quiet(bt) =>
         /\ i.cache = bt.cache /\ i.mark = NoMarks
         /\ IF autoCommit[c] THEN Quiet(i) ELSE i.stmtInUse /\ i.inStmt
  <2>1. r = "write" /\ Quiet(bt) => Quiet(l) /\ l.cache = bt.cache
    BY <1>1, <1>3, <1>4 DEF Same, Quiet
  <2>2. Quiet(l) => LET n == BtreeBeginStmt(l) IN
                    n.stmtInUse /\ n.inStmt /\ n.mark = NoMarks /\ n.cache = l.cache
    BY <1>4, BeginStmtMarks
  <2>3. QED
    BY <1>5, <2>1, <2>2 DEF Quiet
<1>11. m = g \/ m = y \/ m = i
  BY DEF g, y, i
<1>12. m = InStatement(c, r, t) => m = i
  BY DEF i
<1>13. QED
  BY <1>1, <1>6, <1>7, <1>8, <1>9, <1>10, <1>11, <1>12, r = "read" \/ r = "write" DEF Role

\* A statement, or a transaction, ends; m is what its handle took before.
LEMMA EndQuiet ==
  ASSUME ScInv, ScInv', StmtInv, NEW c \in Conn, NEW r, NEW m, Consistent(m), Kept(bt, m, c),
         Agreed(bt) => Agreed(m), Quiet(bt) /\ m.inTrans[c] # TRANS_WRITE => Quiet(m),
         NEW w, NEW n, Quiet(n) => Quiet(bt'), bt'.inTrans = n.inTrans,
         \/ n = BtreeCommit(m, c, w) \/ n = BtreeRollback(m, c, w)
         \/ n = BtreeCommitStmt(m) \/ n = BtreeRollbackStmt(m),
         Forget(c, r),
         \A d \in Conn : WriteOpen(d)' => WriteOpen(d) /\ (d # c \/ r # "write")
  PROVE  StmtInv'
<1>m. m \in Bt
  BY DEF Consistent
<1>1. \A d \in Conn : bt.inTrans[d] = TRANS_WRITE => m.inTrans[d] = TRANS_WRITE
  <2> SUFFICES ASSUME NEW d \in Conn, bt.inTrans[d] = TRANS_WRITE PROVE m.inTrans[d] = TRANS_WRITE
    OBVIOUS
  <2>1. m.inTrans[d] \in 0..2 /\ m.inTrans[d] >= bt.inTrans[d]
    BY <1>m, Fields DEF Kept
  <2>2. QED
    BY <2>1
<1>2. ASSUME n = BtreeCommit(m, c, w) \/ n = BtreeRollback(m, c, w)
      PROVE  /\ bt'.inTransaction # TRANS_WRITE => Quiet(bt')
             /\ Recorded /\ ~Disturbs(c, r) => Quiet(bt')
  <2>1. m.inTrans[c] # TRANS_NONE => m.nTransaction > 0
    BY CountPositive
  <2>2. \A d \in Conn \ {c} : n.inTrans[d] = m.inTrans[d]
    <3>1. Leaves(m, n, c)
      BY <1>m, <1>2, <2>1, CommitLeaves, RollbackLeaves
    <3>2. QED
      BY <1>m, <3>1, Fields DEF Leaves
  <2>3. m.inTrans[c] = TRANS_WRITE \/ Quiet(bt) => Quiet(bt')
    BY <1>m, <1>2, <2>1, TransEndQuiet
  <2>4. bt'.inTransaction # TRANS_WRITE => Quiet(bt')
    <3>1. SUFFICES ASSUME bt'.inTransaction # TRANS_WRITE, ~Quiet(bt) PROVE Quiet(bt')
      BY <2>3
    <3>2. PICK d \in Conn : bt.inTrans[d] = TRANS_WRITE
      BY <3>1, SameTypes DEF StmtInv, Consistent, Counted
    <3>3. bt'.inTrans[d] # TRANS_WRITE
      BY <3>1 DEF ScInv, Consistent, Counted
    <3>4. QED
      BY <1>1, <2>2, <2>3, <3>2, <3>3
  <2>5. Recorded /\ ~Disturbs(c, r) => Quiet(bt')
    <3>1. CASE WriteOpen(c)
      BY <1>1, <2>3, <3>1, WriterAlone
    <3>2. CASE ~WriteOpen(c)
      <4>1. ~Disturbs(c, r) => \A d \in Conn : ~WriteOpen(d)
        BY <3>2 DEF Disturbs, WriteOpen
      <4>2. QED
        BY <2>3, <4>1, NobodyWrites
    <3>3. QED
      BY <3>1, <3>2
  <2>6. QED
    BY <2>4, <2>5
<1>3. ASSUME n = BtreeCommitStmt(m) \/ n = BtreeRollbackStmt(m)
      PROVE  /\ bt'.inTransaction # TRANS_WRITE => Quiet(bt')
             /\ Recorded /\ ~Disturbs(c, r) => Quiet(bt')
  <2>1. n.inTrans = m.inTrans
    BY <1>3, CommitStmtConsistent, RollbackStmtConsistent DEF Ended
  <2>2. Agreed(bt) => Quiet(bt')
    BY <1>m, <1>3, StmtEndQuiet
  <2>3. bt'.inTransaction # TRANS_WRITE => Quiet(bt')
    <3>1. SUFFICES ASSUME bt'.inTransaction # TRANS_WRITE, ~Quiet(bt) PROVE Quiet(bt')
      BY <2>2 DEF Agreed, Quiet
    <3>2. PICK d \in Conn : bt.inTrans[d] = TRANS_WRITE
      BY <3>1, SameTypes DEF StmtInv, Consistent, Counted
    <3>3. bt'.inTrans[d] # TRANS_WRITE
      BY <3>1 DEF ScInv, Consistent, Counted
    <3>4. QED
      BY <1>1, <2>1, <3>2, <3>3
  <2>4. Recorded => Quiet(bt')
    BY <2>2 DEF Recorded
  <2>5. QED
    BY <2>3, <2>4
<1>4. /\ bt'.inTransaction # TRANS_WRITE => Quiet(bt')
      /\ Recorded /\ ~Disturbs(c, r) => Quiet(bt')
  BY <1>2, <1>3
<1>5. CASE bt'.inTransaction # TRANS_WRITE
  <2>1. \A d \in Conn : ~WriteOpen(d)'
    <3> SUFFICES ASSUME NEW d \in Conn, WriteOpen(d)' PROVE FALSE
      OBVIOUS
    <3>1. vm'[d]["write"].table \in Table
      BY DEF ScInv, TypeRest, Role, Statement
    <3>2. bt'.locks[d][vm'[d]["write"].table] = WRITE_LOCK
      BY DEF ScInv, Served, WriteOpen
    <3>3. bt'.inTrans[d] = TRANS_WRITE
      BY <3>1, <3>2 DEF ScInv, Consistent, LocksInTrans
    <3>4. QED
      BY <1>5, <3>3 DEF ScInv, Consistent, Counted
  <2>2. Recorded'
    BY <1>4, <1>5, <2>1, QuietRecorded
  <2>3. Quiet(bt)'
    BY <1>4, <1>5 DEF Quiet, NoMarks
  <2>4. QED
    BY <2>2, <2>3 DEF StmtInv
<1>6. CASE bt'.inTransaction = TRANS_WRITE
  <2>1. SUFFICES ASSUME ~disturbed' PROVE Recorded'
    BY <1>6 DEF StmtInv
  <2>2. ~disturbed /\ ~Disturbs(c, r)
    BY <1>6, <2>1 DEF Forget
  <2>3. Quiet(bt')
    BY <1>4, <2>2 DEF StmtInv
  <2>4. \A d \in Conn : ~WriteOpen(d)'
    BY <2>2 DEF Disturbs, WriteOpen
  <2>5. QED
    BY <2>3, <2>4, QuietRecorded
<1>7. QED
  BY <1>5, <1>6

\* The same, for a handle that takes nothing.
LEMMA EndQuietAtOnce ==
  ASSUME ScInv, ScInv', StmtInv, NEW c \in Conn, NEW r, NEW w, NEW n,
         Quiet(n) => Quiet(bt'), bt'.inTrans = n.inTrans,
         \/ n = BtreeCommit(bt, c, w) \/ n = BtreeRollback(bt, c, w)
         \/ n = BtreeCommitStmt(bt) \/ n = BtreeRollbackStmt(bt),
         Forget(c, r),
         \A d \in Conn : WriteOpen(d)' => WriteOpen(d) /\ (d # c \/ r # "write")
  PROVE  StmtInv'
<1>1. Consistent(bt) /\ Kept(bt, bt, c)
  BY SameTypes
<1>2. (Agreed(bt) => Agreed(bt)) /\ (Quiet(bt) /\ bt.inTrans[c] # TRANS_WRITE => Quiet(bt))
  OBVIOUS
<1>3. QED
  BY <1>1, <1>2, EndQuiet

LEMMA StmtInit == ScInit => StmtInv
<1> SUFFICES ASSUME ScInit PROVE StmtInv
  OBVIOUS
<1>1. Quiet(bt)
  BY DEF ScInit, Quiet, NoMarks
<1>2. \A c \in Conn : ~WriteOpen(c)
  BY DEF ScInit, WriteOpen, Role, Idle
<1>3. \A t \in Table : bt.mark[t] = "no"
  BY <1>1 DEF Quiet, NoMarks
<1>4. QED
  BY <1>1, <1>2, <1>3 DEF StmtInv, Recorded, Agreed, Quiet

\* The cache's statement, and what the writing statements note, stay as they are.
LEMMA SameStmt ==
  ASSUME StmtInv, Same(bt, bt'), bt'.inTransaction = bt.inTransaction \/ bt'.inTransaction # TRANS_WRITE,
         bt'.inTransaction # TRANS_WRITE => bt.inTransaction # TRANS_WRITE,
         \A c \in Conn : WriteOpen(c)' => vm'[c]["write"] = vm[c]["write"],
         \A c \in Conn : WriteOpen(c) /\ ~autoCommit[c] => WriteOpen(c)',
         \A c \in Conn : WriteOpen(c) => autoCommit'[c] = autoCommit[c],
         disturbed' = disturbed
  PROVE  StmtInv'
<1>1. \A c \in Conn : WriteOpen(c)' =>
        WriteOpen(c) /\ autoCommit'[c] = autoCommit[c] /\ vm'[c]["write"] = vm[c]["write"]
  BY DEF WriteOpen
<1>2. Quiet(bt)' <=> Quiet(bt)
  BY DEF Same, Quiet, NoMarks
<1>3. ASSUME Recorded PROVE Recorded'
  <2>1. Agreed(bt)' /\ \A t \in Table : bt'.mark[t] # "stale"
    BY <1>3 DEF Recorded, Same, Agreed, NoMarks
  <2>2. bt'.inStmt => \E c \in Conn : WriteOpen(c)' /\ ~autoCommit'[c]
    BY <1>3 DEF Recorded, Same
  <2>3. \A c \in Conn : WriteOpen(c)' /\ ~autoCommit'[c] => bt'.inStmt /\ FoundAgain(c)'
    BY <1>1, <1>3 DEF Recorded, Same, FoundAgain
  <2>4. \A c \in Conn : WriteOpen(c)' => \E x \in Value : vm'[c]["write"].found = {x}
    BY <1>1, <1>3 DEF Recorded
  <2>5. QED
    BY <2>1, <2>2, <2>3, <2>4 DEF Recorded
<1>4. QED
  BY <1>2, <1>3 DEF StmtInv

LEMMA AbortFromStmt ==
  ASSUME ScInv, ScInv', StmtInv, NEW c \in Conn, NEW r \in Role, NEW b, Consistent(b), Kept(bt, b, c),
         Agreed(bt) => Agreed(b), Quiet(bt) /\ b.inTrans[c] # TRANS_WRITE => Quiet(b),
         AbortFrom(c, r, b)
  PROVE  StmtInv'
<1>1. /\ vm' = [vm EXCEPT ![c][r] = Idle] /\ Forget(c, r)
      /\ bt' = BtreeRollback(b, c, vm') \/ bt' = BtreeRollbackStmt(b)
  BY DEF AbortFrom
<1>2. \A d \in Conn : WriteOpen(d)' => WriteOpen(d) /\ (d # c \/ r # "write")
  BY <1>1, SameTypes DEF WriteOpen, Role, Idle
<1>3. QED
  BY <1>1, <1>2, EndQuiet

LEMMA CloseStmt ==
  ASSUME ScInv, ScInv', StmtInv, NEW c \in Conn, Close(c)
  PROVE  StmtInv'
<1> DEFINE n == BtreeRollback(bt, c, vm)
<1>1. /\ bt' = [n EXCEPT !.nRef = n.nRef - 1] /\ Forget(c, "none") /\ vm' = vm
      /\ \A r \in Role : vm[c][r].at = "idle"
  BY DEF Close, Active
<1>2. n \in Bt
  BY <1>1, SameTypes, TransEnds DEF Consistent
<1> HIDE DEF n
<1>3. (Quiet(n) => Quiet(bt')) /\ bt'.inTrans = n.inTrans
  BY <1>1, <1>2 DEF Bt, Quiet
<1>4. n = BtreeRollback(bt, c, vm)
  BY DEF n
<1>5. PICK r : r = "none"
  OBVIOUS
<1>6. Forget(c, r) /\ \A d \in Conn : WriteOpen(d)' => WriteOpen(d) /\ (d # c \/ r # "write")
  BY <1>1, <1>5 DEF WriteOpen
<1>7. QED
  BY <1>3, <1>4, <1>6, EndQuietAtOnce

\* BEGIN, COMMIT, ROLLBACK, and the ends of statements, from the cache as it is.
LEMMA EndStmt ==
  ASSUME ScInv, ScInv', StmtInv, NEW c \in Conn,
         \/ Begin(c) \/ Commit(c) \/ Rollback(c) \/ HaltEmpty(c) \/ RefusedAutoCommit(c)
         \/ OrRollback(c) \/ \E r \in Role : Halt(c, r) \/ Abort(c, r)
  PROVE  StmtInv'
<1>1. CASE Begin(c) \/ Commit(c) \/ Rollback(c) \/ HaltEmpty(c) \/ RefusedAutoCommit(c)
  <2>1. /\ Forget(c, "none") /\ vm' = vm
        /\ \/ bt' = BtreeCommit(bt, c, vm) \/ bt' = BtreeRollback(bt, c, vm)
           \/ bt' = BtreeCommitStmt(bt) \/ bt' = BtreeRollbackStmt(bt)
    BY <1>1 DEF Begin, Commit, Rollback, HaltEmpty, RefusedAutoCommit
  <2>2. PICK r : r = "none"
    OBVIOUS
  <2>3. Forget(c, r) /\ \A d \in Conn : WriteOpen(d)' => WriteOpen(d) /\ (d # c \/ r # "write")
    BY <2>1, <2>2 DEF WriteOpen
  <2>4. QED
    BY <2>1, <2>3, EndQuietAtOnce
<1>2. CASE OrRollback(c)
  <2>1. /\ Forget(c, "write") /\ bt' = BtreeRollback(bt, c, vm')
        /\ \A d \in Conn : WriteOpen(d)' => WriteOpen(d) /\ (d # c \/ "write" # "write")
    BY <1>2, SameTypes DEF OrRollback, WriteOpen, Role, Idle
  <2>2. QED
    BY <2>1, EndQuietAtOnce
<1>3. ASSUME NEW r \in Role, Halt(c, r) PROVE StmtInv'
  <2>1. /\ vm' = [vm EXCEPT ![c][r] = Idle] /\ Forget(c, r)
        /\ bt' = BtreeCommit(bt, c, vm') \/ bt' = BtreeCommitStmt(bt)
    BY <1>3 DEF Halt
  <2>2. \A d \in Conn : WriteOpen(d)' => WriteOpen(d) /\ (d # c \/ r # "write")
    BY <2>1, SameTypes DEF WriteOpen, Role, Idle
  <2>3. QED
    BY <2>1, <2>2, EndQuietAtOnce
<1>4. ASSUME NEW r \in Role, Abort(c, r) PROVE StmtInv'
  BY <1>4, SameTypes, AbortFromStmt DEF Abort
<1>5. QED
  BY <1>1, <1>2, <1>3, <1>4

LEMMA RefusedStmt ==
  ASSUME ScInv, ScInv', StmtInv, NEW c \in Conn, NEW r \in Role, NEW t \in Table, Refused(c, r, t)
  PROVE  StmtInv'
<1>1. ~AnotherWrites(bt, c, r = "write")
  BY DEF Refused
<1>2. PICK b : AbortFrom(c, r, b) /\ \/ b = Begun(c, r)
                                     \/ CanVerify(c, r) /\ b = Verified(c, r)
                                     \/ CanLock(c, r, t) /\ b = InStatement(c, r, t)
  BY DEF Refused
<1>3. Consistent(b) /\ Kept(bt, b, c)
  BY <1>1, <1>2, Entering
<1>4. /\ r = "read" => Same(bt, b)
      /\ r = "write" => (Agreed(bt) => Agreed(b)) /\ b.inTrans[c] = TRANS_WRITE
  BY <1>1, <1>2, TakenStmt
<1>5. (Agreed(bt) => Agreed(b)) /\ (Quiet(bt) /\ b.inTrans[c] # TRANS_WRITE => Quiet(b))
  BY <1>4, r = "read" \/ r = "write" DEF Same, Agreed, Quiet, Role
<1>6. QED
  BY <1>2, <1>3, <1>5, AbortFromStmt

LEMMA EnterStmt ==
  ASSUME ScInv, ScInv', StmtInv, NEW c \in Conn, NEW r \in Role, NEW t \in Table, Enter(c, r, t)
  PROVE  StmtInv'
<1> DEFINE x == [at |-> "open", table |-> t, found |-> IF r = "write" THEN {bt.cache[t]} ELSE {},
                 dirty |-> r = "read" /\ readUncommitted[c]]
<1>1. /\ vm[c][r].at # "open" /\ ~AnotherWrites(bt, c, r = "write") /\ CanLock(c, r, t)
      /\ bt' = InStatement(c, r, t) /\ vm' = [vm EXCEPT ![c][r] = x]
      /\ UNCHANGED <<connected, autoCommit, readUncommitted, disturbed>>
  BY DEF Enter, Starts, CanOpen
<1>2. /\ Kept(bt, bt', c)
      /\ r = "write" => bt'.locks[c][t] = WRITE_LOCK
  BY <1>1, Entering
<1>3. \A d \in Conn, s \in Role : vm'[d][s] = IF d = c /\ s = r THEN x ELSE vm[d][s]
  BY <1>1, SameTypes
<1>4. CASE r = "read"
  <2>1. Same(bt, bt')
    BY <1>1, <1>4, TakenStmt
  <2>2. \A d \in Conn : vm'[d]["write"] = vm[d]["write"]
    BY <1>3, <1>4 DEF Role
  <2>3. bt'.inTrans = bt.inTrans \/ bt'.inTrans = [bt.inTrans EXCEPT ![c] = TRANS_READ]
    <3>1. bt.inTrans[c] = TRANS_NONE \/ NoOp(bt, c, FALSE)
      BY SameTypes, Fields, bt.inTrans[c] \in 0..2 DEF NoOp
    <3>2. Begun(c, r).inTrans = bt.inTrans \/ Begun(c, r).inTrans = [bt.inTrans EXCEPT ![c] = TRANS_READ]
      BY <1>4, SameTypes DEF Begun, BeginTrans, Bt
    <3>3. bt'.inTrans = Begun(c, r).inTrans
      <4> DEFINE g == Begun(c, r)
                 y == Verified(c, r)
                 l == Locked(c, r, t)
      <4>1. g \in Bt
        BY <1>1, Entering DEF Consistent
      <4>2. y = lockTable(g, c, MASTER_ROOT, READ_LOCK) /\ l = lockTable(y, c, t, READ_LOCK)
        BY <1>4 DEF Verified, Locked, Lock
      <4>3. bt' = l
        BY <1>1, <1>4 DEF InStatement
      <4> HIDE DEF g, y, l
      <4>4. y \in Bt /\ y.inTrans = g.inTrans
        BY <4>1, <4>2, LockStmt, SharedCacheSets
      <4>5. l.inTrans = y.inTrans
        BY <4>2, <4>4, LockStmt
      <4>6. QED
        BY <4>3, <4>4, <4>5 DEF g
    <3>4. QED
      BY <3>2, <3>3
  <2>4. bt.inTrans[c] = TRANS_WRITE <=> bt'.inTrans[c] = TRANS_WRITE
    <3>1. bt'.inTrans[c] \in 0..2 /\ bt.inTrans[c] \in 0..2 /\ bt'.inTrans[c] >= bt.inTrans[c]
      BY <1>2, SameTypes, Fields DEF Kept, ScInv, Consistent
    <3>2. QED
      BY <2>3, <3>1, SameTypes, Fields
  <2>5. bt'.inTransaction = TRANS_WRITE <=> bt.inTransaction = TRANS_WRITE
    <3>1. \A d \in Conn : bt'.inTrans[d] = TRANS_WRITE <=> bt.inTrans[d] = TRANS_WRITE
      BY <1>2, <2>4 DEF Kept
    <3>2. bt'.inTransaction = TRANS_WRITE <=> \E d \in Conn : bt'.inTrans[d] = TRANS_WRITE
      BY DEF ScInv, Consistent, Counted
    <3>3. bt.inTransaction = TRANS_WRITE <=> \E d \in Conn : bt.inTrans[d] = TRANS_WRITE
      BY DEF ScInv, Consistent, Counted
    <3>4. QED
      BY <3>1, <3>2, <3>3
  <2>6. QED
    BY <1>1, <2>1, <2>2, <2>5, SameStmt DEF WriteOpen
<1>5. CASE r = "write"
  <2>1. \A d \in Conn : ~WriteOpen(d)
    <3> SUFFICES ASSUME NEW d \in Conn, WriteOpen(d) PROVE FALSE
      OBVIOUS
    <3>1. d # c
      BY <1>1, <1>5 DEF WriteOpen
    <3>2. bt.inTransaction = TRANS_WRITE /\ bt.inTrans[c] # TRANS_WRITE
      BY <3>1, WriterAlone, SameTypes DEF Consistent, OneWriter
    <3>3. QED
      BY <1>1, <1>5, <3>2 DEF AnotherWrites, NoOp
  <2>2. bt'.inTransaction = TRANS_WRITE
    BY <1>2, <1>5 DEF ScInv, Consistent, LocksInTrans, Counted
  <2>3. ~disturbed => Quiet(bt)
    BY <2>1, NobodyWrites DEF StmtInv
  <2>4. ASSUME ~disturbed' PROVE Recorded'
    <3>1. Quiet(bt)
      BY <1>1, <2>3, <2>4
    <3>2. /\ bt'.cache = bt.cache /\ bt'.mark = NoMarks
          /\ IF autoCommit[c] THEN Quiet(bt') ELSE bt'.stmtInUse /\ bt'.inStmt
      BY <1>1, <1>5, <3>1, TakenStmt
    <3>3. \A u \in Table : bt'.mark[u] = "no"
      BY <3>2 DEF NoMarks
    <3>4. \A d \in Conn : WriteOpen(d)' <=> d = c
      BY <1>3, <1>5, <2>1 DEF WriteOpen, Role
    <3>5. vm'[c]["write"].table = t /\ vm'[c]["write"].found = {bt.cache[t]} /\ bt.cache[t] \in Value
      BY <1>3, <1>5, SameTypes, Fields DEF Role
    <3>6. Agreed(bt)'
      BY <3>2 DEF Agreed, Quiet
    <3>7. bt'.inStmt => ~autoCommit'[c]
      BY <1>1, <3>2 DEF Quiet
    <3>8. ~autoCommit'[c] => bt'.inStmt
      BY <1>1, <3>2
    <3>9. FoundAgain(c)'
      BY <3>2, <3>3, <3>5 DEF FoundAgain
    <3>10. QED
      BY <3>3, <3>4, <3>5, <3>6, <3>7, <3>8, <3>9 DEF Recorded
  <2>5. QED
    BY <2>2, <2>4 DEF StmtInv
<1>6. QED
  BY <1>4, <1>5 DEF Role

LEMMA WriteStmt ==
  ASSUME ScInv, StmtInv, NEW c \in Conn, NEW content \in Value, Write(c, content)
  PROVE  StmtInv'
<1> DEFINE t == vm[c]["write"].table
<1>1. /\ WriteOpen(c) /\ bt' = WriteTable(bt, t, content) /\ bt.inTransaction = TRANS_WRITE
      /\ UNCHANGED <<connected, autoCommit, readUncommitted, vm, disturbed>>
  BY DEF Write, WriteOpen
<1>2. t \in Table
  BY SameTypes DEF Role, Statement
<1>3. /\ bt'.inTransaction = bt.inTransaction /\ bt'.stmtInUse = bt.stmtInUse
      /\ bt'.inStmt = bt.inStmt
      /\ bt'.mark = [bt.mark EXCEPT ![t] = IF bt.mark[t] = "no" /\ bt.stmtInUse
                       THEN IF bt.journaled[t] THEN "stmt" ELSE "journal" ELSE bt.mark[t]]
      /\ bt'.saved = [bt.saved EXCEPT ![t] = IF bt.mark[t] = "no" /\ bt.stmtInUse THEN {bt.cache[t]}
                                             ELSE bt.saved[t]]
  <2> HIDE DEF t
  <2>1. QED
    BY <1>1, SameTypes DEF Bt, WriteTable
<1> HIDE DEF t
<1>4. bt.mark \in [Table -> {"no", "journal", "stmt", "stale"}] /\ bt.saved \in [Table -> SUBSET Value]
  BY SameTypes, Fields
<1>5. \A d \in Conn : WriteOpen(d) => d = c
  BY <1>1, WriterAlone
<1>6. ASSUME ~disturbed PROVE Recorded'
  <2>1. Recorded
    BY <1>6 DEF StmtInv
  <2>2. ~bt.stmtInUse => bt'.mark = bt.mark
    BY <1>3, <1>4
  <2>3. Agreed(bt)'
    BY <1>3, <2>1, <2>2 DEF Recorded, Agreed, NoMarks
  <2>4. \A u \in Table : bt'.mark[u] # "stale"
    BY <1>3, <1>4, <2>1 DEF Recorded
  <2>5. ~autoCommit[c] => bt'.inStmt /\ FoundAgain(c)'
    <3> SUFFICES ASSUME ~autoCommit[c] PROVE bt'.inStmt /\ FoundAgain(c)'
      OBVIOUS
    <3>1. bt.inStmt /\ FoundAgain(c) /\ bt.stmtInUse
      BY <1>1, <2>1 DEF Recorded, Agreed
    <3>2. bt'.mark[t] # "no" /\ bt'.saved[t] = IF bt.mark[t] = "no" THEN {bt.cache[t]} ELSE bt.saved[t]
      BY <1>2, <1>3, <1>4, <3>1
    <3>3. vm'[c]["write"] = vm[c]["write"] /\ vm[c]["write"].table = t
      BY <1>1 DEF t
    <3>4. QED
      <4>1. vm[c]["write"].found = IF bt.mark[t] = "no" THEN {bt.cache[t]} ELSE bt.saved[t]
        BY <3>1, <3>3 DEF FoundAgain
      <4>2. vm'[c]["write"].found = bt'.saved[t]
        BY <3>2, <3>3, <4>1
      <4>3. FoundAgain(c)'
        BY <3>2, <3>3, <4>2 DEF FoundAgain
      <4>4. QED
        BY <1>3, <3>1, <4>3
  <2>6. \A d \in Conn : WriteOpen(d)' <=> WriteOpen(d)
    BY <1>1 DEF WriteOpen
  <2>7. bt'.inStmt => \E d \in Conn : WriteOpen(d)' /\ ~autoCommit'[d]
    BY <1>1, <1>3, <2>1, <2>6 DEF Recorded
  <2>8. \A d \in Conn : WriteOpen(d)' /\ ~autoCommit'[d] => bt'.inStmt /\ FoundAgain(d)'
    BY <1>1, <1>5, <2>5, <2>6
  <2>9. \A d \in Conn : WriteOpen(d)' => \E x \in Value : vm'[d]["write"].found = {x}
    BY <1>1, <2>1, <2>6 DEF Recorded
  <2>10. QED
    BY <2>3, <2>4, <2>7, <2>8, <2>9 DEF Recorded
<1>7. QED
  BY <1>1, <1>3, <1>6 DEF StmtInv

\* Nothing is done to the cache but a handle is added to it, and no writer comes or goes.
LEMMA IdleStmt ==
  ASSUME ScInv, StmtInv, NEW c \in Conn,
         \/ Open(c) \/ SetReadUncommitted(c)
         \/ (\E t \in Table : Busy(c, t)) \/ \E r \in Role : HaltBusy(c, r)
  PROVE  StmtInv'
<1>1. Same(bt, bt') /\ bt'.inTransaction = bt.inTransaction
  BY SameTypes DEF Open, SetReadUncommitted, Busy, HaltBusy, Same, Bt
<1>2. autoCommit' = autoCommit /\ disturbed' = disturbed
  BY DEF Open, SetReadUncommitted, Busy, HaltBusy
<1>3. CASE Open(c) \/ SetReadUncommitted(c)
  <2>1. vm' = vm
    BY <1>3 DEF Open, SetReadUncommitted
  <2>2. QED
    BY <1>1, <1>2, <2>1, SameStmt DEF WriteOpen
<1>4. ASSUME NEW t \in Table, Busy(c, t) PROVE StmtInv'
  <2>1. \A d \in Conn : /\ WriteOpen(d)' => vm'[d]["write"] = vm[d]["write"]
                        /\ WriteOpen(d) => WriteOpen(d)'
    BY <1>4, SameTypes DEF Busy, Starts, WriteOpen, Role, Idle
  <2>2. QED
    BY <1>1, <1>2, <2>1, SameStmt
<1>5. ASSUME NEW r \in Role, HaltBusy(c, r) PROVE StmtInv'
  <2>1. \A d \in Conn : /\ WriteOpen(d)' => vm'[d]["write"] = vm[d]["write"]
                        /\ WriteOpen(d) /\ ~autoCommit[d] => WriteOpen(d)'
    BY <1>5, SameTypes DEF HaltBusy, OnlyOne, WriteOpen, Role, Idle
  <2>2. QED
    BY <1>1, <1>2, <2>1, SameStmt
<1>6. QED
  BY <1>3, <1>4, <1>5

LEMMA StmtNext ==
  ASSUME ScInv, StmtInv, [ScNext]_vars
  PROVE  StmtInv'
<1>0. ScInv'
  BY NextInv
<1>1. CASE UNCHANGED vars
  <2>1. Same(bt, bt') /\ vm' = vm /\ autoCommit' = autoCommit /\ disturbed' = disturbed /\ bt' = bt
    BY <1>1 DEF vars, Same
  <2>2. QED
    BY <2>1, SameStmt DEF WriteOpen
<1>2. ASSUME NEW c \in Conn, Call(c) PROVE StmtInv'
  <2>1. CASE \/ Open(c) \/ SetReadUncommitted(c)
             \/ (\E t \in Table : Busy(c, t)) \/ \E r \in Role : HaltBusy(c, r)
    BY <2>1, IdleStmt
  <2>2. CASE \/ Begin(c) \/ Commit(c) \/ Rollback(c) \/ HaltEmpty(c) \/ RefusedAutoCommit(c)
             \/ OrRollback(c) \/ \E r \in Role : Halt(c, r) \/ Abort(c, r)
    BY <1>0, <2>2, EndStmt
  <2>3. CASE \E r \in Role, t \in Table : Enter(c, r, t) \/ Refused(c, r, t)
    BY <1>0, <2>3, EnterStmt, RefusedStmt
  <2>4. CASE Close(c)
    BY <1>0, <2>4, CloseStmt
  <2>5. CASE \E content \in Value : Write(c, content)
    BY <2>5, WriteStmt
  <2>6. QED
    BY <1>2, <2>1, <2>2, <2>3, <2>4, <2>5 DEF Call
<1>3. QED
  BY <1>1, <1>2 DEF ScNext

\* The rollback of the cache's statement finds what the statement's table was.
LEMMA RolledBack ==
  ASSUME ScInv, StmtInv, ~disturbed, NEW c \in Conn, WriteOpen(c), ~autoCommit[c],
         NEW n, n = BtreeRollbackStmt(bt)
  PROVE  vm[c]["write"].found = {n.cache[vm[c]["write"].table]}
<1> DEFINE t == vm[c]["write"].table
<1>1. t \in Table
  BY SameTypes DEF Role, Statement
<1>2. PICK x \in Value : vm[c]["write"].found = {x}
  BY DEF StmtInv, Recorded
<1>3. bt.inStmt /\ FoundAgain(c) /\ bt.mark[t] \in {"no", "journal", "stmt"}
  BY <1>1, SameTypes, Fields DEF StmtInv, Recorded
<1>4. n.cache = [u \in Table |-> IF bt.mark[u] \in {"journal", "stmt"}
                                 THEN CHOOSE v \in Value : v \in bt.saved[u] ELSE bt.cache[u]]
  BY <1>3, SameTypes DEF BtreeRollbackStmt, pager_stmt_rollback, pager_stmt_commit, Bt
<1>5. n.cache[t] = IF bt.mark[t] = "no" THEN bt.cache[t] ELSE CHOOSE v \in Value : v \in bt.saved[t]
  BY <1>1, <1>3, <1>4
<1>6. CASE bt.mark[t] = "no"
  BY <1>3, <1>5, <1>6 DEF FoundAgain
<1>7. CASE bt.mark[t] # "no"
  <2>1. bt.saved[t] = {x}
    BY <1>2, <1>3, <1>7 DEF FoundAgain
  <2>2. (CHOOSE v \in Value : v \in {x}) = x
    OBVIOUS
  <2>3. QED
    BY <1>2, <1>5, <1>7, <2>1, <2>2
<1>8. QED
  BY <1>6, <1>7

----------------------------------------------------------------------------
\* Theorems.

\* The invariant.
THEOREM SharedCacheInv == ScSpec => []ScInv
<1>1. ScInit => ScInv
  BY InitInv
<1>2. ScInv /\ [ScNext]_vars => ScInv'
  BY NextInv
<1>3. QED
  BY <1>1, <1>2, PTL DEF ScSpec

\* Types, and the caches' fields keep their ranges through every call of btree.c.
THEOREM SharedCacheTypes == ScSpec => []ScTypeOK
<1>1. ScInv => ScTypeOK
  BY DEF ScInv, ScTypeOK, TypeRest, Consistent
<1>2. QED
  BY <1>1, SharedCacheInv, PTL

\* No connection that did not ask for it reads what another one has not committed.
THEOREM ReadsCommitted == ScSpec => []NoDirtyRead
<1>1. ScInv => NoDirtyRead
  <2> SUFFICES ASSUME ScInv, NEW c \in Conn, vm[c]["read"].at = "open", ~vm[c]["read"].dirty,
                      bt.cache[vm[c]["read"].table] # bt.disk[vm[c]["read"].table]
               PROVE  bt.inTrans[c] = TRANS_WRITE
    BY DEF NoDirtyRead
  <2> DEFINE t == vm[c]["read"].table
  <2>1. t \in Table
    BY SameTypes DEF Role, Statement
  <2>2. bt.locks[c][t] # NO_LOCK
    BY SameTypes DEF Served
  <2>3. PICK d \in Conn : bt.locks[d][t] = WRITE_LOCK
    BY <2>1, SameTypes DEF Consistent, Changed
  <2>4. d = c
    BY <2>1, <2>2, <2>3, SameTypes DEF Consistent, LocksExclude
  <2>5. QED
    BY <2>1, <2>3, <2>4, SameTypes DEF Consistent, LocksInTrans
<1>2. QED
  BY <1>1, SharedCacheInv, PTL

\* The counts of BtShared are those of its handles.
THEOREM SharedCounts == ScSpec => []CountsAgree
<1>1. ScInv => CountsAgree
  <2> SUFFICES ASSUME ScInv PROVE CountsAgree
    OBVIOUS
  <2>1. \A c \in Conn : bt.inTrans[c] # TRANS_NONE => c \in connected /\ bt.inTransaction # TRANS_NONE
    BY DEF ScInv, Owned, Consistent, Counted, InTrans
  <2>2. \A c \in Conn, t \in Table : bt.inTrans[c] = TRANS_NONE => bt.locks[c][t] = NO_LOCK
    BY DEF ScInv, Consistent, LocksInTrans
  <2>3. QED
    BY <2>1, <2>2 DEF ScInv, Owned, Consistent, Counted, InTrans, OneWriter, CountsAgree
<1>2. QED
  BY <1>1, SharedCacheInv, PTL

\* The lock on the file is held while it is needed, and no longer.
THEOREM LockOnFile == ScSpec => []FileLockHeld
<1>1. ScInv => FileLockHeld
  <2> SUFFICES ASSUME ScInv PROVE FileLockHeld
    OBVIOUS
  <2>1. Cursors(vm) # {} => bt.inTransaction # TRANS_NONE
    <3> SUFFICES ASSUME NEW c \in Conn, NEW r \in Role, vm[c][r].at = "open"
                 PROVE  bt.inTransaction # TRANS_NONE
      BY DEF Cursors
    <3>1. bt.inTrans[c] # TRANS_NONE
      BY SameTypes DEF Served
    <3>2. QED
      BY <3>1, SameTypes DEF Consistent, Counted, InTrans
  <2>2. QED
    BY <2>1, SameTypes DEF Consistent, Counted, FileLockHeld
<1>2. QED
  BY <1>1, SharedCacheInv, PTL

\* A table that a handle which does not write has locked stays as it is.
THEOREM LockedTableStays == ScSpec => StableRead
<1>1. ScInv /\ [ScNext]_vars =>
        [\A c \in Conn, t \in Table :
           bt.locks[c][t] # NO_LOCK /\ bt'.locks[c][t] # NO_LOCK /\ bt'.inTrans[c] # TRANS_WRITE
             => bt'.cache[t] = bt.cache[t]]_vars
  BY NextInv DEF Still
<1>2. QED
  BY <1>1, SharedCacheInv, PTL DEF ScSpec, StableRead

\* A statement of BEGIN ... COMMIT that fails leaves its table as it found it, unless
\* another statement has ended in the middle of its writes.
THEOREM FailedStatementUndone == ScSpec => StatementUndone
<1>1. ScInit => ScInv /\ StmtInv
  BY InitInv, StmtInit
<1>2. ScInv /\ StmtInv /\ [ScNext]_vars => ScInv' /\ StmtInv'
  BY NextInv, StmtNext
<1>3. ScInv /\ StmtInv /\ [ScNext]_vars =>
        [\A c \in Conn : Abort(c, "write") /\ ~autoCommit[c] /\ ~disturbed => Undone(c)]_vars
  <2> SUFFICES ASSUME ScInv, StmtInv, NEW c \in Conn, Abort(c, "write"), ~autoCommit[c], ~disturbed
               PROVE  Undone(c)
    OBVIOUS
  <2>1. bt' = BtreeRollbackStmt(bt)
    BY DEF Abort, AbortFrom, OnlyOne
  <2>2. QED
    BY <2>1, RolledBack DEF Undone, WriteOpen
<1>4. QED
  BY <1>1, <1>2, <1>3, PTL DEF ScSpec, StatementUndone
=============================================================================
