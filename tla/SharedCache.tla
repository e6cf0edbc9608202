----------------------------- MODULE SharedCache -----------------------------
(***************************************************************************)
(* Connections of one thread that share a page cache: the Btree handles,   *)
(* their BtShared with its list of table locks (btree.c), and what the end *)
(* of an SQL statement does to them (sqlite3VdbeHalt, vdbeaux.c).  A       *)
(* statement is suspended whenever it returns a row or calls a function of *)
(* the program, and the statements of the other connections, and another   *)
(* one of its own, run in between.  A step is what happens between two     *)
(* such points; the operators on `bt` are the functions of btree.c.        *)
(*                                                                         *)
(* Each connection has at most one reading and one writing statement, of   *)
(* one table each.  A table's content is a value.  Out of the model: I/O   *)
(* errors and failing allocations, read-only files, ATTACH, DROP TABLE.    *)
(***************************************************************************)
EXTENDS Integers, FiniteSets

CONSTANTS Conn,         \* connections (sqlite3) that may open the file
          Table,        \* root pages
          MASTER_ROOT,  \* the table sqlite_master
          Value         \* contents of a table

ASSUME SharedCacheSets ==
  IsFiniteSet(Conn) /\ MASTER_ROOT \in Table /\ Value # {}

TRANS_NONE == 0
TRANS_READ == 1
TRANS_WRITE == 2
NO_LOCK == 0
READ_LOCK == 1
WRITE_LOCK == 2

Role == {"read", "write"}

VARIABLES
  bt,              \* BtShared, its handles and its pager: see Bt
  connected,       \* connections that are open
  autoCommit,      \* sqlite3.autoCommit
  readUncommitted, \* SQLITE_ReadUncommitted of sqlite3.flags
  vm,              \* the statements of each connection
  disturbed        \* history: in this transaction a statement ended in the middle of another

vars == <<bt, connected, autoCommit, readUncommitted, vm, disturbed>>

\* A statement: "idle", "begun" but refused with SQLITE_BUSY, "open" with its cursor,
\* "done" and refused the commit, or "aborted" by the rollback of another one.
\* What its table held at first is noted of one that writes, and of one that reads
\* whether uncommitted data was asked for by then.
Statement == [at : {"idle", "begun", "open", "done", "aborted"}, table : Table,
              found : SUBSET Value, dirty : BOOLEAN]
Idle == [at |-> "idle", table |-> MASTER_ROOT, found |-> {}, dirty |-> FALSE]

\* The locks, as a function: BtShared.pLock has one entry for a handle and a table.
Bt == [locks : [Conn -> [Table -> NO_LOCK..WRITE_LOCK]],
       inTrans : [Conn -> TRANS_NONE..TRANS_WRITE],   \* of the handles
       inTransaction : TRANS_NONE..TRANS_WRITE, nTransaction : Nat, nRef : Nat,
       inStmt : BOOLEAN, page1 : BOOLEAN,             \* pPage1, which holds the file's lock
       cache : [Table -> Value], disk : [Table -> Value],
       stmtInUse : BOOLEAN,                           \* of the pager
       \* where the statement's rollback finds a table: nowhere, in the rollback journal,
       \* in the statement journal, or no longer, in a part of it that is not read
       mark : [Table -> {"no", "journal", "stmt", "stale"}],
       journaled : [Table -> BOOLEAN],                \* it is in the rollback journal
       saved : [Table -> SUBSET Value]]               \* what it was, if marked

Active(v, c) == {r \in Role : v[c][r].at # "idle"}
Cursors(v) == {x \in Conn \X Role : v[x[1]][x[2]].at = "open"}

ScInit ==
  /\ \E content \in [Table -> Value] :
       bt = [locks |-> [c \in Conn |-> [t \in Table |-> NO_LOCK]],
             inTrans |-> [c \in Conn |-> TRANS_NONE],
             inTransaction |-> TRANS_NONE, nTransaction |-> 0, nRef |-> 0,
             inStmt |-> FALSE, page1 |-> FALSE, cache |-> content, disk |-> content,
             stmtInUse |-> FALSE, mark |-> [t \in Table |-> "no"],
             journaled |-> [t \in Table |-> FALSE], saved |-> [t \in Table |-> {}]]
  /\ connected = {}
  /\ autoCommit = [c \in Conn |-> TRUE] /\ readUncommitted = [c \in Conn |-> FALSE]
  /\ vm = [c \in Conn |-> [r \in Role |-> Idle]]
  /\ disturbed = FALSE

----------------------------------------------------------------------------
\* Table locks.

\* A reader of uncommitted data neither respects nor takes read locks, save on sqlite_master.
NoReadLock(c, t, e) == readUncommitted[c] /\ e = READ_LOCK /\ t # MASTER_ROOT

queryTableLockOfWriter(b, c, t, e) ==
  e = READ_LOCK \/ \A d \in Conn \ {c} : b.locks[d][t] = NO_LOCK
queryTableLockOfReader(b, c, t, e) ==
  NoReadLock(c, t, e) \/ \A d \in Conn \ {c} : b.locks[d][t] # WRITE_LOCK
queryTableLock(b, c, t, e) ==
  NoReadLock(c, t, e) \/ \A d \in Conn \ {c} :
    b.locks[d][t] = NO_LOCK \/ (b.locks[d][t] = READ_LOCK /\ e = READ_LOCK)

lockTable(b, c, t, e) ==
  IF NoReadLock(c, t, e) \/ e <= b.locks[c][t] THEN b ELSE [b EXCEPT !.locks[c][t] = e]

unlockAllTables(b, c) == [b EXCEPT !.locks[c] = [t \in Table |-> NO_LOCK]]

\* A cursor that reads t, of a connection that wants no uncommitted data.
checkReadLocks(v, t) ==
  \E c \in Conn : v[c]["read"].at = "open" /\ v[c]["read"].table = t /\ ~readUncommitted[c]

----------------------------------------------------------------------------
\* Transactions of a handle.

unlockBtreeIfNoCursor(b, v) ==
  IF Cursors(v) = {} THEN [b EXCEPT !.page1 = FALSE, !.inStmt = FALSE] ELSE b
unlockBtreeIfUnused(b, v) ==
  IF b.inTransaction = TRANS_NONE /\ Cursors(v) = {} /\ b.page1
  THEN [b EXCEPT !.page1 = FALSE, !.inStmt = FALSE] ELSE b

NoMarks == [t \in Table |-> "no"]
NoneSaved == [t \in Table |-> {}]
NotJournaled == [t \in Table |-> FALSE]

\* sqlite3pager_stmt_begin.  In a statement journal that is still in use the pages it
\* has seen are not saved again, and the rollback journal is read from here on.
pager_stmt_begin(b) ==
  [b EXCEPT !.stmtInUse = TRUE,
            !.mark = [t \in Table |-> IF @[t] = "journal" THEN "stale" ELSE @[t]]]
pager_stmt_commit_marked(b) == [b EXCEPT !.stmtInUse = FALSE]
pager_stmt_commit(b) == [b EXCEPT !.stmtInUse = FALSE, !.mark = NoMarks, !.saved = NoneSaved]
pager_stmt_rollback(b) ==
  pager_stmt_commit(
    [b EXCEPT !.cache = [t \in Table |-> IF b.mark[t] \in {"journal", "stmt"}
                                         THEN CHOOSE v \in Value : v \in b.saved[t] ELSE @[t]]])

\* sqlite3BtreeBeginTrans, where the file's locks are to be had.
NoOp(b, c, wrflag) ==
  b.inTrans[c] = TRANS_WRITE \/ (b.inTrans[c] = TRANS_READ /\ ~wrflag)
AnotherWrites(b, c, wrflag) == ~NoOp(b, c, wrflag) /\ wrflag /\ b.inTransaction = TRANS_WRITE
BeginTransAnew(b, c, wrflag) ==
  IF NoOp(b, c, wrflag) THEN b
  ELSE LET trans == IF wrflag THEN TRANS_WRITE ELSE TRANS_READ IN
    [b EXCEPT !.page1 = TRUE, !.inStmt = @ /\ ~wrflag, !.inTrans[c] = trans,
              !.nTransaction = @ + 1,
              !.inTransaction = IF trans > @ THEN trans ELSE @]
BeginTrans(b, c, wrflag) ==
  IF NoOp(b, c, wrflag) THEN b
  ELSE LET trans == IF wrflag THEN TRANS_WRITE ELSE TRANS_READ IN
    [b EXCEPT !.page1 = TRUE, !.inStmt = @ /\ ~wrflag, !.inTrans[c] = trans,
              !.nTransaction = IF b.inTrans[c] = TRANS_NONE THEN @ + 1 ELSE @,
              !.inTransaction = IF trans > @ THEN trans ELSE @]

\* The end of sqlite3BtreeCommit and of sqlite3BtreeRollback.
LeaveTransAnyway(b, c) ==
  [b EXCEPT !.inTransaction = IF b.nTransaction = 1 THEN TRANS_NONE
                              ELSE IF b.inTrans[c] = TRANS_WRITE THEN TRANS_READ ELSE @,
            !.nTransaction = @ - 1, !.inTrans[c] = TRANS_NONE]
LeaveTrans(b, c) ==
  [b EXCEPT !.inTransaction = IF b.inTrans[c] # TRANS_NONE /\ b.nTransaction = 1
                              THEN TRANS_NONE
                              ELSE IF b.inTrans[c] = TRANS_WRITE THEN TRANS_READ ELSE @,
            !.nTransaction = IF b.inTrans[c] # TRANS_NONE THEN @ - 1 ELSE @,
            !.inTrans[c] = TRANS_NONE]

BtreeCommit(b, c, v) ==
  LET pager == IF b.inTrans[c] = TRANS_WRITE
               THEN [pager_stmt_commit(b) EXCEPT !.disk = b.cache, !.inStmt = FALSE,
                                                     !.journaled = NotJournaled] ELSE b
  IN  unlockBtreeIfUnused(LeaveTrans(unlockAllTables(pager, c), c), v)

BtreeRollback(b, c, v) ==
  LET pager == IF b.inTrans[c] = TRANS_WRITE
               THEN [pager_stmt_commit(b) EXCEPT !.cache = b.disk, !.journaled = NotJournaled] ELSE b
  IN  unlockBtreeIfUnused([LeaveTrans(unlockAllTables(pager, c), c) EXCEPT !.inStmt = FALSE], v)

\* The handle that writes is not looked for: any handle of the cache will do.
BtreeBeginStmt(b) == [pager_stmt_begin(b) EXCEPT !.inStmt = TRUE]
BtreeCommitStmt(b) ==
  [(IF b.inStmt THEN pager_stmt_commit(b) ELSE b) EXCEPT !.inStmt = FALSE]
BtreeRollbackStmt(b) ==
  IF b.inStmt THEN [pager_stmt_rollback(b) EXCEPT !.inStmt = FALSE] ELSE b

\* sqlite3pager_write of the table's pages: the first time in the transaction they go to
\* the rollback journal, and the first time in the statement they are marked.
WriteTable(b, t, content) ==
  [b EXCEPT !.cache[t] = content,
            !.mark[t] = IF @ = "no" /\ b.stmtInUse
                        THEN IF b.journaled[t] THEN "stmt" ELSE "journal" ELSE @,
            !.journaled[t] = TRUE,
            !.saved[t] = IF b.mark[t] = "no" /\ b.stmtInUse THEN {b.cache[t]} ELSE @]

----------------------------------------------------------------------------
\* Statements.

\* sqlite3_open: a new handle for the shared cache; the flags are as at first.
Open(c) ==
  /\ c \notin connected /\ connected' = connected \cup {c}
  /\ bt' = [bt EXCEPT !.nRef = @ + 1]
  /\ UNCHANGED <<autoCommit, readUncommitted, vm, disturbed>>

\* Another statement was in the middle of its writes.
Disturbs(c, r) == \E d \in Conn : (d # c \/ r # "write") /\ vm[d]["write"].at = "open"

\* A transaction that writes is over: what disturbed it is, too.
Forget(c, r) == disturbed' = (bt'.inTransaction = TRANS_WRITE /\ (disturbed \/ Disturbs(c, r)))

\* sqlite3_close, of a connection without statements: sqlite3BtreeClose.
Close(c) ==
  /\ c \in connected /\ Active(vm, c) = {} /\ connected' = connected \ {c}
  /\ bt' = [BtreeRollback(bt, c, vm) EXCEPT !.nRef = @ - 1]
  /\ autoCommit' = [autoCommit EXCEPT ![c] = TRUE]
  /\ readUncommitted' = [readUncommitted EXCEPT ![c] = FALSE]
  /\ Forget(c, "none") /\ UNCHANGED vm

\* PRAGMA read_uncommitted, at any time: the flag changes as the statement is prepared.
SetReadUncommitted(c) ==
  /\ c \in connected
  /\ readUncommitted' = [readUncommitted EXCEPT ![c] = ~@]
  /\ UNCHANGED <<bt, connected, autoCommit, vm, disturbed>>

\* BEGIN: a statement of its own, which ends at once.
Begin(c) ==
  /\ c \in connected /\ autoCommit[c]
  /\ autoCommit' = [autoCommit EXCEPT ![c] = FALSE]
  /\ bt' = BtreeCommitStmt(bt) /\ Forget(c, "none")
  /\ UNCHANGED <<connected, readUncommitted, vm>>

\* COMMIT and ROLLBACK are refused while a statement of the connection is active; where
\* the file's locks are not to be had, COMMIT leaves everything as it was.
Commit(c) ==
  /\ c \in connected /\ ~autoCommit[c] /\ Active(vm, c) = {}
  /\ autoCommit' = [autoCommit EXCEPT ![c] = TRUE]
  /\ bt' = BtreeCommit(bt, c, vm) /\ Forget(c, "none")
  /\ UNCHANGED <<connected, readUncommitted, vm>>
Rollback(c) ==
  /\ c \in connected /\ ~autoCommit[c] /\ Active(vm, c) = {}
  /\ autoCommit' = [autoCommit EXCEPT ![c] = TRUE]
  /\ bt' = BtreeRollback(bt, c, vm) /\ Forget(c, "none")
  /\ UNCHANGED <<connected, readUncommitted, vm>>

\* What a statement of role r on table t finds when it starts: OP_Transaction,
\* OP_VerifyCookie, OP_TableLock, OP_Statement and OP_OpenRead or OP_OpenWrite.
Lock(r) == IF r = "write" THEN WRITE_LOCK ELSE READ_LOCK
Begun(c, r) == BeginTrans(bt, c, r = "write")
Verified(c, r) == lockTable(Begun(c, r), c, MASTER_ROOT, READ_LOCK)
Locked(c, r, t) == lockTable(Verified(c, r), c, t, Lock(r))
InStatement(c, r, t) ==
  IF r = "write" /\ ~autoCommit[c] /\ ~Locked(c, r, t).inStmt
  THEN BtreeBeginStmt(Locked(c, r, t)) ELSE Locked(c, r, t)

CanVerify(c, r) == queryTableLock(Begun(c, r), c, MASTER_ROOT, READ_LOCK)
CanLock(c, r, t) == CanVerify(c, r) /\ queryTableLock(Verified(c, r), c, t, Lock(r))
CanOpen(c, r, t) == CanLock(c, r, t) /\ (r = "write" => ~checkReadLocks(vm, t))

\* The first sqlite3_step, or the next one after SQLITE_BUSY.
Starts(c, r, t) ==
  /\ c \in connected
  /\ vm[c][r].at = "idle" \/ (vm[c][r].at = "begun" /\ vm[c][r].table = t)

\* Another handle writes: SQLITE_BUSY, and the statement stays active.
Busy(c, t) ==
  /\ Starts(c, "write", t) /\ AnotherWrites(bt, c, TRUE)
  /\ vm' = [vm EXCEPT ![c]["write"] = [Idle EXCEPT !.at = "begun", !.table = t]]
  /\ UNCHANGED <<bt, connected, autoCommit, readUncommitted, disturbed>>

Enter(c, r, t) ==
  /\ Starts(c, r, t) /\ ~AnotherWrites(bt, c, r = "write") /\ CanOpen(c, r, t)
  /\ bt' = InStatement(c, r, t)
  /\ vm' = [vm EXCEPT ![c][r] = [at |-> "open", table |-> t,
                                 found |-> IF r = "write" THEN {bt.cache[t]} ELSE {},
                                 dirty |-> r = "read" /\ readUncommitted[c]]]
  /\ UNCHANGED <<connected, autoCommit, readUncommitted, disturbed>>

\* sqlite3BtreeInsert and its like.
Write(c, content) ==
  /\ vm[c]["write"].at = "open" /\ bt.inTransaction = TRANS_WRITE
  /\ ~checkReadLocks(vm, vm[c]["write"].table)
  /\ content # bt.cache[vm[c]["write"].table]
  /\ bt' = WriteTable(bt, vm[c]["write"].table, content)
  /\ UNCHANGED <<connected, autoCommit, readUncommitted, vm, disturbed>>

----------------------------------------------------------------------------
\* sqlite3VdbeHalt.

OnlyOne(c, r) == autoCommit[c] /\ Active(vm, c) \subseteq {r}

\* The statement is done, or is given up by the program between two rows.  In autocommit
\* mode the last one of a connection commits.
Halt(c, r) ==
  /\ vm[c][r].at \in {"open", "done", "aborted"} /\ vm' = [vm EXCEPT ![c][r] = Idle]
  /\ bt' = IF OnlyOne(c, r) THEN BtreeCommit(bt, c, vm') ELSE BtreeCommitStmt(bt)
  /\ Forget(c, r)
  /\ UNCHANGED <<connected, autoCommit, readUncommitted>>

\* A statement that opens nothing, such as a pragma's, and a BEGIN, COMMIT or ROLLBACK that
\* fails: a statement of the connection is active, or autoCommit is already what it sets.
HaltEmpty(c) ==
  /\ c \in connected
  /\ bt' = IF OnlyOne(c, "none") THEN BtreeCommit(bt, c, vm) ELSE BtreeCommitStmt(bt)
  /\ Forget(c, "none") /\ UNCHANGED <<connected, autoCommit, readUncommitted, vm>>
RefusedAutoCommit(c) ==
  /\ c \in connected
  /\ bt' = IF OnlyOne(c, "none") THEN BtreeRollback(bt, c, vm) ELSE BtreeRollbackStmt(bt)
  /\ Forget(c, "none") /\ UNCHANGED <<connected, autoCommit, readUncommitted, vm>>

\* The commit finds a reader of another process: the cursors are closed already.
HaltBusy(c, r) ==
  /\ vm[c][r].at \in {"open", "aborted"} /\ OnlyOne(c, r) /\ bt.inTrans[c] = TRANS_WRITE
  /\ vm' = [vm EXCEPT ![c][r] = [Idle EXCEPT !.at = "done"]]
  /\ UNCHANGED <<bt, connected, autoCommit, readUncommitted, disturbed>>

\* It fails, and b is the cache then: a constraint with the default, ABORT, a lock that
\* is refused, or SQLITE_BUSY and no further try.
AbortFrom(c, r, b) ==
  /\ vm' = [vm EXCEPT ![c][r] = Idle]
  /\ bt' = IF OnlyOne(c, r) THEN BtreeRollback(b, c, vm') ELSE BtreeRollbackStmt(b)
  /\ Forget(c, r)
  /\ UNCHANGED <<connected, autoCommit, readUncommitted>>
Abort(c, r) == vm[c][r].at \in {"open", "done", "begun"} /\ AbortFrom(c, r, bt)
Refused(c, r, t) ==
  /\ Starts(c, r, t) /\ ~AnotherWrites(bt, c, r = "write") /\ ~CanOpen(c, r, t)
  /\ AbortFrom(c, r, IF ~CanVerify(c, r) THEN Begun(c, r)
                     ELSE IF ~CanLock(c, r, t) THEN Verified(c, r) ELSE InStatement(c, r, t))

\* A constraint with OR ROLLBACK: the other statement of the connection is aborted.
OrRollback(c) ==
  /\ vm[c]["write"].at = "open"
  /\ vm' = [vm EXCEPT ![c]["write"] = Idle,
                      ![c]["read"] = IF @.at = "idle" THEN @ ELSE [Idle EXCEPT !.at = "aborted"]]
  /\ bt' = BtreeRollback(bt, c, vm') /\ Forget(c, "write")
  /\ autoCommit' = [autoCommit EXCEPT ![c] = TRUE]
  /\ UNCHANGED <<connected, readUncommitted>>

----------------------------------------------------------------------------
Call(c) ==
  \/ Open(c) \/ Close(c) \/ SetReadUncommitted(c) \/ Begin(c) \/ Commit(c) \/ Rollback(c)
  \/ \E content \in Value : Write(c, content)
  \/ HaltEmpty(c) \/ RefusedAutoCommit(c) \/ OrRollback(c)
  \/ \E t \in Table : Busy(c, t)
  \/ \E r \in Role : \/ Abort(c, r) \/ Halt(c, r) \/ HaltBusy(c, r)
                     \/ \E t \in Table : Enter(c, r, t) \/ Refused(c, r, t)

ScNext == \E c \in Conn : Call(c)
ScSpec == ScInit /\ [][ScNext]_vars

----------------------------------------------------------------------------
\* Properties.

ScTypeOK ==
  /\ bt \in Bt /\ connected \subseteq Conn
  /\ autoCommit \in [Conn -> BOOLEAN] /\ readUncommitted \in [Conn -> BOOLEAN]
  /\ vm \in [Conn -> [Role -> Statement]] /\ disturbed \in BOOLEAN

\* A statement that starts while its connection does not ask for uncommitted data reads
\* what is committed, or what its own connection has written, whatever is asked for later.
NoDirtyRead ==
  \A c \in Conn : LET s == vm[c]["read"] IN
    s.at = "open" /\ ~s.dirty /\ bt.cache[s.table] # bt.disk[s.table] =>
      bt.inTrans[c] = TRANS_WRITE

\* While a handle that does not write keeps a lock on a table, the table stays as it is,
\* whatever the other connections do, fail to do or roll back.
StableRead ==
  [][\A c \in Conn, t \in Table :
       bt.locks[c][t] # NO_LOCK /\ bt'.locks[c][t] # NO_LOCK /\ bt'.inTrans[c] # TRANS_WRITE
         => bt'.cache[t] = bt.cache[t]]_vars

\* The counts of BtShared are those of its handles: one of them writes at most, and
\* one outside a transaction has no lock left (btreeIntegrity).
CountsAgree ==
  /\ bt.nRef = Cardinality(connected)
  /\ bt.nTransaction = Cardinality({c \in Conn : bt.inTrans[c] # TRANS_NONE})
  /\ \A c \in Conn : IF bt.inTrans[c] = TRANS_NONE THEN \A t \in Table : bt.locks[c][t] = NO_LOCK
                   ELSE c \in connected /\ bt.inTransaction # TRANS_NONE
  /\ bt.inTransaction = TRANS_WRITE <=> \E c \in Conn : bt.inTrans[c] = TRANS_WRITE
  /\ \A c, d \in Conn : bt.inTrans[c] = TRANS_WRITE /\ bt.inTrans[d] = TRANS_WRITE => c = d

\* The lock on the file is held as long as a handle is in a transaction or a cursor is
\* open, and no longer.
FileLockHeld == bt.page1 <=> bt.inTransaction # TRANS_NONE \/ Cursors(vm) # {}

\* A statement of BEGIN ... COMMIT that fails leaves its table as it found it, or its
\* transaction is rolled back, unless another statement ended in between.
Undone(c) ==
  LET t == vm[c]["write"].table IN
    vm[c]["write"].at = "open" => bt'.inTrans[c] # TRANS_WRITE \/ vm[c]["write"].found = {bt'.cache[t]}
StatementUndone ==
  [][\A c \in Conn : Abort(c, "write") /\ ~autoCommit[c] /\ ~disturbed => Undone(c)]_vars

\* OP_Statement: so that the statement can be rolled back after an error.
AbortUndone ==
  [][\A c \in Conn : Abort(c, "write") => Undone(c)]_vars

\* sqlite3BtreeRollbackStmt: assert( countWriteCursors(pBt)==0 ), where it rolls back.
StmtRollbackAlone ==
  [][\A c \in Conn, r \in Role :
       Abort(c, r) /\ ~OnlyOne(c, r) /\ bt.inStmt =>
         \A d \in Conn : vm'[d]["write"].at # "open"]_vars

=============================================================================
