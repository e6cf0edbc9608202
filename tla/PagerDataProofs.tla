--------------------------- MODULE PagerDataProofs ---------------------------
(***************************************************************************)
(* Proofs about what the pagers do to the data. Until a known flaw comes to *)
(* harm, the files can be brought back to the last commit, who sees them    *)
(* while they differ from it is their writer, and the pages in memory are   *)
(* of the last commit or the writer's own (DataInv, with one lemma for each *)
(* action). From it: Recoverable, Snapshot, CounterGrows, and, step by      *)
(* step, that the pagers implement AtomicFile.                              *)
(***************************************************************************)
EXTENDS PagerProofs

USE DEF NO_LOCK, SHARED_LOCK, RESERVED_LOCK, PENDING_LOCK, EXCLUSIVE_LOCK,
        PAGER_UNLOCK, PAGER_SHARED, PAGER_RESERVED, PAGER_EXCLUSIVE, PAGER_SYNCED,
        fileVars, cacheVars, stepVars, history, pagerVars, lockVars, tableVars, NoPage

\* A pager that serves pages, or is about to, or has the RESERVED byte.
Trusts(c) == \/ held[c]
             \/ at[c] = "fetch"
             \/ at[c] = "probed" /\ pc[c] = "idle" /\ rc[c] = "held"
             \/ local[c].bReserved /\ pc[c] # "unprobe"

\* The writer that may have changed the database file.
Owner(c) == /\ local[c].bExclusive /\ local[c].bReserved
            /\ pstate[c] >= PAGER_EXCLUSIVE /\ doing[c] # "get"
            /\ JournalOpen(c) \/ (at[c] = "delete" /\ doing[c] = "commit")

\* A pager that has recovered the database is about to read it.
Returning(c) == at[c] = "unlock" /\ doing[c] = "get" /\ rc[c] # "ioerr"

\* A database that differs from the last commit is only its writer's to see, and a dead
\* writer's locks keep the others out as long as they are there.
Hidden ==
  db # committed =>
    /\ \A c \in Conn : Trusts(c) => Owner(c)
    /\ leaked.bReserved => leaked.bExclusive
    /\ (\E c \in Conn : Returning(c)) => leaked.bExclusive \/ \E d \in Conn : Owner(d)

\* A writer with the whole range is alone.
Alone == \A c, d \in Conn : c # d /\ local[c].bExclusive /\ local[c].bReserved => ~held[d]

\* The pages in memory.
CacheOK(c) ==
  /\ ~errored[c] => \A p \in Page \ inJournal[c] : cache[c][p] \in {NoPage, committed[p]}
  /\ ~errored[c] /\ ~held[c] => \A p \in Page : cache[c][p] = NoPage

\* A transaction: the journal has the originals, and the clean pages are the file's.
TransOK(c) ==
  JournalOpen(c) /\ doing[c] # "get" =>
    /\ \A p \in inJournal[c] : journal.orig[p] = committed[p]
    /\ journal.counted \subseteq inJournal[c]
    /\ \A p \in Page : db[p] >= committed[p]
    /\ \A p \in dirty[c] : cache[c][p] > committed[p]
    /\ at[c] \in {"rest", "sync", "exclusive", "store"} =>
         /\ \A p \in inJournal[c] \ dirty[c] : cache[c][p] \in {NoPage, db[p]}
         /\ inJournal[c] \ dirty[c] \subseteq journal.counted
         /\ pstate[c] = PAGER_RESERVED => inJournal[c] \subseteq dirty[c]
    /\ at[c] \in {"exclusive", "store"} /\ doing[c] # "begin" =>
         todo[c] \subseteq journal.counted
    /\ at[c] \in {"sync", "exclusive", "store"} /\ doing[c] = "commit" =>
         /\ dirty[c] \subseteq todo[c]
         /\ Page1 \in todo[c] \/ db[Page1] > committed[Page1]

\* The end of a transaction, or of a recovery.
EndOK(c) ==
  /\ at[c] = "playback" =>
       /\ \A p \in journal.counted \ todo[c] : db[p] = journal.orig[p]
       /\ doing[c] = "rollback" =>
            \A p \in Page \ todo[c] : cache[c][p] \in {NoPage, committed[p]}
  /\ at[c] \in {"close", "delete"} =>
       /\ doing[c] # "commit" => db = committed
       /\ doing[c] = "rollback" => \A p \in Page : cache[c][p] \in {NoPage, committed[p]}
       /\ doing[c] = "commit" =>
            /\ pstate[c] >= PAGER_EXCLUSIVE
            /\ opener = IF at[c] = "close" THEN c ELSE Nobody
            /\ \A p \in Page : cache[c][p] \in {NoPage, db[p]} /\ db[p] >= committed[p]
            /\ db[Page1] > committed[Page1]

\* The files, the caches and the journal agree with the last commit.
DataInv ==
  /\ Recovered = committed
  /\ Hidden
  /\ Alone
  /\ \A c \in Conn : CacheOK(c) /\ TransOK(c) /\ EndOK(c)

\* That is so until a known flaw comes to harm.
SoundInv == broken = "none" => DataInv

\* Pager c moves, in a state where everything is in order.
Moves(c) == ControlInv /\ ControlInv' /\ LockedInv /\ Others(c) /\ DataInv

\* What is known then.
LEMMA MovesFacts ==
  ASSUME NEW c \in Conn, Moves(c)
  PROVE  /\ LockTypeOK /\ StepTypeOK /\ PagerTypeOK
         /\ HandleOK(c) /\ StateBacked(c) /\ JournalBacked(c)
         /\ LabelOK(c) /\ LockBacked(c) /\ Locked(c) /\ PagesOK(c) /\ CountedOK
         /\ CacheOK(c) /\ TransOK(c) /\ EndOK(c) /\ Hidden
         /\ \A p \in Page : committed[p] = IF p \in journal.counted THEN journal.orig[p] ELSE db[p]
<1>1. Recovered = committed
  BY DEF Moves, DataInv
<1>2. \A p \in Page : Recovered[p] = IF p \in journal.counted THEN journal.orig[p] ELSE db[p]
  BY DEF Recovered
<1>3. CacheOK(c) /\ TransOK(c) /\ EndOK(c) /\ Hidden
  BY DEF Moves, DataInv
<1>. QED  BY <1>1, <1>2, <1>3 DEF Moves, ControlInv, StoreInv, LockInv, LockedInv

\* The bytes of the handles, of the closed ones and the dead ones too.
LEMMA BytesHeld ==
  ASSUME ControlInv, LockedInv, NEW c \in Conn
  PROVE  /\ \A d \in Conn : c # d =>
              /\ ~(local[c].bReserved /\ local[d].bReserved)
              /\ ~(local[c].bExclusive /\ (local[d].bExclusive \/ Reading(d)))
         /\ ~(leaked.bReserved /\ local[c].bReserved)
         /\ ~(leaked.bExclusive /\ (local[c].bExclusive \/ Reading(c)))
         /\ pstate[c] >= PAGER_EXCLUSIVE /\ at[c] # "unlock" => local[c].bExclusive
         /\ pstate[c] >= PAGER_RESERVED /\ doing[c] # "get" /\ at[c] # "unlock" => local[c].bReserved
<1>1. ASSUME NEW d \in Conn, d \notin mapped
      PROVE  ~local[d].bReserved /\ ~local[d].bExclusive /\ ~Reading(d)
  <2>1. HandleOK(d)
    BY DEF ControlInv, StoreInv, LockInv
  <2>2. pc[d] = "idle" /\ locktype[d] = NO_LOCK
    BY <1>1, <2>1 DEF HandleOK, ControlOK
  <2>. QED  BY <2>1, <2>2 DEF HandleOK, ReservedBacked, ExclusiveBacked, ReadBacked
<1>2. ByteExclusion /\ LeakExclusion
  BY DEF ControlInv, StoreInv, LockInv, TableInv
<1>3. StateBacked(c) /\ ExclusiveBacked(c) /\ Locked(c)
  BY DEF ControlInv, StoreInv, LockInv, HandleOK, LockedInv
<1>4. pstate[c] >= PAGER_EXCLUSIVE /\ at[c] # "unlock" => local[c].bExclusive
  BY <1>3 DEF StateBacked, ExclusiveBacked
<1>5. pstate[c] >= PAGER_RESERVED /\ doing[c] # "get" /\ at[c] # "unlock" => local[c].bReserved
  BY <1>3 DEF Locked
<1>. QED  BY <1>1, <1>2, <1>4, <1>5 DEF ByteExclusion, LeakExclusion

\* What a step that leaves the database and the last commit alone does to the others.
LEMMA ApartData ==
  ASSUME NEW d \in Conn, Apart(d), JournalBacked(d), CacheOK(d), TransOK(d), EndOK(d),
         UNCHANGED <<db, committed>>,
         at[d] = "delete" /\ doing[d] = "commit" => opener' = opener
  PROVE  CacheOK(d)' /\ TransOK(d)' /\ EndOK(d)'
<1> USE DEF Apart, Untouched
<1>1. CacheOK(d)'
  BY DEF CacheOK
<1>2. TransOK(d)'
  BY DEF TransOK
<1>3. EndOK(d)'
  <2>1. CASE at[d] = "playback"
    BY <2>1 DEF EndOK, JournalBacked
  <2>2. CASE at[d] = "close"
    BY <2>2 DEF EndOK, JournalOpen
  <2>3. CASE at[d] = "delete"
    BY <2>3 DEF EndOK
  <2>. QED  BY <2>1, <2>2, <2>3 DEF EndOK
<1>. QED  BY <1>1, <1>2, <1>3

\* Nobody opens a journal between its close and its deletion by a writer.
LEMMA NobodyOpens ==
  ASSUME NEW c \in Conn, Moves(c), NEW d \in Conn, d # c,
         at[d] = "delete", doing[d] = "commit",
         opener' \in {opener, Nobody} \/ (at[c] \in {"create", "hotopen"})
  PROVE  opener' = opener
<1>1. pstate[d] >= PAGER_EXCLUSIVE /\ opener = Nobody
  BY DEF Moves, DataInv, EndOK
<1>2. local[d].bExclusive /\ local[d].bReserved
  <2>1. ControlInv /\ LockedInv /\ pstate[d] \in {0, 1, 2, 4, 5}
    BY DEF Moves, ControlInv, PagerTypeOK, StepTypeOK
  <2>2. pstate[d] >= PAGER_RESERVED
    BY <1>1, <2>1
  <2>. QED  BY <1>1, <2>1, <2>2, BytesHeld
<1>3. at[c] \notin {"create", "hotopen"}
  <2>1. at[c] = "create" => pstate[c] >= PAGER_RESERVED /\ doing[c] = "begin"
    BY DEF Moves, ControlInv, LabelOK, LockedInv, Locked
  <2>2. at[c] = "hotopen" => pstate[c] >= PAGER_EXCLUSIVE
    BY DEF Moves, ControlInv, StoreInv, StateBacked
  <2>. QED  BY <1>2, <2>1, <2>2, BytesHeld DEF Moves
<1>. QED  BY <1>1, <1>3

\* Pager c does not come to trust a database that is not the last commit's, and if it owns
\* it, goes on to.
Modest(c) == db = committed \/ /\ Trusts(c)' => Trusts(c)
                               /\ Owner(c) => Owner(c)'
                               /\ Returning(c)' => Returning(c)

\* A step that neither writes the database nor commits: it is enough to look at the
\* pager that moves.
LEMMA QuietStep ==
  ASSUME NEW c \in Conn, Moves(c), UNCHANGED <<db, committed>>,
         \/ leaked' = leaked
         \/ leaked' = NoLocks /\ \A d \in Conn : ~Returning(d) /\ ~Returning(d)',
         opener' \in {opener, Nobody} \/ (at[c] \in {"create", "hotopen"}),
         Recovered' = committed,
         Modest(c),
         held'[c] => held[c] \/ Reading(c),
         (local[c].bExclusive /\ local[c].bReserved)' =>
           \/ local[c].bExclusive /\ local[c].bReserved
           \/ \A d \in Conn \ {c} : ~held[d],
         CacheOK(c)', TransOK(c)', EndOK(c)'
  PROVE  DataInv'
<1>1. \A d \in Conn \ {c} : Apart(d) /\ JournalBacked(d) /\ CacheOK(d) /\ TransOK(d) /\ EndOK(d)
  BY DEF Moves, DataInv, Others, ControlInv, StoreInv
<1>2. \A d \in Conn \ {c} : CacheOK(d)' /\ TransOK(d)' /\ EndOK(d)'
  BY <1>1, ApartData, NobodyOpens
<1>3. ASSUME NEW d \in Conn \ {c}
      PROVE  /\ Trusts(d)' <=> Trusts(d)
             /\ Owner(d)' <=> Owner(d)
             /\ Returning(d)' <=> Returning(d)
             /\ held'[d] = held[d] /\ local'[d] = local[d]
  BY <1>1 DEF Apart, Untouched, Trusts, Owner, Returning
<1>4. Hidden'
  <2>1. CASE db = committed
    BY <2>1 DEF Hidden
  <2>2. CASE db # committed
    <3>m. (Trusts(c)' => Trusts(c)) /\ (Owner(c) => Owner(c)') /\ (Returning(c)' => Returning(c))
      BY <2>2 DEF Modest
    <3>1. Hidden
      BY DEF Moves, DataInv
    <3>2. \A d \in Conn : Trusts(d)' => Owner(d)'
      BY <2>2, <3>m, <3>1, <1>3 DEF Hidden
    <3>3. (\E d \in Conn : Returning(d)') => leaked'.bExclusive \/ \E d \in Conn : Owner(d)'
      BY <2>2, <3>m, <3>1, <1>3 DEF Hidden
    <3>4. leaked'.bReserved => leaked'.bExclusive
      BY <2>2, <3>1 DEF Hidden, NoLocks
    <3>. QED  BY <3>2, <3>3, <3>4 DEF Hidden
  <2>. QED  BY <2>1, <2>2
<1>5. Alone'
  <2>1. Alone
    BY DEF Moves, DataInv
  <2>2. \A d \in Conn : c # d => ~(local[d].bExclusive /\ Reading(c))
    BY BytesHeld DEF Moves
  <2>. QED  BY <2>1, <2>2, <1>3 DEF Alone
<1>. QED  BY <1>2, <1>4, <1>5 DEF DataInv

\* The same, for a step that leaves the journal's pages and its own cache alone.
Calm(c) == /\ UNCHANGED <<db, committed, leaked, local, journal, held, cache, dirty, inJournal>>
           /\ errored[c] => errored'[c]

LEMMA CalmStep ==
  ASSUME NEW c \in Conn, Moves(c), Calm(c),
         opener' \in {opener, Nobody} \/ (at[c] \in {"create", "hotopen"}),
         Modest(c),
         TransOK(c)', EndOK(c)'
  PROVE  DataInv'
<1>1. Recovered' = committed
  BY DEF Recovered, Calm, Moves, DataInv
<1>2. CacheOK(c)'
  BY DEF Moves, DataInv, CacheOK, Calm
<1>. QED  BY <1>1, <1>2, QuietStep DEF Calm

\* A pager that does not own the database, and trusts it, sees the last commit.
LEMMA Seen ==
  ASSUME NEW c \in Conn, Moves(c), Trusts(c), ~Owner(c)
  PROVE  db = committed
BY MovesFacts DEF Hidden

\* The SHARED lock is asked for.
LEMMA GetSharedData ==
  ASSUME NEW c \in Conn, Moves(c), GetShared(c)
  PROVE  DataInv'
<1>0. /\ StepTypeOK /\ LockTypeOK /\ PagerTypeOK /\ StateBacked(c) /\ JournalBacked(c)
      /\ LabelOK(c) /\ LockBacked(c) /\ Locked(c) /\ PagesOK(c) /\ CountedOK
      /\ CacheOK(c) /\ TransOK(c) /\ EndOK(c)
  BY MovesFacts
<1>1. /\ pc[c] = "idle" /\ Calm(c)
      /\ at[c] = "rest" /\ at'[c] = "share" /\ doing'[c] = "get"
      /\ ~held[c] /\ UNCHANGED <<opener, pstate>>
  BY <1>0 DEF GetShared, Lock, Reached, Resting, Idle, Go, Begins, Rest, State, Calm, StepTypeOK
<1>2. Modest(c)
  <2>1. pstate[c] < PAGER_RESERVED
    BY <1>0, <1>1 DEF GetShared, LockBacked
  <2>. QED  BY <2>1, <1>0, <1>1 DEF Modest, Trusts, Owner, Returning, Calm, LabelOK, StepTypeOK, JournalOpen
<1>3. TransOK(c)'
  BY <1>0, <1>1 DEF TransOK, Calm, LabelOK, JournalOpen, StepTypeOK
<1>4. EndOK(c)'
  BY <1>0, <1>1 DEF EndOK, Calm, JournalOpen, StepTypeOK
<1>. QED  BY <1>1, <1>2, <1>3, <1>4, CalmStep

\* The SHARED lock is there, or the busy handler decides.
LEMMA GotSharedData ==
  ASSUME NEW c \in Conn, Moves(c), GotShared(c)
  PROVE  DataInv'
<1>0. /\ StepTypeOK /\ LockTypeOK /\ PagerTypeOK /\ StateBacked(c) /\ JournalBacked(c)
      /\ LabelOK(c) /\ LockBacked(c) /\ Locked(c) /\ PagesOK(c) /\ CountedOK
      /\ CacheOK(c) /\ TransOK(c) /\ EndOK(c)
  BY MovesFacts
<1>1. /\ pc[c] = "idle" /\ Calm(c)
      /\ at[c] = "share" /\ opener' = opener
      /\ \/ at'[c] = "look" /\ pstate'[c] = PAGER_SHARED /\ doing'[c] = doing[c]
         \/ at'[c] = "rest" /\ doing'[c] = "none" /\ pstate' = pstate
         \/ at'[c] = "share" /\ UNCHANGED <<doing, pstate>>
  BY <1>0 DEF GotShared, Lock, Reached, Resting, Idle, Go, Begins, Rest, State, Calm, StepTypeOK
<1>2. Modest(c)
  BY <1>0, <1>1 DEF Modest, Trusts, Owner, Returning, Calm, LabelOK, StepTypeOK, JournalOpen
<1>3. TransOK(c)'
  BY <1>0, <1>1 DEF TransOK, Calm, LabelOK, JournalOpen, StepTypeOK
<1>4. EndOK(c)'
  BY <1>0, <1>1 DEF EndOK, Calm, JournalOpen, StepTypeOK
<1>. QED  BY <1>1, <1>2, <1>3, <1>4, CalmStep

\* The journal is looked for.
LEMMA HasHotJournalData ==
  ASSUME NEW c \in Conn, Moves(c), HasHotJournal(c)
  PROVE  DataInv'
<1>0. /\ StepTypeOK /\ LockTypeOK /\ PagerTypeOK /\ StateBacked(c) /\ JournalBacked(c)
      /\ LabelOK(c) /\ LockBacked(c) /\ Locked(c) /\ PagesOK(c) /\ CountedOK
      /\ CacheOK(c) /\ TransOK(c) /\ EndOK(c)
  BY MovesFacts
<1>1. /\ pc[c] = "idle" /\ Calm(c)
      /\ at[c] = "look" /\ UNCHANGED <<opener, pstate, doing>>
      /\ \/ at'[c] = "fetch" /\ ~journal.exists
         \/ at'[c] = "probed" /\ pc'[c] = "probe"
  BY <1>0 DEF HasHotJournal, CheckReserved, Goto, LockTypeOK, Reached, Resting, Idle, Go, Begins, Rest, State, Calm, StepTypeOK
<1>2. Modest(c)
  <2>1. CASE ~journal.exists
    <3>1. journal.counted = {}
      BY <2>1, <1>0 DEF CountedOK
    <3>2. \A q \in Page : committed[q] = db[q]
      BY <3>1, MovesFacts
    <3>. QED  BY <3>2, <1>0 DEF Modest, PagerTypeOK
  <2>2. CASE at'[c] = "probed" /\ pc'[c] = "probe"
    BY <2>2, <1>0, <1>1 DEF Modest, Trusts, Owner, Returning, Calm, LabelOK
  <2>. QED  BY <1>1, <2>1, <2>2
<1>3. TransOK(c)'
  BY <1>0, <1>1 DEF TransOK, Calm, LabelOK, JournalOpen, StepTypeOK
<1>4. EndOK(c)'
  BY <1>0, <1>1 DEF EndOK, Calm, JournalOpen, StepTypeOK
<1>. QED  BY <1>1, <1>2, <1>3, <1>4, CalmStep

\* The RESERVED byte was looked at.
LEMMA ProbedData ==
  ASSUME NEW c \in Conn, Moves(c), Probed(c)
  PROVE  DataInv'
<1>0. /\ StepTypeOK /\ LockTypeOK /\ PagerTypeOK /\ StateBacked(c) /\ JournalBacked(c)
      /\ LabelOK(c) /\ LockBacked(c) /\ Locked(c) /\ PagesOK(c) /\ CountedOK
      /\ CacheOK(c) /\ TransOK(c) /\ EndOK(c)
  BY MovesFacts
<1>1. /\ pc[c] = "idle" /\ Calm(c)
      /\ at[c] = "probed" /\ UNCHANGED <<opener, pstate, doing>>
      /\ \/ at'[c] = "fetch" /\ rc[c] = "held"
         \/ at'[c] = "hotlock"
  BY <1>0 DEF Probed, Lock, Reached, Resting, Idle, Go, Begins, Rest, State, Calm, StepTypeOK
<1>2. Modest(c)
  <2>1. ~Owner(c)
    BY <1>0, <1>1 DEF Owner, LabelOK
  <2>2. CASE at'[c] = "fetch" /\ rc[c] = "held"
    BY <2>1, <2>2, <1>1, Seen DEF Modest, Trusts
  <2>3. CASE at'[c] = "hotlock"
    BY <2>1, <2>3, <1>1 DEF Modest, Trusts, Returning, Calm
  <2>. QED  BY <1>1, <2>2, <2>3
<1>3. TransOK(c)'
  BY <1>0, <1>1 DEF TransOK, Calm, LabelOK, JournalOpen, StepTypeOK
<1>4. EndOK(c)'
  BY <1>0, <1>1 DEF EndOK, Calm, JournalOpen, StepTypeOK
<1>. QED  BY <1>1, <1>2, <1>3, <1>4, CalmStep

\* The lock of a recovery is there, or not.
LEMMA HotLockedData ==
  ASSUME NEW c \in Conn, Moves(c), HotLocked(c)
  PROVE  DataInv'
<1>0. /\ StepTypeOK /\ LockTypeOK /\ PagerTypeOK /\ StateBacked(c) /\ JournalBacked(c)
      /\ LabelOK(c) /\ LockBacked(c) /\ Locked(c) /\ PagesOK(c) /\ CountedOK
      /\ CacheOK(c) /\ TransOK(c) /\ EndOK(c)
  BY MovesFacts
<1>1. /\ pc[c] = "idle" /\ Calm(c)
      /\ at[c] = "hotlock" /\ at'[c] \in {"hotopen", "drop"} /\ UNCHANGED <<opener, doing>>
  BY <1>0 DEF HotLocked, DropLock, Unlock, Reached, Resting, Idle, Go, Begins, Rest, State, Calm, StepTypeOK
<1>2. Modest(c)
  BY <1>0, <1>1 DEF Modest, Trusts, Owner, Returning, Calm, LabelOK, StepTypeOK, JournalOpen
<1>3. TransOK(c)'
  BY <1>0, <1>1 DEF TransOK, Calm, LabelOK, JournalOpen, StepTypeOK
<1>4. EndOK(c)'
  BY <1>0, <1>1 DEF EndOK, Calm, JournalOpen, StepTypeOK
<1>. QED  BY <1>1, <1>2, <1>3, <1>4, CalmStep

\* A hot journal is opened.
LEMMA OpenHotJournalData ==
  ASSUME NEW c \in Conn, Moves(c), OpenHotJournal(c)
  PROVE  DataInv'
<1>0. /\ StepTypeOK /\ LockTypeOK /\ PagerTypeOK /\ StateBacked(c) /\ JournalBacked(c)
      /\ LabelOK(c) /\ LockBacked(c) /\ Locked(c) /\ PagesOK(c) /\ CountedOK
      /\ CacheOK(c) /\ TransOK(c) /\ EndOK(c)
  BY MovesFacts
<1>1. /\ pc[c] = "idle" /\ Calm(c)
      /\ at[c] = "hotopen" /\ UNCHANGED doing
      /\ \/ at'[c] = "playback" /\ todo'[c] = journal.counted
         \/ at'[c] = "drop" 
  BY <1>0 DEF OpenHotJournal, DropLock, Unlock, PagerTypeOK, Reached, Resting, Idle, Go, Begins, Rest, State, Calm, StepTypeOK
<1>2. Modest(c)
  BY <1>0, <1>1 DEF Modest, Trusts, Owner, Returning, Calm, LabelOK, StepTypeOK, JournalOpen
<1>3. TransOK(c)'
  BY <1>0, <1>1 DEF TransOK, Calm, LabelOK, JournalOpen, StepTypeOK
<1>4. EndOK(c)'
  BY <1>0, <1>1 DEF EndOK, Calm, LabelOK
<1>. QED  BY <1>1, <1>2, <1>3, <1>4, CalmStep

\* The RESERVED lock is asked for.
LEMMA BeginData ==
  ASSUME NEW c \in Conn, Moves(c), Begin(c)
  PROVE  DataInv'
<1>0. /\ StepTypeOK /\ LockTypeOK /\ PagerTypeOK /\ StateBacked(c) /\ JournalBacked(c)
      /\ LabelOK(c) /\ LockBacked(c) /\ Locked(c) /\ PagesOK(c) /\ CountedOK
      /\ CacheOK(c) /\ TransOK(c) /\ EndOK(c)
  BY MovesFacts
<1>1. /\ pc[c] = "idle" /\ Calm(c)
      /\ at[c] = "rest" /\ at'[c] = "reserve" /\ doing'[c] = "begin"
      /\ pstate[c] = PAGER_SHARED /\ UNCHANGED <<opener, pstate>>
  BY <1>0 DEF Begin, Lock, Reached, Resting, Idle, Go, Begins, Rest, State, Calm, StepTypeOK
<1>2. Modest(c)
  BY <1>0, <1>1 DEF Modest, Trusts, Owner, Returning, Calm, LabelOK, StepTypeOK, JournalOpen
<1>3. TransOK(c)'
  BY <1>0, <1>1 DEF TransOK, Calm, LabelOK, JournalOpen, StepTypeOK
<1>4. EndOK(c)'
  BY <1>0, <1>1 DEF EndOK, Calm, JournalOpen, StepTypeOK
<1>. QED  BY <1>1, <1>2, <1>3, <1>4, CalmStep

\* The RESERVED lock is there, or not.
LEMMA GotReservedData ==
  ASSUME NEW c \in Conn, Moves(c), GotReserved(c)
  PROVE  DataInv'
<1>0. /\ StepTypeOK /\ LockTypeOK /\ PagerTypeOK /\ StateBacked(c) /\ JournalBacked(c)
      /\ LabelOK(c) /\ LockBacked(c) /\ Locked(c) /\ PagesOK(c) /\ CountedOK
      /\ CacheOK(c) /\ TransOK(c) /\ EndOK(c)
  BY MovesFacts
<1>1. /\ pc[c] = "idle" /\ Calm(c)
      /\ at[c] = "reserve" /\ UNCHANGED opener
      /\ at'[c] \in {"rest", "create", "exclusive"}
  BY <1>0 DEF GotReserved, Lock, Reached, Resting, Idle, Go, Begins, Rest, State, Calm, StepTypeOK
<1>2. Modest(c)
  BY <1>0, <1>1 DEF Modest, Trusts, Owner, Returning, Calm, LabelOK, StepTypeOK, JournalOpen
<1>3. TransOK(c)'
  BY <1>0, <1>1 DEF TransOK, Calm, LabelOK, JournalOpen, StepTypeOK
<1>4. EndOK(c)'
  BY <1>0, <1>1 DEF EndOK, Calm, JournalOpen, StepTypeOK
<1>. QED  BY <1>1, <1>2, <1>3, <1>4, CalmStep

\* The EXCLUSIVE lock is there, or not.
LEMMA GotExclusiveData ==
  ASSUME NEW c \in Conn, Moves(c), GotExclusive(c)
  PROVE  DataInv'
<1>0. /\ StepTypeOK /\ LockTypeOK /\ PagerTypeOK /\ StateBacked(c) /\ JournalBacked(c)
      /\ LabelOK(c) /\ LockBacked(c) /\ Locked(c) /\ PagesOK(c) /\ CountedOK
      /\ CacheOK(c) /\ TransOK(c) /\ EndOK(c)
  BY MovesFacts
<1>1. /\ pc[c] = "idle" /\ Calm(c)
      /\ at[c] = "exclusive" /\ UNCHANGED opener
      /\ \/ /\ at'[c] = (IF doing[c] = "begin" THEN "create" ELSE "store")
            /\ pstate'[c] = PAGER_EXCLUSIVE /\ UNCHANGED <<todo, doing>>
         \/ at'[c] = "exclusive" /\ UNCHANGED <<pstate, todo, doing>>
         \/ at'[c] = "rest" /\ doing'[c] = "none" /\ UNCHANGED pstate
  BY <1>0 DEF GotExclusive, Lock, Reached, Resting, Idle, Go, Begins, Rest, State, Calm, StepTypeOK
<1>2. Modest(c)
  BY <1>0, <1>1 DEF Modest, Trusts, Owner, Returning, Calm, LabelOK, StepTypeOK, JournalOpen
<1>3. TransOK(c)'
  BY <1>0, <1>1 DEF TransOK, Calm, LabelOK, JournalOpen, StepTypeOK
<1>4. EndOK(c)'
  BY <1>0, <1>1 DEF EndOK, Calm, JournalOpen, StepTypeOK
<1>. QED  BY <1>1, <1>2, <1>3, <1>4, CalmStep

\* A journal is about to be made.
LEMMA LateJournalData ==
  ASSUME NEW c \in Conn, Moves(c), LateJournal(c)
  PROVE  DataInv'
<1>0. /\ StepTypeOK /\ LockTypeOK /\ PagerTypeOK /\ StateBacked(c) /\ JournalBacked(c)
      /\ LabelOK(c) /\ LockBacked(c) /\ Locked(c) /\ PagesOK(c) /\ CountedOK
      /\ CacheOK(c) /\ TransOK(c) /\ EndOK(c)
  BY MovesFacts
<1>1. /\ pc[c] = "idle" /\ Calm(c)
      /\ at[c] = "rest" /\ at'[c] = "create" /\ doing'[c] = "begin"
      /\ ~JournalOpen(c) /\ UNCHANGED <<opener, pstate>>
  BY <1>0 DEF LateJournal, JournalOpen, Reached, Resting, Idle, Go, Begins, Rest, State, Calm, StepTypeOK
<1>2. Modest(c)
  BY <1>0, <1>1 DEF Modest, Trusts, Owner, Returning, Calm, LabelOK, StepTypeOK, JournalOpen
<1>3. TransOK(c)'
  BY <1>0, <1>1 DEF TransOK, Calm, LabelOK, JournalOpen, StepTypeOK
<1>4. EndOK(c)'
  BY <1>0, <1>1 DEF EndOK, Calm, JournalOpen, StepTypeOK
<1>. QED  BY <1>1, <1>2, <1>3, <1>4, CalmStep

\* All pages are played back.
LEMMA PlayedBackData ==
  ASSUME NEW c \in Conn, Moves(c), PlayedBack(c)
  PROVE  DataInv'
<1>0. /\ StepTypeOK /\ LockTypeOK /\ PagerTypeOK /\ StateBacked(c) /\ JournalBacked(c)
      /\ LabelOK(c) /\ LockBacked(c) /\ Locked(c) /\ PagesOK(c) /\ CountedOK
      /\ CacheOK(c) /\ TransOK(c) /\ EndOK(c)
  BY MovesFacts
<1>1. /\ pc[c] = "idle" /\ Calm(c)
      /\ at[c] = "playback" /\ at'[c] = "close" /\ todo[c] = {}
      /\ UNCHANGED <<opener, pstate, doing, todo>>
  BY <1>0 DEF PlayedBack, LabelOK, Reached, Resting, Idle, Go, Begins, Rest, State, Calm, StepTypeOK
<1>2. Modest(c)
  BY <1>0, <1>1 DEF Modest, Trusts, Owner, Returning, Calm, LabelOK, StepTypeOK, JournalOpen
<1>3. TransOK(c)'
  BY <1>0, <1>1 DEF TransOK, Calm, LabelOK, JournalOpen, StepTypeOK
<1>4. EndOK(c)'
  <2>1. db = committed
    BY <1>0, <1>1, MovesFacts DEF EndOK, PagerTypeOK
  <2>. QED  BY <2>1, <1>0, <1>1 DEF EndOK, Calm, LabelOK
<1>. QED  BY <1>1, <1>2, <1>3, <1>4, CalmStep

\* The journal is closed.
LEMMA CloseJournalData ==
  ASSUME NEW c \in Conn, Moves(c), CloseJournal(c)
  PROVE  DataInv'
<1>0. /\ StepTypeOK /\ LockTypeOK /\ PagerTypeOK /\ StateBacked(c) /\ JournalBacked(c)
      /\ LabelOK(c) /\ LockBacked(c) /\ Locked(c) /\ PagesOK(c) /\ CountedOK
      /\ CacheOK(c) /\ TransOK(c) /\ EndOK(c)
  BY MovesFacts
<1>1. /\ pc[c] = "idle" /\ Calm(c)
      /\ at[c] = "close" /\ UNCHANGED <<pstate, doing>>
      /\ \/ JournalOpen(c) /\ opener' = Nobody /\ at'[c] = "delete"
         \/ ~JournalOpen(c) /\ opener' = opener /\ at'[c] = "unlock"
  BY <1>0 DEF CloseJournal, Unlock, JournalOpen, Reached, Resting, Idle, Go, Begins, Rest, State, Calm, StepTypeOK
<1>2. Modest(c)
  <2>1. CASE doing[c] = "commit"
    BY <2>1, <1>0, <1>1, PagerAssumption DEF Modest, EndOK, Trusts, Owner, Returning, Calm, JournalOpen
  <2>2. CASE doing[c] # "commit"
    BY <2>2, <1>0, <1>1 DEF Modest, EndOK
  <2>. QED  BY <2>1, <2>2
<1>3. TransOK(c)'
  BY <1>1, PagerAssumption, <1>0 DEF TransOK, Calm, JournalOpen
<1>4. EndOK(c)'
  BY <1>0, <1>1, PagerAssumption DEF EndOK, Calm, JournalOpen
<1>. QED  BY <1>1, <1>2, <1>3, <1>4, CalmStep

\* All pages are stored.
LEMMA StoredData ==
  ASSUME NEW c \in Conn, Moves(c), Stored(c)
  PROVE  DataInv'
<1>0. /\ StepTypeOK /\ LockTypeOK /\ PagerTypeOK /\ StateBacked(c) /\ JournalBacked(c)
      /\ LabelOK(c) /\ LockBacked(c) /\ Locked(c) /\ PagesOK(c) /\ CountedOK
      /\ CacheOK(c) /\ TransOK(c) /\ EndOK(c)
  BY MovesFacts
<1>1. /\ pc[c] = "idle" /\ Calm(c)
      /\ at[c] = "store" /\ todo[c] = {} /\ UNCHANGED opener
      /\ \/ doing[c] = "recycle" /\ at'[c] = "rest" /\ doing'[c] = "none" /\ UNCHANGED pstate
         \/ /\ doing[c] # "recycle" /\ at'[c] = "close" /\ doing'[c] = doing[c]
            /\ pstate'[c] = PAGER_SYNCED
  BY <1>0 DEF Stored, Lock, Reached, Resting, Idle, Go, Begins, Rest, State, Calm, StepTypeOK
<1>2. Modest(c)
  BY <1>0, <1>1 DEF Modest, Trusts, Owner, Returning, Calm, LabelOK, StepTypeOK, JournalOpen
<1>3. TransOK(c)'
  BY <1>0, <1>1 DEF TransOK, Calm, LabelOK, JournalOpen, StepTypeOK
<1>4. EndOK(c)'
  <2>1. CASE doing[c] = "recycle"
    BY <2>1, <1>1 DEF EndOK
  <2>2. CASE doing[c] # "recycle"
    <3>1. doing[c] = "commit" /\ opener = c /\ dirty[c] = {}
      BY <2>2, <1>0, <1>1 DEF LabelOK, JournalBacked, JournalOpen, TransOK
    <3>2. \A p \in Page : p \notin inJournal[c] => cache[c][p] \in {NoPage, db[p]}
      <4>1. journal.counted \subseteq inJournal[c]
        BY <3>1, <1>0 DEF TransOK, JournalOpen
      <4>2. \A p \in Page : p \notin inJournal[c] => committed[p] = db[p]
        BY <4>1, MovesFacts
      <4>. QED  BY <3>1, <4>2, <1>0 DEF CacheOK, LabelOK
    <3>3. /\ \A p \in inJournal[c] : cache[c][p] \in {NoPage, db[p]}
          /\ \A p \in Page : db[p] >= committed[p]
          /\ db[Page1] > committed[Page1]
      BY <3>1, <1>0, <1>1 DEF TransOK, JournalOpen
    <3>. QED  BY <3>1, <3>2, <3>3, <2>2, <1>1 DEF EndOK, Calm
  <2>. QED  BY <2>1, <2>2
<1>. QED  BY <1>1, <1>2, <1>3, <1>4, CalmStep

\* The lock is down.
LEMMA UnlockedData ==
  ASSUME NEW c \in Conn, Moves(c), Unlocked(c)
  PROVE  DataInv'
<1>0. /\ StepTypeOK /\ LockTypeOK /\ PagerTypeOK /\ StateBacked(c) /\ JournalBacked(c)
      /\ LabelOK(c) /\ LockBacked(c) /\ Locked(c) /\ PagesOK(c) /\ CountedOK
      /\ CacheOK(c) /\ TransOK(c) /\ EndOK(c)
  BY MovesFacts
<1>1. /\ pc[c] = "idle" /\ Calm(c)
      /\ at[c] = "unlock" /\ UNCHANGED opener
      /\ \/ at'[c] = "fetch" /\ doing[c] = "get" /\ rc[c] # "ioerr"
         \/ at'[c] = "drop"
         \/ at'[c] = "rest" 
  BY <1>0 DEF Unlocked, DropLock, Unlock, PagerTypeOK, Reached, Resting, Idle, Go, Begins, Rest, State, Calm, StepTypeOK
<1>2. Modest(c)
  <2>1. ~Owner(c)
    BY <1>0, <1>1 DEF Owner, LabelOK
  <2>2. CASE at'[c] = "fetch" /\ doing[c] = "get" /\ rc[c] # "ioerr"
    <3>1. Reading(c)
      BY <2>2, <1>0, <1>1 DEF LockBacked
    <3>2. ~leaked.bExclusive /\ \A d \in Conn : ~Owner(d)
      BY <3>1, <2>1, BytesHeld DEF Owner, Moves
    <3>. QED  BY <3>2, <2>2, <1>1, MovesFacts DEF Modest, Hidden, Returning
  <2>3. CASE at'[c] \in {"drop", "rest"}
    BY <2>1, <2>3, <1>1 DEF Modest, Trusts, Returning, Calm
  <2>. QED  BY <1>1, <2>2, <2>3
<1>3. TransOK(c)'
  BY <1>0, <1>1 DEF TransOK, Calm, LabelOK, JournalOpen, StepTypeOK
<1>4. EndOK(c)'
  BY <1>0, <1>1 DEF EndOK, Calm, JournalOpen, StepTypeOK
<1>. QED  BY <1>1, <1>2, <1>3, <1>4, CalmStep

\* What the files are recovered to stays when the originals that count stay.
LEMMA RecoveredStays ==
  ASSUME NEW c \in Conn, Moves(c), committed' = committed,
         \A q \in Page : committed[q] = IF q \in journal'.counted THEN journal'.orig[q] ELSE db'[q]
  PROVE  Recovered' = committed
BY MovesFacts DEF Recovered, PagerTypeOK

\* The database is the last commit if no page is counted, or every original is back.
LEMMA AllBack ==
  ASSUME NEW c \in Conn, Moves(c), \A q \in journal.counted : db[q] = journal.orig[q]
  PROVE  db = committed
<1>1. \A q \in Page : committed[q] = db[q]
  BY MovesFacts
<1>. QED  BY <1>1, MovesFacts DEF PagerTypeOK

\* A page is read.
LEMMA FetchData ==
  ASSUME NEW c \in Conn, NEW p \in Page, Moves(c), Fetch(c, p)
  PROVE  DataInv'
<1>0. /\ StepTypeOK /\ LockTypeOK /\ PagerTypeOK /\ HandleOK(c) /\ StateBacked(c) /\ JournalBacked(c)
      /\ LabelOK(c) /\ LockBacked(c) /\ Locked(c) /\ PagesOK(c) /\ CountedOK
      /\ CacheOK(c) /\ TransOK(c) /\ EndOK(c)
      /\ \A q \in Page : committed[q] = IF q \in journal.counted THEN journal.orig[q] ELSE db[q]
  BY MovesFacts
<1>1. /\ pc[c] = "idle"
      /\ UNCHANGED <<local, leaked, db, journal, opener, committed, pstate, errored, todo, dirty, inJournal>>
      /\ cache[c][p] = NoPage /\ cache' = [cache EXCEPT ![c][p] = db[p]]
      /\ held'[c] /\ at'[c] = "rest" /\ doing'[c] = "none"
      /\ at[c] = "fetch" \/ (at[c] = "rest" /\ held[c] /\ ~errored[c])
  BY <1>0 DEF Fetch, PagerTypeOK, LabelOK, Reached, Resting, Idle, Go, Begins, Rest, State, StepTypeOK
<1>a. cache'[c][p] = db[p] /\ \A q \in Page : q # p => cache'[c][q] = cache[c][q]
  BY <1>0, <1>1 DEF PagerTypeOK
<1>b. CASE at[c] = "fetch"
  <2>1. db = committed /\ Reading(c) /\ ~errored[c] /\ ~JournalOpen(c) /\ inJournal[c] = {}
    BY <1>0, <1>b, Seen DEF Trusts, Owner, LabelOK, LockBacked, PagesOK
  <2>2. Recovered' = committed
    BY <1>1, <1>0, RecoveredStays
  <2>3. CacheOK(c)' /\ TransOK(c)' /\ EndOK(c)' /\ Modest(c)
    BY <2>1, <1>a, <1>0, <1>1 DEF CacheOK, TransOK, EndOK, Modest, JournalOpen
  <2>. QED  BY <2>1, <2>2, <2>3, <1>1, QuietStep
<1>c. CASE at[c] = "rest" /\ held[c] /\ ~errored[c]
  <2>1. p \notin inJournal[c] => db[p] = committed[p]
    <3>1. CASE Owner(c)
      BY <3>1, <1>0, <1>c DEF Owner, TransOK, LabelOK
    <3>2. CASE ~Owner(c)
      BY <3>2, <1>c, Seen DEF Trusts
    <3>. QED  BY <3>1, <3>2
  <2>2. Recovered' = committed
    BY <1>1, <1>0, RecoveredStays
  <2>3. CacheOK(c)'
    BY <2>1, <1>0, <1>a, <1>1, <1>c DEF CacheOK
  <2>4. TransOK(c)'
    BY <1>0, <1>a, <1>1, <1>c DEF TransOK, PagesOK, JournalOpen, LabelOK
  <2>5. EndOK(c)' /\ Modest(c)
    BY <1>0, <1>1, <1>c DEF EndOK, Modest, Trusts, Owner, Returning, LabelOK, JournalOpen
  <2>. QED  BY <2>2, <2>3, <2>4, <2>5, <1>1, <1>c, QuietStep
<1>. QED  BY <1>1, <1>b, <1>c

\* The journal is synced.
LEMMA SyncJournalData ==
  ASSUME NEW c \in Conn, Moves(c), SyncJournal(c)
  PROVE  DataInv'
<1>0. /\ StepTypeOK /\ LockTypeOK /\ PagerTypeOK /\ HandleOK(c) /\ StateBacked(c) /\ JournalBacked(c)
      /\ LabelOK(c) /\ LockBacked(c) /\ Locked(c) /\ PagesOK(c) /\ CountedOK
      /\ CacheOK(c) /\ TransOK(c) /\ EndOK(c)
      /\ \A q \in Page : committed[q] = IF q \in journal.counted THEN journal.orig[q] ELSE db[q]
  BY MovesFacts
<1>1. /\ pc[c] = "idle"
      /\ UNCHANGED <<local, leaked, db, opener, held, cache, dirty, inJournal, committed, pstate, errored, doing, todo>>
      /\ at[c] = "sync" /\ at'[c] \in {"exclusive", "store"}
      /\ journal'.counted = inJournal[c] /\ journal'.orig = journal.orig
  BY <1>0 DEF SyncJournal, WaitOnLock, Lock, PagerTypeOK, Reached, Resting, Idle, Go, Begins, Rest, State, StepTypeOK
<1>a. JournalOpen(c) /\ doing[c] \in {"commit", "recycle"}
  BY <1>0, <1>1 DEF JournalBacked, LabelOK
<1>2. Recovered' = committed
  BY <1>0, <1>1, <1>a, RecoveredStays DEF TransOK
<1>3. CacheOK(c)'
  BY <1>0, <1>1 DEF CacheOK
<1>4. TransOK(c)'
  BY <1>0, <1>1, <1>a DEF TransOK, PagesOK, JournalOpen
<1>5. EndOK(c)'
  BY <1>1 DEF EndOK
<1>6. Modest(c)
  BY <1>0, <1>1, <1>a DEF Modest, Trusts, Owner, Returning, JournalOpen
<1>. QED  BY <1>1, <1>2, <1>3, <1>4, <1>5, <1>6, QuietStep

\* A page makes room.
LEMMA RecycleData ==
  ASSUME NEW c \in Conn, NEW p \in Page, Moves(c), Recycle(c, p)
  PROVE  DataInv'
<1>0. /\ StepTypeOK /\ LockTypeOK /\ PagerTypeOK /\ HandleOK(c) /\ StateBacked(c) /\ JournalBacked(c)
      /\ LabelOK(c) /\ LockBacked(c) /\ Locked(c) /\ PagesOK(c) /\ CountedOK
      /\ CacheOK(c) /\ TransOK(c) /\ EndOK(c)
      /\ \A q \in Page : committed[q] = IF q \in journal.counted THEN journal.orig[q] ELSE db[q]
  BY MovesFacts
<1>1. /\ pc[c] = "idle"
      /\ UNCHANGED <<local, leaked, db, journal, opener, held, dirty, inJournal, committed, pstate, errored>>
      /\ at[c] = "rest" /\ held[c]
      /\ \/ /\ p \notin dirty[c] /\ cache' = [cache EXCEPT ![c][p] = NoPage] /\ UNCHANGED <<at, doing, todo>>
         \/ /\ p \in dirty[c] /\ cache' = cache /\ todo'[c] = {p} /\ doing'[c] = "recycle"
            /\ \/ at'[c] = "sync"
               \/ at'[c] \in {"exclusive", "store"} /\ p \in journal.counted
  BY <1>0 DEF Recycle, WaitOnLock, Lock, PagerTypeOK, Reached, Resting, Idle, Go, Begins, Rest, State, StepTypeOK
<1>2. Recovered' = committed
  BY <1>0, <1>1, RecoveredStays
<1>a. \A q \in Page : cache'[c][q] = cache[c][q] \/ (q = p /\ p \notin dirty[c] /\ cache'[c][q] = NoPage)
  BY <1>0, <1>1 DEF PagerTypeOK
<1>3. CacheOK(c)'
  BY <1>0, <1>1, <1>a DEF CacheOK, StepTypeOK
<1>4. TransOK(c)'
  BY <1>0, <1>1, <1>a DEF TransOK, JournalOpen, LabelOK, StepTypeOK
<1>5. EndOK(c)'
  BY <1>1 DEF EndOK
<1>6. Modest(c)
  BY <1>0, <1>1 DEF Modest, Trusts, Owner, Returning, JournalOpen, LabelOK
<1>. QED  BY <1>1, <1>2, <1>3, <1>4, <1>5, <1>6, QuietStep

\* A page changes under a journal: it holds the page's original, the cache what is new.
LEMMA ChangeData ==
  ASSUME NEW c \in Conn, NEW p \in Page, Moves(c), Change(c, p), at[c] = "rest", held[c],
         ~errored[c], JournalOpen(c), UNCHANGED <<db, committed, opener, errored, held, pstate>>
  PROVE  /\ Recovered' = committed /\ CacheOK(c)'
         /\ \A q \in inJournal'[c] : journal'.orig[q] = committed[q]
         /\ journal'.counted \subseteq inJournal'[c]
         /\ \A q \in Page : db[q] >= committed[q]
         /\ \A q \in dirty'[c] : cache'[c][q] > committed[q]
         /\ \A q \in inJournal'[c] \ dirty'[c] : cache'[c][q] \in {NoPage, db[q]}
         /\ inJournal'[c] \ dirty'[c] \subseteq journal'.counted
         /\ pstate[c] = PAGER_RESERVED => inJournal'[c] \subseteq dirty'[c]
<1>0. /\ PagerTypeOK /\ CacheOK(c) /\ TransOK(c) /\ LabelOK(c) /\ PagesOK(c)
      /\ \A q \in Page : committed[q] = IF q \in journal.counted THEN journal.orig[q] ELSE db[q]
  BY MovesFacts
<1>c. /\ cache[c][p] \in 0..MaxVersion - 1 /\ cache'[c][p] = cache[c][p] + 1
      /\ \A q \in Page : q # p => cache'[c][q] = cache[c][q]
      /\ dirty'[c] = dirty[c] \cup {p} /\ inJournal'[c] = inJournal[c] \cup {p}
      /\ journal'.counted = journal.counted
      /\ p \in inJournal[c] => journal' = journal
      /\ p \notin inJournal[c] => journal'.orig[p] = cache[c][p]
      /\ \A q \in Page : q # p => journal'.orig[q] = journal.orig[q]
  BY <1>0, ChangeFacts
<1>t. /\ \A q \in inJournal[c] : journal.orig[q] = committed[q]
      /\ journal.counted \subseteq inJournal[c]
      /\ \A q \in Page : db[q] >= committed[q]
      /\ \A q \in dirty[c] : cache[c][q] > committed[q]
      /\ \A q \in inJournal[c] \ dirty[c] : cache[c][q] \in {NoPage, db[q]}
      /\ inJournal[c] \ dirty[c] \subseteq journal.counted
      /\ pstate[c] = PAGER_RESERVED => inJournal[c] \subseteq dirty[c]
  BY <1>0 DEF TransOK, LabelOK
<1>d. /\ p \notin inJournal[c] => cache[c][p] = committed[p]
      /\ inJournal[c] \subseteq Page /\ db[p] \in Nat /\ committed[p] \in Nat
  BY <1>0, <1>c DEF CacheOK, PagerTypeOK, StepTypeOK, Version
<1>1. Recovered' = committed
  BY <1>0, <1>c, <1>t, RecoveredStays
<1>2. CacheOK(c)'
  BY <1>0, <1>c DEF CacheOK
<1>3. cache'[c][p] > committed[p]
  <2>1. CASE p \in dirty[c]
    BY <2>1, <1>c, <1>d, <1>t
  <2>2. CASE p \in inJournal[c] \ dirty[c]
    BY <2>2, <1>c, <1>d, <1>t
  <2>3. CASE p \notin inJournal[c]
    BY <2>3, <1>c, <1>d
  <2>. QED  BY <2>1, <2>2, <2>3
<1>4. \A q \in dirty'[c] : cache'[c][q] > committed[q]
  BY <1>c, <1>3, <1>t, <1>0 DEF PagerTypeOK, StepTypeOK
<1>5. \A q \in inJournal'[c] : journal'.orig[q] = committed[q]
  BY <1>c, <1>d, <1>t
<1>6. \A q \in inJournal'[c] \ dirty'[c] : cache'[c][q] \in {NoPage, db[q]}
  BY <1>c, <1>d, <1>t
<1>. QED  BY <1>1, <1>2, <1>4, <1>5, <1>6, <1>c, <1>t

\* A page is changed.
LEMMA WriteData ==
  ASSUME NEW c \in Conn, NEW p \in Page, Moves(c), Write(c, p)
  PROVE  DataInv'
<1>0. /\ StepTypeOK /\ LockTypeOK /\ PagerTypeOK /\ HandleOK(c) /\ StateBacked(c) /\ JournalBacked(c)
      /\ LabelOK(c) /\ LockBacked(c) /\ Locked(c) /\ PagesOK(c) /\ CountedOK
      /\ CacheOK(c) /\ TransOK(c) /\ EndOK(c)
      /\ \A q \in Page : committed[q] = IF q \in journal.counted THEN journal.orig[q] ELSE db[q]
  BY MovesFacts
<1>1. /\ pc[c] = "idle"
      /\ UNCHANGED <<local, leaked, db, opener, held, committed, pstate, errored, at, doing, todo>>
      /\ at[c] = "rest" /\ doing[c] = "none" /\ held[c] /\ ~errored[c] /\ JournalOpen(c) /\ Change(c, p)
  BY <1>0 DEF Write, LabelOK, Reached, Resting, Idle, Go, Begins, Rest, State, StepTypeOK
<1>2. Recovered' = committed
  BY <1>1, ChangeData
<1>3. CacheOK(c)'
  BY <1>1, ChangeData
<1>4. TransOK(c)'
  BY <1>1, ChangeData DEF TransOK
<1>5. EndOK(c)'
  BY <1>1 DEF EndOK
<1>6. Modest(c)
  BY <1>1 DEF Modest, Trusts, Owner, Returning, JournalOpen
<1>. QED  BY <1>1, <1>2, <1>3, <1>4, <1>5, <1>6, QuietStep

\* A commit begins.
LEMMA CommitData ==
  ASSUME NEW c \in Conn, Moves(c), Commit(c)
  PROVE  DataInv'
<1>0. /\ StepTypeOK /\ LockTypeOK /\ PagerTypeOK /\ HandleOK(c) /\ StateBacked(c) /\ JournalBacked(c)
      /\ LabelOK(c) /\ LockBacked(c) /\ Locked(c) /\ PagesOK(c) /\ CountedOK
      /\ CacheOK(c) /\ TransOK(c) /\ EndOK(c)
      /\ \A q \in Page : committed[q] = IF q \in journal.counted THEN journal.orig[q] ELSE db[q]
  BY MovesFacts
<1>1. /\ pc[c] = "idle"
      /\ UNCHANGED <<local, leaked, db, opener, held, committed, pstate, errored>>
      /\ at[c] = "rest" /\ doing[c] = "none" /\ held[c] /\ ~errored[c]
      /\ \/ /\ inJournal[c] = {} /\ at'[c] = "close" /\ doing'[c] = "quit"
            /\ UNCHANGED <<cache, dirty, inJournal, journal, todo>>
         \/ /\ inJournal[c] # {} /\ at'[c] = "sync" /\ doing'[c] = "commit"
            /\ todo'[c] = dirty[c] \cup {Page1} /\ Change(c, Page1)
  BY <1>0 DEF Commit, LabelOK, Locked, DirtyCache, PagerTypeOK, Reached, Resting, Idle, Go, Begins, Rest, State, StepTypeOK
<1>a. CASE inJournal[c] = {} /\ at'[c] = "close" /\ doing'[c] = "quit"
           /\ UNCHANGED <<cache, dirty, inJournal, journal, todo>>
  <2>1. ASSUME JournalOpen(c) PROVE db = committed
    <3>1. journal.counted = {}
      BY <2>1, <1>a, <1>0, <1>1 DEF TransOK
    <3>. QED  BY <3>1, AllBack
  <2>2. ASSUME ~JournalOpen(c) PROVE db = committed
    BY <2>2, <1>1, Seen DEF Trusts, Owner
  <2>3. db = committed
    BY <2>1, <2>2
  <2>4. TransOK(c)' /\ EndOK(c)' /\ Modest(c)
    BY <2>3, <1>0, <1>1, <1>a DEF TransOK, EndOK, Modest, JournalOpen
  <2>. QED  BY <2>4, <1>1, <1>a, CalmStep DEF Calm
<1>b. CASE inJournal[c] # {} /\ at'[c] = "sync" /\ doing'[c] = "commit"
           /\ todo'[c] = dirty[c] \cup {Page1} /\ Change(c, Page1)
  <2>1. JournalOpen(c)
    BY <1>0, <1>1, <1>b DEF JournalBacked
  <2>2. dirty'[c] = dirty[c] \cup {Page1}
    BY <1>0, <1>b, Page1Known, ChangeFacts
  <2>3. Recovered' = committed
    BY <2>1, <1>1, <1>b, Page1Known, ChangeData
  <2>4. CacheOK(c)'
    BY <2>1, <1>1, <1>b, Page1Known, ChangeData
  <2>5. TransOK(c)'
    BY <2>1, <2>2, <1>1, <1>b, Page1Known, ChangeData DEF TransOK
  <2>6. EndOK(c)' /\ Modest(c)
    BY <2>1, <1>1, <1>b DEF EndOK, Modest, Trusts, Owner, Returning, JournalOpen
  <2>. QED  BY <2>3, <2>4, <2>5, <2>6, <1>1, QuietStep
<1>. QED  BY <1>1, <1>a, <1>b

\* The journal is created, or not.
LEMMA OpenJournalData ==
  ASSUME NEW c \in Conn, Moves(c), OpenJournal(c)
  PROVE  DataInv'
<1>0. /\ StepTypeOK /\ LockTypeOK /\ PagerTypeOK /\ HandleOK(c) /\ StateBacked(c) /\ JournalBacked(c)
      /\ LabelOK(c) /\ LockBacked(c) /\ Locked(c) /\ PagesOK(c) /\ CountedOK
      /\ CacheOK(c) /\ TransOK(c) /\ EndOK(c)
      /\ \A q \in Page : committed[q] = IF q \in journal.counted THEN journal.orig[q] ELSE db[q]
  BY MovesFacts
<1>1. /\ pc[c] = "idle"
      /\ UNCHANGED <<local, leaked, db, held, cache, dirty, inJournal, committed, errored, todo>>
      /\ at[c] = "create"
      /\ \/ /\ opener = Nobody /\ opener' = c /\ journal' = EmptyJournal
            /\ \/ at'[c] = "rest" /\ doing'[c] = "none"
               \/ at'[c] = "drop" /\ doing' = doing
         \/ opener' = opener /\ journal' = journal /\ at'[c] = "drop" /\ doing' = doing
  BY <1>0 DEF OpenJournal, DropLock, Unlock, PagerTypeOK, Reached, Resting, Idle, Go, Begins, Rest, State, StepTypeOK
<1>a. ~JournalOpen(c) /\ doing[c] = "begin" /\ inJournal[c] = {} /\ dirty[c] = {} /\ local[c].bReserved
  BY <1>0, <1>1 DEF LabelOK, PagesOK, Locked, StepTypeOK
<1>b. db = committed
  BY <1>1, <1>a, Seen DEF Trusts, Owner
<1>2. Recovered' = committed
  BY <1>0, <1>1, <1>b, EmptyFacts, RecoveredStays
<1>3. CacheOK(c)'
  BY <1>0, <1>1 DEF CacheOK
<1>4. TransOK(c)'
  <2>1. \A q \in Page : db[q] >= committed[q]
    BY <1>0, <1>b DEF PagerTypeOK, Version
  <2>. QED  BY <2>1, <1>1, <1>a, <1>0, EmptyFacts DEF TransOK, JournalOpen
<1>5. EndOK(c)'
  BY <1>1 DEF EndOK
<1>6. Modest(c)
  BY <1>b DEF Modest
<1>. QED  BY <1>1, <1>2, <1>3, <1>4, <1>5, <1>6, QuietStep

\* When a transaction is undone, the database is the last commit, or the journal is
\* to be played back.
LEMMA UndoEnds ==
  ASSUME NEW c \in Conn, NEW routine \in {"rollback", "reset", "shut"}, Moves(c), Resting(c),
         pstate[c] >= PAGER_RESERVED, Undo(c, routine)
  PROVE  /\ doing[c] = "none" /\ pc[c] = "idle" /\ at[c] = "rest"
         /\ doing'[c] \in {"rollback", "quit", "reset", "leave", "shut"}
         /\ \/ /\ at'[c] = "close" /\ db = committed
               /\ doing'[c] = "rollback" => inJournal[c] # {} /\ JournalOpen(c) /\ pstate[c] = PAGER_RESERVED
            \/ at'[c] = "playback" /\ JournalOpen(c) /\ pstate[c] >= PAGER_EXCLUSIVE
               /\ doing'[c] = routine /\ todo'[c] = journal.counted /\ inJournal[c] # {}
<1>0. StepTypeOK /\ PagerTypeOK /\ LabelOK(c) /\ Locked(c) /\ TransOK(c)
  BY MovesFacts
<1>1. at[c] = "rest" /\ pc[c] = "idle" /\ doing[c] = "none" /\ local[c].bReserved
  BY <1>0 DEF Resting, Idle, LabelOK, Locked
<1>2. CASE inJournal[c] = {} \/ ~JournalOpen(c)
  <2>1. ASSUME JournalOpen(c) PROVE db = committed
    <3>1. journal.counted = {}
      BY <2>1, <1>0, <1>1, <1>2 DEF TransOK
    <3>. QED  BY <3>1, AllBack
  <2>2. ASSUME ~JournalOpen(c) PROVE db = committed
    BY <2>2, <1>1, Seen DEF Trusts, Owner
  <2>3. at'[c] = "close" /\ doing'[c] \in {"quit", "leave", "shut"}
    BY <1>0, <1>2 DEF Undo, Unchanged, Begins, Go, DirtyCache, StepTypeOK
  <2>. QED  BY <2>1, <2>2, <2>3, <1>1
<1>3. CASE inJournal[c] # {} /\ JournalOpen(c) /\ pstate[c] = PAGER_RESERVED
  <2>1. db = committed
    BY <1>3, <1>1, Seen DEF Trusts, Owner
  <2>2. at'[c] = "close" /\ doing'[c] = routine
    BY <1>0, <1>3 DEF Undo, Begins, Go, DirtyCache, StepTypeOK
  <2>. QED  BY <2>1, <2>2, <1>1, <1>3
<1>4. CASE inJournal[c] # {} /\ JournalOpen(c) /\ pstate[c] # PAGER_RESERVED
  <2>1. at'[c] = "playback" /\ doing'[c] = routine /\ todo'[c] = journal.counted
    BY <1>0, <1>4 DEF Undo, Begins, Go, DirtyCache, PagerTypeOK, StepTypeOK
  <2>2. pstate[c] >= PAGER_EXCLUSIVE
    BY <1>0, <1>4 DEF StepTypeOK
  <2>. QED  BY <2>1, <2>2, <1>1, <1>4
<1>. QED  BY <1>2, <1>3, <1>4

\* The client takes its changes back.
LEMMA RollbackData ==
  ASSUME NEW c \in Conn, Moves(c), Rollback(c), broken' = "none", broken = "none"
  PROVE  DataInv'
<1>0. /\ StepTypeOK /\ LockTypeOK /\ PagerTypeOK /\ HandleOK(c) /\ StateBacked(c) /\ JournalBacked(c)
      /\ LabelOK(c) /\ LockBacked(c) /\ Locked(c) /\ PagesOK(c) /\ CountedOK
      /\ CacheOK(c) /\ TransOK(c) /\ EndOK(c)
      /\ \A q \in Page : committed[q] = IF q \in journal.counted THEN journal.orig[q] ELSE db[q]
  BY MovesFacts
<1>1. /\ pc[c] = "idle"
      /\ UNCHANGED <<local, leaked, db, journal, opener, held, inJournal, committed, pstate, errored>>
      /\ at[c] = "rest" /\ held[c] /\ pstate[c] >= PAGER_RESERVED /\ Undo(c, "rollback") /\ Resting(c)
      /\ \/ /\ pstate[c] = PAGER_RESERVED /\ dirty'[c] = {}
            /\ cache'[c] = [q \in Page |-> IF q \in dirty[c] THEN db[q] ELSE cache[c][q]]
         \/ /\ pstate[c] # PAGER_RESERVED /\ cache' = cache /\ dirty' = dirty
            /\ dirty[c] \subseteq journal.counted
  BY <1>0 DEF Rollback, PagerTypeOK, Reached, Resting, Idle, Go, Begins, Rest, State, StepTypeOK
<1>a. /\ doing[c] = "none"
      /\ doing'[c] \in {"rollback", "quit", "reset", "leave", "shut"}
      /\ \/ /\ at'[c] = "close" /\ db = committed
            /\ doing'[c] = "rollback" => inJournal[c] # {} /\ JournalOpen(c) /\ pstate[c] = PAGER_RESERVED
         \/ at'[c] = "playback" /\ JournalOpen(c) /\ pstate[c] >= PAGER_EXCLUSIVE
            /\ doing'[c] = "rollback" /\ todo'[c] = journal.counted /\ inJournal[c] # {}
  BY <1>1, UndoEnds
<1>b. inJournal[c] # {} => ~errored[c]
  BY <1>0 DEF PagesOK
<1>2. Recovered' = committed
  BY <1>0, <1>1, RecoveredStays
<1>3. CacheOK(c)'
  BY <1>0, <1>1 DEF CacheOK, PagesOK
<1>4. TransOK(c)'
  BY <1>0, <1>1, <1>a DEF TransOK, JournalOpen
<1>5. EndOK(c)'
  <2>1. CASE at'[c] = "close"
    <3>1. ASSUME doing'[c] = "rollback" PROVE \A q \in Page : cache'[c][q] \in {NoPage, committed[q]}
      <4>1. inJournal[c] \subseteq dirty[c] /\ ~errored[c]
        BY <3>1, <2>1, <1>a, <1>b, <1>1, <1>0 DEF TransOK
      <4>. QED  BY <4>1, <3>1, <2>1, <1>a, <1>1, <1>0 DEF CacheOK
    <3>. QED  BY <3>1, <2>1, <1>a, <1>1 DEF EndOK
  <2>2. CASE at'[c] = "playback"
    <3>1. inJournal[c] \ dirty[c] \subseteq journal.counted
      BY <2>2, <1>a, <1>1, <1>0 DEF TransOK
    <3>2. \A q \in Page \ journal.counted : cache'[c][q] \in {NoPage, committed[q]}
      BY <3>1, <2>2, <1>a, <1>b, <1>1, <1>0 DEF CacheOK
    <3>. QED  BY <3>2, <2>2, <1>a, <1>1 DEF EndOK
  <2>. QED  BY <2>1, <2>2, <1>a
<1>6. Modest(c)
  BY <1>a, <1>1 DEF Modest, Trusts, Owner, Returning, JournalOpen
<1>. QED  BY <1>1, <1>2, <1>3, <1>4, <1>5, <1>6, QuietStep

\* The client lets go of the pager: nothing is in its cache any more.
LEMMA LetGoData ==
  ASSUME NEW c \in Conn, NEW routine \in {"reset", "shut"}, Moves(c), Resting(c), LetGo(c, routine),
         UNCHANGED <<db, journal, opener, inJournal, errored, committed>>
  PROVE  DataInv'
<1>0. /\ StepTypeOK /\ LockTypeOK /\ PagerTypeOK /\ LabelOK(c) /\ Locked(c) /\ PagesOK(c)
      /\ CacheOK(c) /\ TransOK(c) /\ EndOK(c)
      /\ \A q \in Page : committed[q] = IF q \in journal.counted THEN journal.orig[q] ELSE db[q]
  BY MovesFacts
<1>p. pstate[c] \in {0, 1, 2, 4, 5}
  BY <1>0 DEF StepTypeOK
<1>1. /\ pc[c] = "idle" /\ at[c] = "rest" /\ doing[c] = "none"
      /\ UNCHANGED <<local, leaked>>
      /\ ~held'[c] /\ dirty'[c] = {} /\ \A q \in Page : cache'[c][q] = NoPage
      /\ \/ /\ pstate[c] < PAGER_RESERVED /\ at'[c] = "drop" /\ doing'[c] = routine
            /\ ~JournalOpen(c) \/ errored[c]
         \/ pstate[c] >= PAGER_RESERVED /\ Undo(c, routine) /\ pstate' = pstate
  <2>1. pc[c] = "idle" /\ at[c] = "rest" /\ doing[c] = "none"
    BY <1>0 DEF Resting, Idle, LabelOK
  <2>2. ~held'[c] /\ dirty'[c] = {} /\ \A q \in Page : cache'[c][q] = NoPage
    BY <1>0 DEF LetGo, EmptyCache, PagerTypeOK, StepTypeOK
  <2>3. UNCHANGED <<local, leaked>>
    BY DEF LetGo, DropLock, Unlock
  <2>4. CASE pstate[c] >= PAGER_RESERVED
    BY <2>1, <2>2, <2>3, <2>4 DEF LetGo
  <2>5. CASE ~(pstate[c] >= PAGER_RESERVED)
    <3>1. at'[c] = "drop" /\ doing'[c] = routine
      BY <2>5, <1>0 DEF LetGo, Begins, Go, StepTypeOK
    <3>2. pstate[c] < PAGER_RESERVED
      BY <2>5, <1>p
    <3>3. ~JournalOpen(c) \/ errored[c]
      BY <2>5, <1>0 DEF Locked
    <3>. QED  BY <2>1, <2>2, <2>3, <3>1, <3>2, <3>3
  <2>. QED  BY <2>4, <2>5
<1>a. /\ doing'[c] \in {"rollback", "quit", "reset", "leave", "shut"}
      /\ \/ at'[c] = "drop" /\ pstate[c] < PAGER_RESERVED
         \/ at'[c] = "close" /\ db = committed /\ doing'[c] # "rollback" /\ pstate' = pstate
         \/ at'[c] = "playback" /\ doing'[c] # "rollback" /\ todo'[c] = journal.counted /\ pstate' = pstate
  <2>1. CASE pstate[c] >= PAGER_RESERVED
    <3>1. Undo(c, routine) /\ pstate' = pstate
      BY <2>1, <1>p, <1>1
    <3>2. doing'[c] # "rollback"
      BY <3>1, <1>0 DEF Undo, Unchanged, Begins, Go, StepTypeOK
    <3>. QED  BY <2>1, <3>1, <3>2, UndoEnds
  <2>2. CASE ~(pstate[c] >= PAGER_RESERVED)
    BY <2>2, <1>1, <1>0 DEF PagerTypeOK, StepTypeOK
  <2>. QED  BY <2>1, <2>2
<1>2. Recovered' = committed
  BY <1>0, RecoveredStays
<1>3. CacheOK(c)'
  BY <1>1 DEF CacheOK
<1>4. TransOK(c)'
  BY <1>0, <1>1, <1>a DEF TransOK, JournalOpen
<1>5. EndOK(c)'
  BY <1>1, <1>a DEF EndOK
<1>6. Modest(c)
  BY <1>0, <1>a, <1>1 DEF Modest, Trusts, Owner, Returning, JournalOpen, StepTypeOK
<1>. QED  BY <1>1, <1>2, <1>3, <1>4, <1>5, <1>6, QuietStep

\* The client lets go of its last page.
LEMMA ResetData ==
  ASSUME NEW c \in Conn, Moves(c), Reset(c)
  PROVE  DataInv'
<1>0. /\ StepTypeOK /\ PagerTypeOK /\ LabelOK(c)
      /\ CacheOK(c) /\ TransOK(c) /\ EndOK(c)
      /\ \A q \in Page : committed[q] = IF q \in journal.counted THEN journal.orig[q] ELSE db[q]
  BY MovesFacts
<1>a. CASE LetGo(c, "reset")
  BY <1>a, LetGoData DEF Reset
<1>b. CASE ~LetGo(c, "reset")
  <2>1. /\ UNCHANGED <<db, committed, journal, opener, inJournal, errored, cache, dirty, pstate, at, doing, todo>>
        /\ UNCHANGED lockVars /\ errored[c] /\ ~held'[c]
    BY <1>b, <1>0 DEF Reset, PagerTypeOK
  <2>2. Recovered' = committed
    BY <2>1, <1>0, RecoveredStays
  <2>3. CacheOK(c)' /\ TransOK(c)' /\ EndOK(c)'
    BY <2>1, <1>0 DEF CacheOK, TransOK, EndOK, JournalOpen
  <2>4. Modest(c)
    BY <2>1 DEF Modest, Trusts, Owner, Returning, JournalOpen
  <2>. QED  BY <2>1, <2>2, <2>3, <2>4, QuietStep
<1>. QED  BY <1>a, <1>b

\* The client closes the pager.
LEMMA ShutData ==
  ASSUME NEW c \in Conn, Moves(c), Shut(c)
  PROVE  DataInv'
BY LetGoData DEF Shut

\* The lock is given up, or the handle closed.
LEMMA DroppedData ==
  ASSUME NEW c \in Conn, Moves(c), Dropped(c)
  PROVE  DataInv'
<1>0. /\ StepTypeOK /\ LockTypeOK /\ PagerTypeOK /\ HandleOK(c) /\ StateBacked(c) /\ JournalBacked(c)
      /\ LabelOK(c) /\ LockBacked(c) /\ Locked(c) /\ PagesOK(c) /\ CountedOK
      /\ CacheOK(c) /\ TransOK(c) /\ EndOK(c)
      /\ \A q \in Page : committed[q] = IF q \in journal.counted THEN journal.orig[q] ELSE db[q]
  BY MovesFacts
<1>1. /\ pc[c] = "idle"
      /\ UNCHANGED <<leaked, db, journal, committed>>
      /\ at[c] = "drop" /\ at'[c] = "rest" /\ doing'[c] = "none"
      /\ \/ /\ UNCHANGED <<local, held, cache, dirty, inJournal, opener, pstate, errored, todo>>
         \/ /\ local'[c] = NoLocks /\ ~held'[c] /\ inJournal'[c] = {} /\ opener' = IF opener = c THEN Nobody ELSE opener
            /\ \A q \in Page : cache'[c][q] = NoPage
  BY <1>0 DEF Dropped, Close, DestroyLock, Forget, EmptyCache, LockTypeOK, TableTypeOK, PagerTypeOK, Reached, Resting, Idle, Go, Begins, Rest, State, StepTypeOK
<1>a. inJournal[c] = {} /\ dirty[c] = {} /\ pstate[c] = PAGER_UNLOCK
  BY <1>0, <1>1 DEF PagesOK, LabelOK, Locked, StepTypeOK
<1>b. ~NoLocks.bReserved /\ c # Nobody
  BY PagerAssumption DEF NoLocks
<1>2. Recovered' = committed
  BY <1>0, <1>1, RecoveredStays
<1>3. CacheOK(c)'
  BY <1>0, <1>1 DEF CacheOK
<1>4. TransOK(c)'
  BY <1>0, <1>1, <1>a, <1>b DEF TransOK, JournalOpen, LabelOK
<1>5. EndOK(c)'
  BY <1>1 DEF EndOK
<1>6. Modest(c)
  BY <1>1, <1>a, <1>b DEF Modest, Trusts, Owner, Returning, JournalOpen
<1>7. held'[c] => held[c]
  BY <1>1
<1>8. (local[c].bExclusive /\ local[c].bReserved)' => local[c].bExclusive /\ local[c].bReserved
  BY <1>1, <1>b
<1>9. UNCHANGED <<db, committed>> /\ leaked' = leaked /\ opener' \in {opener, Nobody}
  BY <1>1
<1>. QED  BY <1>2, <1>3, <1>4, <1>5, <1>6, <1>7, <1>8, <1>9, QuietStep

\* Beside a writer with the whole range, nobody trusts or finishes anything.
LEMMA Sole ==
  ASSUME NEW c \in Conn, Moves(c), local[c].bExclusive, NEW d \in Conn, c # d
  PROVE  /\ at[d] \in {"close", "delete"} => doing[d] # "commit" /\ doing[d] # "get"
         /\ local[c].bReserved => ~Trusts(d) /\ at[d] \notin {"close", "delete"} /\ ~held[d]
<1>1. ControlInv /\ LockedInv /\ LabelOK(d) /\ LockBacked(d) /\ StateBacked(d) /\ EndOK(d) /\ StepTypeOK
  BY DEF Moves, DataInv, ControlInv, StoreInv
<1>2. ~local[d].bExclusive /\ ~Reading(d) /\ (local[c].bReserved => ~local[d].bReserved)
  BY <1>1, BytesHeld
<1>3. /\ pstate[d] >= PAGER_EXCLUSIVE /\ at[d] # "unlock" => local[d].bExclusive
      /\ pstate[d] >= PAGER_RESERVED /\ doing[d] # "get" /\ at[d] # "unlock" => local[d].bReserved
  BY <1>1, BytesHeld
<1>4. at[d] \in {"close", "delete"} => doing[d] # "commit" /\ doing[d] # "get"
  BY <1>1, <1>2, <1>3 DEF EndOK, LabelOK
<1>5. local[c].bReserved => ~held[d]
  BY DEF Moves, DataInv, Alone
<1>6. local[c].bReserved => ~Trusts(d)
  BY <1>1, <1>2, <1>5 DEF Trusts, LockBacked
<1>7. local[c].bReserved => at[d] \notin {"close", "delete"}
  BY <1>1, <1>2, <1>3, <1>4 DEF LabelOK
<1>. QED  BY <1>4, <1>5, <1>6, <1>7

\* The journal is deleted; this commits.
LEMMA DeleteJournalData ==
  ASSUME NEW c \in Conn, Moves(c), DeleteJournal(c)
  PROVE  DataInv'
<1>0. /\ StepTypeOK /\ LockTypeOK /\ PagerTypeOK /\ HandleOK(c) /\ StateBacked(c) /\ JournalBacked(c)
      /\ LabelOK(c) /\ LockBacked(c) /\ Locked(c) /\ PagesOK(c) /\ CountedOK
      /\ CacheOK(c) /\ TransOK(c) /\ EndOK(c)
      /\ \A q \in Page : committed[q] = IF q \in journal.counted THEN journal.orig[q] ELSE db[q]
  BY MovesFacts
<1>1. /\ pc[c] = "idle"
      /\ UNCHANGED <<local, leaked, db, opener, held, cache, pstate, errored, doing, todo>>
      /\ at[c] = "delete" /\ at'[c] = "unlock" /\ dirty'[c] = {} /\ inJournal'[c] = {}
      /\ \/ journal' = NoJournal
         \/ journal' = journal /\ opener # Nobody
      /\ committed' = IF doing[c] = "commit" THEN db ELSE committed
  BY <1>0 DEF DeleteJournal, Unlock, PagerTypeOK, Reached, Resting, Idle, Go, Begins, Rest, State, StepTypeOK
<1>l. ~JournalOpen(c)
  BY <1>0, <1>1 DEF LabelOK
<1>e. CASE doing[c] # "commit"
  <2>1. db = committed /\ committed' = committed
    BY <1>e, <1>0, <1>1 DEF EndOK
  <2>2. Recovered' = committed
    BY <2>1, <1>0, <1>1, EmptyFacts, RecoveredStays
  <2>3. CacheOK(c)'
    BY <1>e, <2>1, <1>0, <1>1 DEF CacheOK, LabelOK, PagesOK, EndOK
  <2>4. TransOK(c)' /\ EndOK(c)' /\ Modest(c)
    BY <1>l, <2>1, <1>1 DEF TransOK, EndOK, Modest, JournalOpen
  <2>. QED  BY <2>1, <2>2, <2>3, <2>4, <1>1, QuietStep
<1>f. CASE doing[c] = "commit"
  <2>1. /\ committed' = db /\ opener = Nobody /\ pstate[c] >= PAGER_EXCLUSIVE /\ held[c]
        /\ journal' = NoJournal /\ \A q \in Page : cache[c][q] \in {NoPage, db[q]}
    BY <1>f, <1>0, <1>1 DEF EndOK, LabelOK
  <2>2. local[c].bExclusive /\ local[c].bReserved
    <3>1. pstate[c] >= PAGER_RESERVED
      <4>1. pstate[c] \in {0, 1, 2, 4, 5}
        BY <1>0 DEF StepTypeOK
      <4>. QED  BY <2>1, <4>1
    <3>. QED  BY <2>1, <3>1, <1>f, <1>1, BytesHeld DEF Moves
  <2>3. ASSUME NEW d \in Conn \ {c} PROVE CacheOK(d)' /\ TransOK(d)' /\ EndOK(d)'
    <3>1. Apart(d) /\ CacheOK(d) /\ JournalBacked(d)
      BY DEF Moves, DataInv, Others, ControlInv, StoreInv
    <3>2. ~held[d] /\ at[d] \notin {"close", "delete"}
      BY <2>2, Sole
    <3>3. ~JournalOpen(d) /\ ~JournalOpen(d)' /\ at[d] # "playback"
      BY <2>1, <1>1, <3>1, PagerAssumption DEF JournalOpen, JournalBacked
    <3>. QED  BY <3>1, <3>2, <3>3 DEF CacheOK, TransOK, EndOK, Apart, Untouched
  <2>4. CacheOK(c)' /\ TransOK(c)' /\ EndOK(c)'
    BY <1>l, <2>1, <1>1 DEF CacheOK, TransOK, EndOK, JournalOpen
  <2>5. Recovered' = committed'
    BY <2>1, <1>0, <1>1, EmptyFacts DEF Recovered, PagerTypeOK
  <2>6. Hidden'
    BY <2>1, <1>1 DEF Hidden
  <2>7. Alone'
    BY <1>1 DEF Moves, DataInv, Alone
  <2>. QED  BY <2>3, <2>4, <2>5, <2>6, <2>7 DEF DataInv
<1>. QED  BY <1>e, <1>f

\* A pager that a step leaves alone, in a state where everything is in order.
LEMMA OthersFacts ==
  ASSUME NEW c \in Conn, Moves(c), NEW d \in Conn \ {c}
  PROVE  /\ Apart(d) /\ JournalBacked(d) /\ CacheOK(d) /\ TransOK(d) /\ EndOK(d)
         /\ Trusts(d)' <=> Trusts(d)
         /\ Owner(d)' <=> Owner(d)
         /\ Returning(d)' <=> Returning(d)
         /\ held'[d] = held[d] /\ local'[d] = local[d]
<1>1. Apart(d) /\ JournalBacked(d) /\ CacheOK(d) /\ TransOK(d) /\ EndOK(d)
  BY DEF Moves, DataInv, Others, ControlInv, StoreInv
<1>. QED  BY <1>1 DEF Apart, Untouched, Trusts, Owner, Returning

\* A changed page goes to the file.
LEMMA StorePageData ==
  ASSUME NEW c \in Conn, NEW p \in Page, Moves(c), StorePage(c, p)
  PROVE  DataInv'
<1>0. /\ StepTypeOK /\ LockTypeOK /\ PagerTypeOK /\ HandleOK(c) /\ StateBacked(c) /\ JournalBacked(c)
      /\ LabelOK(c) /\ LockBacked(c) /\ Locked(c) /\ PagesOK(c) /\ CountedOK
      /\ CacheOK(c) /\ TransOK(c) /\ EndOK(c)
      /\ \A q \in Page : committed[q] = IF q \in journal.counted THEN journal.orig[q] ELSE db[q]
  BY MovesFacts
<1>1. /\ pc[c] = "idle"
      /\ UNCHANGED <<local, leaked, journal, opener, held, inJournal, committed, pc, rc, pstate, errored, at, doing>>
      /\ at[c] = "store" /\ p \in todo[c] /\ doing[c] \in {"commit", "recycle"}
      /\ db'[p] = cache[c][p] /\ \A q \in Page : q # p => db'[q] = db[q]
      /\ dirty'[c] = dirty[c] \ {p} /\ todo'[c] = todo[c] \ {p}
      /\ cache'[c][p] \in {NoPage, cache[c][p]} /\ \A q \in Page : q # p => cache'[c][q] = cache[c][q]
  BY <1>0 DEF StorePage, LabelOK, PagerTypeOK, Reached, Resting, Idle, Go, Begins, Rest, State, StepTypeOK
<1>a. /\ JournalOpen(c) /\ pstate[c] >= PAGER_EXCLUSIVE /\ held[c]
      /\ p \in dirty[c] /\ p \in journal.counted /\ p \in inJournal[c]
  BY <1>0, <1>1 DEF JournalBacked, StateBacked, LabelOK, PagesOK, TransOK
<1>b. local[c].bExclusive /\ local[c].bReserved
  <2>1. pstate[c] \in {0, 1, 2, 4, 5}
    BY <1>0 DEF StepTypeOK
  <2>2. pstate[c] >= PAGER_RESERVED
    BY <2>1, <1>a
  <2>. QED  BY <1>a, <2>2, <1>1, BytesHeld DEF Moves
<1>o. Owner(c)'
  BY <1>a, <1>b, <1>1 DEF Owner, JournalOpen
<1>v. cache[c][p] > committed[p] /\ committed[p] \in Nat /\ cache[c][p] \in Int
  BY <1>0, <1>1, <1>a DEF TransOK, PagerTypeOK, Version
<1>2. Recovered' = committed
  BY <1>0, <1>1, <1>a, RecoveredStays
<1>3. CacheOK(c)'
  BY <1>0, <1>1, <1>a DEF CacheOK
<1>4. TransOK(c)'
  <2>1. /\ \A q \in inJournal[c] : journal.orig[q] = committed[q]
        /\ journal.counted \subseteq inJournal[c]
        /\ \A q \in Page : db[q] >= committed[q]
        /\ \A q \in dirty[c] : cache[c][q] > committed[q]
        /\ \A q \in inJournal[c] \ dirty[c] : cache[c][q] \in {NoPage, db[q]}
        /\ inJournal[c] \ dirty[c] \subseteq journal.counted
        /\ todo[c] \subseteq journal.counted
        /\ doing[c] = "commit" => dirty[c] \subseteq todo[c] /\ (Page1 \in todo[c] \/ db[Page1] > committed[Page1])
    BY <1>0, <1>1, <1>a DEF TransOK
  <2>2. \A q \in Page : db'[q] >= committed[q]
    BY <2>1, <1>1, <1>v
  <2>3. \A q \in dirty'[c] : cache'[c][q] > committed[q]
    BY <2>1, <1>0, <1>1 DEF StepTypeOK
  <2>4. \A q \in inJournal[c] \ dirty'[c] : cache'[c][q] \in {NoPage, db'[q]}
    BY <2>1, <1>0, <1>1 DEF StepTypeOK
  <2>5. doing[c] = "commit" => Page1 \in todo'[c] \/ db'[Page1] > committed[Page1]
    BY <2>1, <1>1, <1>v, Page1Known
  <2>6. /\ inJournal[c] \ dirty'[c] \subseteq journal.counted /\ todo'[c] \subseteq journal.counted
        /\ doing[c] = "commit" => dirty'[c] \subseteq todo'[c]
    BY <2>1, <1>1, <1>a
  <2>. QED  BY <2>1, <2>2, <2>3, <2>4, <2>5, <2>6, <1>1, <1>a DEF TransOK
<1>5. EndOK(c)'
  BY <1>1 DEF EndOK
<1>6. ASSUME NEW d \in Conn \ {c} PROVE CacheOK(d)' /\ TransOK(d)' /\ EndOK(d)' /\ ~Trusts(d)'
  <2>1. Apart(d) /\ JournalBacked(d) /\ CacheOK(d) /\ (Trusts(d)' <=> Trusts(d))
    BY OthersFacts
  <2>2. ~Trusts(d) /\ at[d] \notin {"close", "delete"}
    BY <1>b, Sole
  <2>3. ~JournalOpen(d) /\ ~JournalOpen(d)' /\ at[d] # "playback"
    BY <1>a, <1>1, <2>1 DEF JournalOpen, JournalBacked
  <2>. QED  BY <1>1, <2>1, <2>2, <2>3 DEF CacheOK, TransOK, EndOK, Apart, Untouched
<1>7. Hidden'
  <2>1. ~leaked'.bReserved
    BY <1>b, <1>1, BytesHeld DEF Moves
  <2>2. \A d \in Conn : Trusts(d)' => Owner(d)'
    BY <1>o, <1>6
  <2>3. \E d \in Conn : Owner(d)'
    BY <1>o
  <2>. QED  BY <2>1, <2>2, <2>3 DEF Hidden
<1>8. Alone'
  BY <1>1 DEF Moves, DataInv, Alone
<1>. QED  BY <1>1, <1>2, <1>3, <1>4, <1>5, <1>6, <1>7, <1>8 DEF DataInv

\* The original of a page goes back to the file.
LEMMA PlaybackPageData ==
  ASSUME NEW c \in Conn, NEW p \in Page, Moves(c), PlaybackPage(c, p)
  PROVE  DataInv'
<1>0. /\ StepTypeOK /\ LockTypeOK /\ PagerTypeOK /\ HandleOK(c) /\ StateBacked(c) /\ JournalBacked(c)
      /\ LabelOK(c) /\ LockBacked(c) /\ Locked(c) /\ PagesOK(c) /\ CountedOK
      /\ CacheOK(c) /\ TransOK(c) /\ EndOK(c)
      /\ \A q \in Page : committed[q] = IF q \in journal.counted THEN journal.orig[q] ELSE db[q]
  BY MovesFacts
<1>p. at[c] = "playback" /\ pstate[c] >= PAGER_EXCLUSIVE
  <2>1. at[c] = "playback"
    BY DEF PlaybackPage, Reached
  <2>. QED  BY <2>1, <1>0 DEF LabelOK, StateBacked
<1>1. /\ pc[c] = "idle"
      /\ UNCHANGED <<local, leaked, journal, opener, held, inJournal, committed, pc, rc, pstate, errored, at, doing>>
      /\ at[c] = "playback" /\ p \in todo[c]
      /\ db'[p] = journal.orig[p] /\ (\A q \in Page : q # p => db'[q] = db[q])
      /\ db' = [db EXCEPT ![p] = journal.orig[p]]
      /\ dirty'[c] = dirty[c] \ {p} /\ todo'[c] = todo[c] \ {p}
      /\ cache'[c][p] = (IF cache[c][p] = NoPage THEN NoPage ELSE journal.orig[p])
      /\ \A q \in Page : q # p => cache'[c][q] = cache[c][q]
  BY <1>0, <1>p DEF PlaybackPage, PagerTypeOK, Reached, Resting, Idle, Go, Begins, Rest, State, StepTypeOK
<1>a. JournalOpen(c) /\ pstate[c] >= PAGER_EXCLUSIVE /\ p \in journal.counted
  BY <1>0, <1>1, <1>p DEF JournalBacked, PagesOK
<1>b. local[c].bExclusive
  BY <1>a, <1>1, BytesHeld DEF Moves
<1>v. db'[p] = committed[p] /\ journal.orig[p] = committed[p] /\ committed[p] \in Nat
  BY <1>0, <1>1, <1>a DEF PagerTypeOK, Version
<1>2. Recovered' = committed
  BY <1>0, <1>1, <1>a, RecoveredStays
<1>3. CacheOK(c)'
  BY <1>0, <1>1, <1>v DEF CacheOK
<1>4. TransOK(c)'
  <2> SUFFICES ASSUME doing[c] # "get" PROVE TransOK(c)'
    BY <1>1 DEF TransOK
  <2>1. /\ \A q \in inJournal[c] : journal.orig[q] = committed[q]
        /\ journal.counted \subseteq inJournal[c]
        /\ \A q \in Page : db[q] >= committed[q]
        /\ \A q \in dirty[c] : cache[c][q] > committed[q]
    BY <1>0, <1>a DEF TransOK
  <2>2. \A q \in Page : db'[q] >= committed[q]
    BY <2>1, <1>1, <1>v
  <2>3. \A q \in dirty'[c] : cache'[c][q] > committed[q]
    BY <2>1, <1>0, <1>1 DEF StepTypeOK
  <2>. QED  BY <2>1, <2>2, <2>3, <1>1 DEF TransOK
<1>5. EndOK(c)'
  <2>1. \A q \in journal.counted \ todo'[c] : db'[q] = journal.orig[q]
    BY <1>0, <1>1 DEF EndOK, PagerTypeOK
  <2>2. doing[c] = "rollback" => \A q \in Page \ todo'[c] : cache'[c][q] \in {NoPage, committed[q]}
    BY <1>0, <1>1, <1>v DEF EndOK
  <2>. QED  BY <2>1, <2>2, <1>1 DEF EndOK
<1>s. db = committed => db' = committed
  BY <1>0, <1>1, <1>v DEF PagerTypeOK
<1>6. ASSUME NEW d \in Conn \ {c} PROVE CacheOK(d)' /\ TransOK(d)' /\ EndOK(d)'
  <2>1. Apart(d) /\ JournalBacked(d) /\ CacheOK(d) /\ EndOK(d)
    BY OthersFacts
  <2>2. at[d] \in {"close", "delete"} => doing[d] # "commit"
    BY <1>b, Sole
  <2>3. ~JournalOpen(d) /\ ~JournalOpen(d)' /\ at[d] # "playback"
    BY <1>a, <1>1, <2>1 DEF JournalOpen, JournalBacked
  <2>4. EndOK(d)'
    BY <1>1, <1>s, <2>1, <2>2, <2>3 DEF EndOK, Apart, Untouched
  <2>. QED  BY <1>1, <2>1, <2>3, <2>4 DEF CacheOK, TransOK, Apart, Untouched
<1>7. Hidden'
  <2>1. (Trusts(c)' <=> Trusts(c)) /\ (Owner(c)' <=> Owner(c)) /\ (Returning(c)' <=> Returning(c))
    BY <1>1 DEF Trusts, Owner, Returning, JournalOpen
  <2>2. \A d \in Conn : (Trusts(d)' <=> Trusts(d)) /\ (Owner(d)' <=> Owner(d)) /\ (Returning(d)' <=> Returning(d))
    BY <2>1, OthersFacts
  <2>3. Hidden
    BY DEF Moves, DataInv
  <2>. QED  BY <1>1, <1>s, <2>2, <2>3 DEF Hidden
<1>8. Alone'
  BY <1>1 DEF Moves, DataInv, Alone
<1>. QED  BY <1>1, <1>2, <1>3, <1>4, <1>5, <1>6, <1>7, <1>8 DEF DataInv

\* A handle is opened; it may be the one that creates the mapping.
LEMMA StartData ==
  ASSUME NEW c \in Conn, Moves(c), Start(c)
  PROVE  DataInv'
<1>0. /\ StepTypeOK /\ LockTypeOK /\ PagerTypeOK /\ StateBacked(c)
      /\ CacheOK(c) /\ TransOK(c) /\ EndOK(c)
      /\ \A q \in Page : committed[q] = IF q \in journal.counted THEN journal.orig[q] ELSE db[q]
  BY MovesFacts
<1>1. /\ UNCHANGED <<db, journal, opener, held, cache, dirty, inJournal, committed, pstate, errored, at, doing, todo>>
      /\ c \notin mapped /\ local'[c] = NoLocks
      /\ leaked' = leaked \/ (leaked' = NoLocks /\ mapped = {})
  BY <1>0 DEF Start, Open, CreateLock, LockTypeOK, TableTypeOK
<1>a. at[c] = "rest" /\ pstate[c] = PAGER_UNLOCK /\ ~JournalOpen(c) /\ ~NoLocks.bReserved
  BY <1>0, <1>1 DEF StateBacked, NoLocks
<1>b. leaked' = leaked \/ (leaked' = NoLocks /\ \A d \in Conn : ~Returning(d) /\ ~Returning(d)')
  <2>1. mapped = {} => \A d \in Conn : at[d] = "rest"
    BY DEF Moves, ControlInv, StoreInv, StateBacked
  <2>. QED  BY <2>1, <1>1 DEF Returning
<1>2. Recovered' = committed
  BY <1>0, <1>1, RecoveredStays
<1>3. CacheOK(c)' /\ TransOK(c)' /\ EndOK(c)'
  BY <1>0, <1>1, <1>a DEF CacheOK, TransOK, EndOK, JournalOpen
<1>4. Modest(c)
  BY <1>1, <1>a DEF Modest, Trusts, Owner, Returning, JournalOpen
<1>. QED  BY <1>1, <1>a, <1>b, <1>2, <1>3, <1>4, QuietStep

\* A process dies: its locks stay in the mapping, and keep the others from a database it
\* may have left half written.
LEMMA Die1Data ==
  ASSUME NEW c \in Conn, Moves(c), Die1(c), broken = "none", broken' = "none"
  PROVE  DataInv'
<1>0. /\ StepTypeOK /\ LockTypeOK /\ PagerTypeOK /\ Hidden
      /\ \A q \in Page : committed[q] = IF q \in journal.counted THEN journal.orig[q] ELSE db[q]
  BY MovesFacts
<1>1. /\ UNCHANGED <<db, journal, committed>>
      /\ local'[c] = NoLocks /\ pc[c] # "unprobe"
      /\ leaked'.bReserved = (leaked.bReserved \/ local[c].bReserved)
      /\ leaked'.bExclusive = (leaked.bExclusive \/ local[c].bExclusive)
      /\ ~held'[c] /\ at'[c] = "rest" /\ opener' = IF opener = c THEN Nobody ELSE opener
      /\ \A q \in Page : cache'[c][q] = NoPage
  BY <1>0 DEF Die1, Die, Crash, Forget, Rest, Begins, Go, EmptyCache, LockTypeOK, TableTypeOK, PagerTypeOK, StepTypeOK
<1>a. ~NoLocks.bReserved /\ ~NoLocks.bExclusive /\ c # Nobody
  BY PagerAssumption DEF NoLocks
<1>2. Recovered' = committed
  BY <1>0, <1>1, RecoveredStays
<1>3. CacheOK(c)' /\ TransOK(c)' /\ EndOK(c)'
  BY <1>1, <1>a DEF CacheOK, TransOK, EndOK, JournalOpen
<1>4. ~Trusts(c)' /\ ~Returning(c)'
  BY <1>1, <1>a DEF Trusts, Returning
<1>5. \A d \in Conn \ {c} : CacheOK(d)' /\ TransOK(d)' /\ EndOK(d)'
  BY <1>1, OthersFacts, ApartData, NobodyOpens
<1>6. Hidden'
  <2> SUFFICES ASSUME db # committed PROVE Hidden'
    BY <1>1 DEF Hidden
  <2>1. \A d \in Conn : Trusts(d)' => Owner(d)'
    BY <1>0, <1>4, OthersFacts DEF Hidden
  <2>2. Owner(c) => leaked'.bExclusive
    BY <1>1 DEF Owner
  <2>3. leaked'.bReserved => leaked'.bExclusive
    <3>1. local[c].bReserved => Owner(c)
      BY <1>0, <1>1 DEF Hidden, Trusts
    <3>. QED  BY <3>1, <2>2, <1>0, <1>1 DEF Hidden
  <2>4. (\E d \in Conn : Returning(d)') => leaked'.bExclusive \/ \E d \in Conn : Owner(d)'
    BY <1>0, <1>1, <1>4, <2>2, OthersFacts DEF Hidden
  <2>. QED  BY <2>1, <2>3, <2>4 DEF Hidden
<1>7. Alone'
  <2>1. Alone
    BY DEF Moves, DataInv
  <2>. QED  BY <2>1, <1>1, <1>a, OthersFacts DEF Alone
<1>. QED  BY <1>1, <1>2, <1>3, <1>5, <1>6, <1>7 DEF DataInv

\* What one byte-lock call does to what the pagers go by.
LEMMA LockCallFacts ==
  ASSUME NEW c \in Conn, Moves(c), LockCall(c)
  PROVE  /\ pc[c] # "idle" /\ leaked' = leaked
         /\ (local[c].bReserved /\ pc[c] # "unprobe")' =>
              (local[c].bReserved /\ pc[c] # "unprobe") \/ at[c] = "reserve"
         /\ at[c] = "probed" /\ pc'[c] = "idle" /\ rc'[c] = "held" =>
              pc[c] = "probe" /\ ~ReservedFree
         /\ at[c] = "unlock" /\ doing[c] = "get" /\ rc'[c] # "ioerr" => rc[c] # "ioerr"
         /\ (local[c].bExclusive /\ local[c].bReserved)' =>
              \/ local[c].bExclusive /\ local[c].bReserved
              \/ pc[c] = "lockExclusive" /\ ExclusiveFree /\ local[c].bReserved
<1>0. LockTypeOK /\ HandleOK(c) /\ LockBacked(c) /\ LockStep(c)
  BY MovesFacts DEF LockCall
<1> USE DEF Continue, Return, Goto, Result, LockTypeOK, TableTypeOK, LockRecord
<1>b. /\ locktype[c] = SHARED_LOCK => ~local[c].bExclusive
      /\ pc[c] \notin {"idle", "giveExclusive"} => ~local[c].bExclusive
  BY <1>0 DEF HandleOK, ExclusiveBacked
<1>k. /\ at[c] = "probed" => pc[c] \in {"probe", "unprobe", "idle"}
      /\ at[c] = "unlock" /\ doing[c] = "get" =>
           pc[c] \in {"giveExclusive", "relockRead", "giveReserved", "givePending", "idle"}
      /\ pc[c] = "lockReserved" => at[c] = "reserve"
  BY <1>0 DEF LockBacked
<1>1. CASE TryPending(c)
  BY <1>1, <1>0, <1>b, <1>k DEF TryPending, LockPending
<1>2. CASE TryRead(c)
  BY <1>2, <1>0, <1>b, <1>k DEF TryRead, LockRead
<1>3. CASE ReleasePending(c)
  BY <1>3, <1>0, <1>b, <1>k DEF ReleasePending, UnlockPending
<1>4. CASE TryReserved(c)
  BY <1>4, <1>0, <1>b, <1>k DEF TryReserved, LockReserved
<1>5. CASE DropRead(c)
  BY <1>5, <1>0, <1>b, <1>k DEF DropRead, UnlockRange
<1>6. CASE TryExclusive(c)
  BY <1>6, <1>0, <1>b, <1>k DEF TryExclusive, LockExclusive
<1>7. CASE GiveExclusive(c)
  BY <1>7, <1>0, <1>b, <1>k DEF GiveExclusive, UnlockRange
<1>8. CASE RelockRead(c)
  BY <1>8, <1>0, <1>b, <1>k DEF RelockRead, LockRead
<1>9. CASE GiveReserved(c)
  BY <1>9, <1>0, <1>b, <1>k DEF GiveReserved, UnlockReserved
<1>10. CASE GiveRead(c)
  BY <1>10, <1>0, <1>b, <1>k DEF GiveRead, UnlockRange
<1>11. CASE GivePending(c)
  BY <1>11, <1>0, <1>b, <1>k DEF GivePending, UnlockPending
<1>12. CASE Probe(c)
  BY <1>12, <1>0, <1>b, <1>k DEF Probe, LockReserved
<1>13. CASE Unprobe(c)
  BY <1>13, <1>0, <1>b, <1>k DEF Unprobe, UnlockReserved
<1>. QED  BY <1>0, <1>1, <1>2, <1>3, <1>4, <1>5, <1>6, <1>7, <1>8, <1>9, <1>10, <1>11, <1>12, <1>13 DEF LockStep

\* A read lock, or the RESERVED byte, of a living handle shows in the mapping.
LEMMA TableShows ==
  ASSUME ControlInv, NEW d \in Conn
  PROVE  /\ Reading(d) \/ local[d].bReserved \/ local[d].bExclusive => d \in mapped
         /\ d \in mapped /\ (Reading(d) \/ local[d].bExclusive) => ~ExclusiveFree
         /\ mapped # {} /\ ~ReservedFree =>
              leaked.bReserved \/ \E e \in mapped : local[e].bReserved
<1>1. TableInv /\ HandleOK(d) /\ LockTypeOK
  BY DEF ControlInv, StoreInv, LockInv
<1>2. Reading(d) \/ local[d].bReserved \/ local[d].bExclusive => d \in mapped
  <2>1. d \notin mapped => locktype[d] = NO_LOCK /\ pc[d] = "idle"
    BY <1>1 DEF HandleOK, ControlOK
  <2>. QED  BY <2>1, <1>1 DEF HandleOK, ReservedBacked, ExclusiveBacked, ReadBacked
<1>3. ASSUME d \in mapped, Reading(d) \/ local[d].bExclusive PROVE ~ExclusiveFree
  <2>1. CountAccurate /\ FlagsAccurate /\ TableTypeOK
    BY <1>1, <1>3 DEF TableInv, TableAccurate
  <2>2. CASE local[d].bExclusive
    BY <2>1, <2>2, <1>3 DEF FlagsAccurate, ExclusiveFree
  <2>3. CASE Reading(d)
    <3>1. Readers # {}
      BY <2>3, <1>3 DEF Readers
    <3>2. Cardinality(Readers) \in Nat /\ Cardinality(Readers) # 0
      BY <3>1, <2>1, ReadersCount
    <3>3. leaked.nReaders \in Nat
      BY <2>1 DEF TableTypeOK, LockRecord
    <3>. QED  BY <3>2, <3>3, <2>1 DEF CountAccurate, ExclusiveFree
  <2>. QED  BY <1>3, <2>2, <2>3
<1>4. mapped # {} /\ ~ReservedFree => leaked.bReserved \/ \E e \in mapped : local[e].bReserved
  BY <1>1 DEF TableInv, TableAccurate, FlagsAccurate, ReservedFree
<1>. QED  BY <1>2, <1>3, <1>4

\* One byte-lock call, by which no known flaw comes to harm.
LEMMA LockCallData ==
  ASSUME NEW c \in Conn, Moves(c), LockCall(c), broken = "none", broken' = "none"
  PROVE  DataInv'
<1>0. /\ StepTypeOK /\ LockTypeOK /\ PagerTypeOK /\ HandleOK(c) /\ StateBacked(c)
      /\ LabelOK(c) /\ LockBacked(c) /\ CacheOK(c) /\ TransOK(c) /\ EndOK(c) /\ Hidden
      /\ \A q \in Page : committed[q] = IF q \in journal.counted THEN journal.orig[q] ELSE db[q]
      /\ ControlInv /\ LockedInv
  BY MovesFacts DEF Moves
<1>1. /\ UNCHANGED <<db, journal, opener, held, cache, dirty, inJournal, committed, pstate, errored, at, doing, todo>>
      /\ ~Misled(c) /\ ~Exposes(c)
  BY DEF LockCall
<1>f. /\ pc[c] # "idle" /\ leaked' = leaked
      /\ (local[c].bReserved /\ pc[c] # "unprobe")' =>
           (local[c].bReserved /\ pc[c] # "unprobe") \/ at[c] = "reserve"
      /\ at[c] = "probed" /\ pc'[c] = "idle" /\ rc'[c] = "held" =>
           pc[c] = "probe" /\ ~ReservedFree
      /\ at[c] = "unlock" /\ doing[c] = "get" /\ rc'[c] # "ioerr" => rc[c] # "ioerr"
      /\ (local[c].bExclusive /\ local[c].bReserved)' =>
           \/ local[c].bExclusive /\ local[c].bReserved
           \/ pc[c] = "lockExclusive" /\ ExclusiveFree /\ local[c].bReserved
  BY LockCallFacts
<1>2. Recovered' = committed
  BY <1>0, <1>1, RecoveredStays
<1>3. CacheOK(c)' /\ TransOK(c)' /\ EndOK(c)'
  BY <1>0, <1>1 DEF CacheOK, TransOK, EndOK, JournalOpen
<1>4. ~Owner(c)
  <2>1. pstate[c] >= PAGER_EXCLUSIVE => at[c] = "unlock"
    BY <1>0, <1>f DEF StateBacked
  <2>. QED  BY <2>1, <1>0 DEF Owner, LabelOK
<1>5. at[c] = "probed" /\ pc'[c] = "idle" /\ rc'[c] = "held" => db = committed
  <2> SUFFICES ASSUME at[c] = "probed", pc'[c] = "idle", rc'[c] = "held", db # committed PROVE FALSE
    OBVIOUS
  <2>1. pc[c] = "probe" /\ ~ReservedFree /\ Reading(c) /\ c \in mapped /\ ~local[c].bReserved
    BY <1>0, <1>f, TableShows DEF LockBacked, LabelOK, Level, HandleOK, ReservedBacked
  <2>2. CASE leaked.bReserved
    BY <2>1, <2>2, <1>0, BytesHeld DEF Hidden
  <2>3. CASE \E e \in mapped : local[e].bReserved
    <3>1. PICK e \in mapped : local[e].bReserved
      BY <2>3
    <3>2. e \in Conn /\ e # c
      BY <2>1, <3>1, <1>0 DEF LockTypeOK, TableTypeOK
    <3>3. Owner(e)
      BY <2>1, <3>1, <3>2, <1>0, <1>1 DEF Misled, Hidden, Trusts
    <3>. QED  BY <2>1, <3>2, <3>3, <1>0, BytesHeld DEF Owner
  <2>. QED  BY <2>1, <2>2, <2>3, TableShows, <1>0
<1>6. Modest(c)
  <2>1. at[c] = "reserve" => held[c]
    BY <1>0 DEF LabelOK
  <2>. QED  BY <2>1, <1>1, <1>4, <1>5, <1>f DEF Modest, Trusts, Returning
<1>7. (local[c].bExclusive /\ local[c].bReserved)' =>
        \/ local[c].bExclusive /\ local[c].bReserved
        \/ \A d \in Conn \ {c} : ~held[d]
  <2> SUFFICES ASSUME pc[c] = "lockExclusive", ExclusiveFree, local[c].bReserved, NEW d \in Conn \ {c}, held[d]
               PROVE  FALSE
    BY <1>f
  <2>1. Covered(d)
    BY <1>1 DEF Exposes
  <2>2. ~local[d].bReserved
    BY <1>0, BytesHeld
  <2>. QED  BY <2>1, <2>2, <1>0, TableShows DEF Covered
<1>. QED  BY <1>1, <1>f, <1>2, <1>3, <1>6, <1>7, QuietStep

\* Known flaws that came to harm stay so.
LEMMA BrokenStays ==
  ASSUME [PagerNext]_vars, broken' = "none"
  PROVE  broken = "none"
<1>1. CASE UNCHANGED vars
  BY <1>1 DEF vars
<1>2. ASSUME NEW c \in Conn, Start(c) \/ Die1(c) \/ LockCall(c) PROVE broken = "none"
  BY <1>2 DEF Start, Die1, LockCall
<1>3. ASSUME NEW c \in Conn, PagerStep(c) PROVE broken = "none"
  BY <1>3 DEF PagerStep, GetShared, GotShared, HasHotJournal, Probed, HotLocked, OpenHotJournal, Begin,
     GotReserved, GotExclusive, OpenJournal, LateJournal, Commit, SyncJournal, Stored, PlayedBack,
     CloseJournal, DeleteJournal, Unlocked, Rollback, Reset, Shut, Dropped, Fetch, Write, Recycle,
     StorePage, PlaybackPage
<1>. QED  BY <1>1, <1>2, <1>3 DEF PagerNext

\* What is known of a step by which no known flaw comes to harm.
LEMMA SoundMoves ==
  ASSUME InOrder, SoundInv, [PagerNext]_vars, broken' = "none"
  PROVE  /\ ControlInv /\ LockedInv /\ DataInv /\ broken = "none"
         /\ \A c \in Conn : Start(c) \/ Die1(c) \/ LockCall(c) \/ PagerStep(c) => Moves(c)
<1>1. broken = "none"
  BY BrokenStays
<1>2. ControlInv /\ LockedInv /\ DataInv
  BY <1>1 DEF InOrder, Kept, SoundInv
<1>3. ControlInv' /\ StoreInv'
  BY <1>2, ControlStep DEF ControlInv
<1>. QED  BY <1>1, <1>2, <1>3, OneMoves DEF Moves

\* Every step, until a known flaw comes to harm, keeps the files and caches in order.
LEMMA SoundStep ==
  ASSUME InOrder, SoundInv, [PagerNext]_vars
  PROVE  SoundInv'
<1> SUFFICES ASSUME broken' = "none" PROVE DataInv'
  BY DEF SoundInv
<1>0. broken = "none" /\ DataInv
  BY SoundMoves
<1>1. CASE UNCHANGED vars
  BY <1>0, <1>1 DEF vars, DataInv, Recovered, Hidden, Alone, CacheOK, TransOK, EndOK, Trusts, Owner, Returning, JournalOpen
<1>2. ASSUME NEW c \in Conn, Start(c) \/ Die1(c) \/ LockCall(c) PROVE DataInv'
  <2>1. Moves(c)
    BY <1>2, SoundMoves
  <2>. QED  BY <1>0, <1>2, <2>1, StartData, Die1Data, LockCallData
<1>3. ASSUME NEW c \in Conn, PagerStep(c) PROVE DataInv'
  <2>1. Moves(c)
    BY <1>3, SoundMoves
  <2>. QED  BY <1>0, <1>3, <2>1, GetSharedData, GotSharedData, HasHotJournalData, ProbedData, HotLockedData,
     OpenHotJournalData, BeginData, GotReservedData, GotExclusiveData,
     OpenJournalData, LateJournalData, CommitData, SyncJournalData, StoredData,
     PlayedBackData, CloseJournalData, DeleteJournalData, UnlockedData,
     RollbackData, ResetData, ShutData, DroppedData, FetchData, WriteData,
     RecycleData, StorePageData, PlaybackPageData
     DEF PagerStep
<1>. QED  BY <1>1, <1>2, <1>3 DEF PagerNext

\* At first the database is the last commit, and nobody has anything.
LEMMA SoundInit == PagerInit => SoundInv
<1> SUFFICES ASSUME PagerInit PROVE DataInv
  BY DEF SoundInv
<1>1. PagerTypeOK /\ StepTypeOK
  BY ControlInit DEF ControlInv, PagerTypeOK
<1>2. Recovered = committed
  BY <1>1 DEF PagerInit, Recovered, NoJournal, PagerTypeOK
<1>3. Hidden /\ Alone
  BY DEF PagerInit, Hidden, Alone
<1>4. ASSUME NEW c \in Conn PROVE CacheOK(c) /\ TransOK(c) /\ EndOK(c)
  <2>1. ~JournalOpen(c)
    BY PagerAssumption DEF PagerInit, JournalOpen
  <2>. QED  BY <2>1 DEF PagerInit, CacheOK, TransOK, EndOK, EmptyCache
<1>. QED  BY <1>2, <1>3, <1>4 DEF DataInv

\* The two invariants hold together.
LEMMA Sound == PagerSpec => [](InOrder /\ SoundInv)
<1>1. SoundInv /\ InOrder /\ [PagerNext]_vars => SoundInv'
  BY SoundStep
<1>. QED  BY <1>1, SoundInit, Control, PTL DEF PagerSpec

\* Whatever dies whenever, the files can be brought back to the last commit. (pager.c)
THEOREM DatabaseRecoverable == PagerSpec => []Recoverable
<1>1. InOrder /\ SoundInv => Recoverable
  BY DEF SoundInv, DataInv, Recoverable
<1>. QED  BY <1>1, Sound, PTL

\* No pager that serves pages has one of an older or a half-written state.
THEOREM SnapshotsAreCommitted == PagerSpec => []Snapshot
<1>1. InOrder /\ SoundInv => Snapshot
  BY DEF SoundInv, DataInv, Snapshot, CacheOK
<1>. QED  BY <1>1, Sound, PTL

\* A commit builds on the one before it: no page goes back, and the change counter goes up.
LEMMA CommitGrows ==
  ASSUME InOrder, SoundInv, [PagerNext]_vars, committed' # committed, broken = "none"
  PROVE  /\ \A p \in Page : committed'[p] >= committed[p]
         /\ committed'[Page1] > committed[Page1]
<1>1. PICK c \in Conn : DeleteJournal(c)
  <2>1. ASSUME NEW c \in Conn, PagerStep(c), ~DeleteJournal(c) PROVE committed' = committed
    BY <2>1 DEF PagerStep, GetShared, GotShared, HasHotJournal, Probed, HotLocked, OpenHotJournal, Begin,
     GotReserved, GotExclusive, OpenJournal, LateJournal, Commit, SyncJournal, Stored, PlayedBack,
     CloseJournal, Unlocked, Rollback, Reset, Shut, Dropped, Fetch, Write, Recycle,
     StorePage, PlaybackPage
  <2>2. ASSUME NEW c \in Conn, Start(c) \/ Die1(c) \/ LockCall(c) PROVE committed' = committed
    BY <2>2 DEF Start, Die1, LockCall
  <2>3. UNCHANGED vars => committed' = committed
    BY DEF vars
  <2>. QED  BY <2>1, <2>2, <2>3 DEF PagerNext
<1>2. at[c] = "delete" /\ doing[c] = "commit" /\ committed' = db
  BY <1>1 DEF DeleteJournal, Reached
<1>3. EndOK(c)
  BY DEF SoundInv, DataInv
<1>. QED  BY <1>2, <1>3 DEF EndOK

\* No update is lost. (pager_incr_changecounter)
THEOREM CountersGrow == PagerSpec => CounterGrows
<1>1. InOrder /\ SoundInv /\ [PagerNext]_vars =>
        [committed' # committed /\ broken = "none" =>
           /\ \A p \in Page : committed'[p] >= committed[p]
           /\ committed'[Page1] > committed[Page1]]_vars
  BY CommitGrows
<1>. QED  BY <1>1, Sound, PTL DEF PagerSpec, CounterGrows

\* What the clients see when pager c has moved and nothing was committed: the same but for c.
LEMMA OthersSee ==
  ASSUME NEW c \in Conn, Moves(c), DataInv', committed' = committed,
         db' = db \/ \A d \in Conn \ {c} : ~InSession(d)
  PROVE  /\ Recovered' = Recovered
         /\ Sights' = [Sights EXCEPT ![c] = Sight(c)']
         /\ \A d \in Conn \ {c} : InSession(d)' <=> InSession(d)
<1>1. Recovered' = Recovered
  BY DEF Moves, DataInv
<1>2. ASSUME NEW d \in Conn \ {c}
      PROVE  (InSession(d)' <=> InSession(d)) /\ Sight(d)' = Sight(d)
  <2>1. Apart(d)
    BY OthersFacts
  <2>2. UNCHANGED <<held[d], errored[d], cache[d], doing[d]>>
    BY <2>1 DEF Apart
  <2>3. InSession(d)' <=> InSession(d)
    BY <2>2 DEF InSession
  <2>4. Sight(d)' = Sight(d)
    BY <1>1, <2>2, <2>3 DEF Sight
  <2>. QED  BY <2>3, <2>4
<1>. QED  BY <1>1, <1>2 DEF Sights

\* A step that leaves c without a session, or seeing what it saw, or the last commit.
LEMMA SameSight ==
  ASSUME NEW c \in Conn, Moves(c), DataInv', committed' = committed,
         db' = db \/ \A d \in Conn \ {c} : ~InSession(d),
         ~InSession(c)' \/ Sight(c)' = Sight(c) \/ Sight(c)' = Recovered'
  PROVE  [Atomic!Next]_<<Recovered, Sessions, Sights>>
<1>1. /\ Recovered' = Recovered
      /\ Sights' = [Sights EXCEPT ![c] = Sight(c)']
      /\ \A d \in Conn \ {c} : InSession(d)' <=> InSession(d)
  BY OthersSee
<1>2. CASE ~InSession(c)'
  <2>1. Sight(c)' = Recovered
    BY <1>1, <1>2 DEF Sight
  <2>2. Sessions' = Sessions \ {c}
    BY <1>1, <1>2 DEF Sessions
  <2>. QED  BY <1>1, <2>1, <2>2 DEF Atomic!Next, Atomic!Leave
<1>3. CASE InSession(c)' /\ Sight(c)' = Sight(c)
  <2>1. Sessions' = Sessions \cup {c}
    BY <1>1, <1>3 DEF Sessions
  <2>2. Sights' = Sights
    BY <1>1, <1>3 DEF Sights
  <2>. QED  BY <1>1, <2>1, <2>2 DEF Atomic!Next, Atomic!Join
<1>4. CASE InSession(c)' /\ InSession(c) /\ Sight(c)' = Recovered'
  <2>1. Sessions' = Sessions
    BY <1>1, <1>4 DEF Sessions
  <2>2. Sights' = [Sights EXCEPT ![c] = Recovered]
    BY <1>1, <1>4
  <2>. QED  BY <1>1, <2>1, <2>2 DEF Atomic!Next, Atomic!Abandon
<1>5. ~InSession(c) => Sight(c) = Recovered
  BY DEF Sight
<1>. QED  BY <1>1, <1>2, <1>3, <1>4, <1>5

\* Most steps change nothing of what a client sees.
LEMMA QuietSight ==
  ASSUME NEW c \in Conn, Moves(c), DataInv',
         \/ GetShared(c)    \/ GotShared(c)   \/ HasHotJournal(c)  \/ Probed(c)
         \/ HotLocked(c)    \/ OpenHotJournal(c)
         \/ Begin(c)        \/ GotReserved(c) \/ GotExclusive(c)
         \/ OpenJournal(c)  \/ LateJournal(c) \/ SyncJournal(c) \/ Stored(c)
         \/ PlayedBack(c)   \/ CloseJournal(c)
         \/ Start(c) \/ LockCall(c)
  PROVE  [Atomic!Next]_<<Recovered, Sessions, Sights>>
<1>0. StepTypeOK /\ LabelOK(c) /\ JournalBacked(c)
  BY MovesFacts
<1>1. UNCHANGED <<db, held, errored, cache, committed>>
  BY DEF GetShared, GotShared, HasHotJournal, Probed, HotLocked, OpenHotJournal, Begin, GotReserved,
     GotExclusive, OpenJournal, LateJournal, SyncJournal, Stored, PlayedBack, CloseJournal, Start, LockCall
<1>2. doing'[c] = "rollback" <=> doing[c] = "rollback"
  <2>1. CASE GetShared(c)
    BY <2>1, <1>0 DEF GetShared, Reached, Resting, Go, Begins, Rest, LabelOK, StepTypeOK
  <2>2. CASE GotShared(c)
    BY <2>2, <1>0 DEF GotShared, Reached, Resting, Go, Begins, Rest, LabelOK, StepTypeOK
  <2>3. CASE HasHotJournal(c)
    BY <2>3, <1>0 DEF HasHotJournal, Reached, Resting, Go, Begins, Rest, LabelOK, StepTypeOK
  <2>4. CASE Probed(c)
    BY <2>4, <1>0 DEF Probed, Reached, Resting, Go, Begins, Rest, LabelOK, StepTypeOK
  <2>5. CASE HotLocked(c)
    BY <2>5, <1>0 DEF HotLocked, Reached, Resting, Go, Begins, Rest, LabelOK, StepTypeOK
  <2>6. CASE OpenHotJournal(c)
    BY <2>6, <1>0 DEF OpenHotJournal, Reached, Resting, Go, Begins, Rest, LabelOK, StepTypeOK
  <2>7. CASE Begin(c)
    BY <2>7, <1>0 DEF Begin, Reached, Resting, Go, Begins, Rest, LabelOK, StepTypeOK
  <2>8. CASE GotReserved(c)
    BY <2>8, <1>0 DEF GotReserved, Reached, Resting, Go, Begins, Rest, LabelOK, StepTypeOK
  <2>9. CASE GotExclusive(c)
    BY <2>9, <1>0 DEF GotExclusive, Reached, Resting, Go, Begins, Rest, LabelOK, StepTypeOK
  <2>10. CASE OpenJournal(c)
    BY <2>10, <1>0 DEF OpenJournal, Reached, Resting, Go, Begins, Rest, LabelOK, StepTypeOK
  <2>11. CASE LateJournal(c)
    BY <2>11, <1>0 DEF LateJournal, Reached, Resting, Go, Begins, Rest, LabelOK, StepTypeOK
  <2>12. CASE SyncJournal(c)
    BY <2>12, <1>0 DEF SyncJournal, Reached, Resting, Go, Begins, Rest, LabelOK, StepTypeOK
  <2>13. CASE Stored(c)
    BY <2>13, <1>0 DEF Stored, Reached, Resting, Go, Begins, Rest, LabelOK, StepTypeOK
  <2>14. CASE PlayedBack(c)
    BY <2>14, <1>0 DEF PlayedBack, Reached, Resting, Go, Begins, Rest, LabelOK, StepTypeOK
  <2>15. CASE CloseJournal(c)
    BY <2>15, <1>0 DEF CloseJournal, Reached, Resting, Go, Begins, Rest, LabelOK, StepTypeOK
  <2>16. CASE Start(c)
    BY <2>16, <1>0 DEF Start, Reached, Resting, Go, Begins, Rest, LabelOK, StepTypeOK
  <2>17. CASE LockCall(c)
    BY <2>17, <1>0 DEF LockCall, Reached, Resting, Go, Begins, Rest, LabelOK, StepTypeOK
  <2>. QED  BY <2>1, <2>2, <2>3, <2>4, <2>5, <2>6, <2>7, <2>8, <2>9, <2>10, <2>11, <2>12, <2>13, <2>14, <2>15, <2>16, <2>17
<1>3. InSession(c)' <=> InSession(c)
  BY <1>1 DEF InSession
<1>4. Sight(c)' = Sight(c)
  BY <1>1, <1>2, <1>3, OthersSee DEF Sight
<1>. QED  BY <1>1, <1>4, SameSight

\* A step that changes pages in memory or in the file.
LEMMA SightOf ==
  ASSUME NEW c \in Conn, Moves(c), DataInv', committed' = committed,
         InSession(c)' <=> InSession(c), doing'[c] = "rollback" <=> doing[c] = "rollback",
         InSession(c) /\ doing[c] # "rollback" =>
           \A q \in Page : (IF cache'[c][q] = NoPage THEN db'[q] ELSE cache'[c][q])
                         = (IF cache[c][q] = NoPage THEN db[q] ELSE cache[c][q])
  PROVE  Sight(c)' = Sight(c)
<1>1. Recovered' = Recovered
  BY DEF Moves, DataInv
<1>. QED  BY <1>1 DEF Sight

\* A page is read.
LEMMA FetchSight ==
  ASSUME NEW c \in Conn, NEW p \in Page, Moves(c), DataInv', Fetch(c, p)
  PROVE  [Atomic!Next]_<<Recovered, Sessions, Sights>>
<1>0. StepTypeOK /\ PagerTypeOK /\ LabelOK(c) /\ LockBacked(c) /\ CacheOK(c) /\ DataInv /\ PagesOK(c)
  BY MovesFacts DEF Moves
<1>1. /\ UNCHANGED <<db, committed, errored>> /\ held'[c]
      /\ cache[c][p] = NoPage /\ cache'[c][p] = db[p] /\ \A q \in Page : q # p => cache'[c][q] = cache[c][q]
      /\ \/ at[c] = "fetch" /\ doing'[c] = "none"
         \/ held[c] /\ doing' = doing
  BY <1>0 DEF Fetch, Reached, Resting, Rest, Begins, Go, PagerTypeOK, StepTypeOK
<1>2. CASE at[c] = "fetch" /\ doing'[c] = "none"
  <2>1. db = committed /\ ~held[c] /\ ~errored[c] /\ doing[c] = "get"
    BY <1>2, <1>0, Seen DEF Trusts, Owner, LabelOK
  <2>2. \A q \in Page : (IF cache'[c][q] = NoPage THEN db'[q] ELSE cache'[c][q]) = committed[q]
    BY <2>1, <1>1, <1>0 DEF CacheOK
  <2>3. Recovered' = committed' /\ committed \in [Page -> Version]
    BY <1>0 DEF DataInv, PagerTypeOK
  <2>4. Sight(c)' = Recovered'
    BY <2>1, <2>2, <2>3, <1>1, <1>2 DEF Sight
  <2>. QED  BY <2>4, <1>1, SameSight
<1>3. CASE held[c] /\ doing' = doing
  BY <1>1, <1>3, SightOf, SameSight DEF InSession
<1>. QED  BY <1>1, <1>2, <1>3

\* While a pager has a journal and the RESERVED byte, the others see the last commit.
LEMMA OthersSeeCommit ==
  ASSUME NEW c \in Conn, Moves(c), JournalOpen(c), local[c].bReserved, NEW d \in Conn \ {c}
  PROVE  Sight(d) = Recovered
<1> SUFFICES ASSUME InSession(d), doing[d] # "rollback" PROVE Sight(d) = Recovered
  BY DEF Sight
<1>0. /\ ControlInv /\ LockedInv /\ Recovered = committed /\ Hidden /\ CacheOK(d) /\ JournalBacked(d)
      /\ Locked(d) /\ LabelOK(d) /\ PagerTypeOK
  BY DEF Moves, DataInv, ControlInv, StoreInv, LockedInv
<1>1. ~local[d].bReserved /\ ~JournalOpen(d)
  BY <1>0, BytesHeld DEF JournalOpen
<1>2. db = committed
  BY <1>0, <1>1 DEF Hidden, Trusts, Owner, InSession
<1>3. inJournal[d] = {}
  <2>1. inJournal[d] # {} => at[d] = "delete"
    BY <1>0, <1>1 DEF JournalBacked
  <2>2. at[d] # "delete"
    BY <1>0, <1>1 DEF LabelOK, Locked, InSession
  <2>. QED  BY <2>1, <2>2
<1>4. \A q \in Page : cache[d][q] \in {NoPage, committed[q]}
  BY <1>0, <1>3 DEF CacheOK, InSession
<1>. QED  BY <1>0, <1>2, <1>4 DEF Sight, PagerTypeOK

\* A client changes a page.
LEMMA ChangeSight ==
  ASSUME NEW c \in Conn, NEW p \in Page, Moves(c), DataInv', Change(c, p), JournalOpen(c),
         local[c].bReserved, doing[c] # "rollback", doing'[c] # "rollback", InSession(c),
         UNCHANGED <<db, committed, held, errored>>
  PROVE  [Atomic!Next]_<<Recovered, Sessions, Sights>>
<1>0. PagerTypeOK
  BY MovesFacts
<1>1. /\ cache[c][p] \in 0..MaxVersion - 1 /\ cache'[c][p] = cache[c][p] + 1
      /\ \A q \in Page : q # p => cache'[c][q] = cache[c][q]
  BY <1>0, ChangeFacts
<1>2. /\ Recovered' = Recovered
      /\ Sights' = [Sights EXCEPT ![c] = Sight(c)']
      /\ \A d \in Conn \ {c} : InSession(d)' <=> InSession(d)
  BY OthersSee
<1>3. Sight(c)' = [Sight(c) EXCEPT ![p] = @ + 1]
  <2>1. InSession(c)'
    BY DEF InSession
  <2>2. Sight(c) = [q \in Page |-> IF cache[c][q] = NoPage THEN db[q] ELSE cache[c][q]]
    BY DEF Sight
  <2>3. Sight(c)' = [q \in Page |-> IF cache'[c][q] = NoPage THEN db[q] ELSE cache'[c][q]]
    BY <2>1 DEF Sight
  <2>. QED  BY <2>2, <2>3, <1>1
<1>4. Sessions' = Sessions /\ c \in Sessions
  BY <1>2 DEF Sessions, InSession
<1>5. \A d \in Conn \ {c} : Sights[d] = Recovered
  BY OthersSeeCommit DEF Sights
<1>6. Sights' = [Sights EXCEPT ![c][p] = @ + 1]
  BY <1>2, <1>3 DEF Sights
<1>. QED  BY <1>2, <1>4, <1>5, <1>6 DEF Atomic!Next, Atomic!Change

\* A client changes a page, or commits: then the change counter goes up.
LEMMA WriteSight ==
  ASSUME NEW c \in Conn, Moves(c), DataInv', Commit(c) \/ \E p \in Page : Write(c, p)
  PROVE  [Atomic!Next]_<<Recovered, Sessions, Sights>>
<1>0. StepTypeOK /\ LabelOK(c) /\ Locked(c) /\ JournalBacked(c)
  BY MovesFacts
<1>1. /\ at[c] = "rest" /\ doing[c] = "none" /\ InSession(c) /\ UNCHANGED <<db, committed, held, errored>>
      /\ pstate[c] \in {0, 1, 2, 4, 5} /\ pstate[c] >= PAGER_RESERVED
  BY <1>0 DEF Commit, Write, DirtyCache, Resting, LabelOK, InSession, StepTypeOK, Locked
<1>2. local[c].bReserved
  BY <1>0, <1>1 DEF Locked
<1>3. ASSUME NEW p \in Page, Write(c, p) PROVE [Atomic!Next]_<<Recovered, Sessions, Sights>>
  BY <1>1, <1>2, <1>3, ChangeSight DEF Write
<1>4. CASE Commit(c) /\ DirtyCache(c)
  <2>1. Change(c, Page1) /\ doing'[c] = "commit"
    BY <1>0, <1>4 DEF Commit, Begins, Go, StepTypeOK
  <2>2. JournalOpen(c)
    BY <1>0, <1>1, <1>4 DEF JournalBacked, DirtyCache
  <2>. QED  BY <2>1, <2>2, <1>1, <1>2, Page1Known, ChangeSight
<1>5. CASE Commit(c) /\ ~DirtyCache(c)
  <2>1. cache' = cache /\ doing'[c] = "quit"
    BY <1>0, <1>5 DEF Commit, Begins, Go, StepTypeOK
  <2>2. Sight(c)' = Sight(c)
    BY <2>1, <1>1, SightOf DEF InSession
  <2>. QED  BY <2>2, <1>1, SameSight
<1>. QED  BY <1>3, <1>4, <1>5

\* A page leaves the memory.
LEMMA RecycleSight ==
  ASSUME NEW c \in Conn, NEW p \in Page, Moves(c), DataInv', Recycle(c, p)
  PROVE  [Atomic!Next]_<<Recovered, Sessions, Sights>>
<1>0. /\ PagerTypeOK /\ StepTypeOK /\ LabelOK(c) /\ JournalBacked(c) /\ CacheOK(c) /\ TransOK(c)
      /\ \A q \in Page : committed[q] = IF q \in journal.counted THEN journal.orig[q] ELSE db[q]
  BY MovesFacts
<1>1. /\ at[c] = "rest" /\ doing[c] = "none" /\ held[c] /\ ~errored[c] /\ UNCHANGED <<db, committed, held, errored>>
      /\ \/ p \notin dirty[c] /\ cache'[c][p] = NoPage /\ (\A q \in Page : q # p => cache'[c][q] = cache[c][q]) /\ doing' = doing
         \/ cache' = cache /\ doing'[c] = "recycle"
  BY <1>0 DEF Recycle, Resting, LabelOK, PagerTypeOK, StepTypeOK
<1>2. p \notin dirty[c] => cache[c][p] \in {NoPage, db[p]}
  <2>1. CASE p \in inJournal[c] \ dirty[c]
    BY <2>1, <1>0, <1>1 DEF JournalBacked, TransOK
  <2>2. CASE p \notin inJournal[c]
    <3>1. db[p] = committed[p]
      <4>1. CASE Owner(c)
        BY <4>1, <2>2, <1>0, <1>1 DEF Owner, TransOK
      <4>2. CASE ~Owner(c)
        BY <4>2, <1>1, Seen DEF Trusts
      <4>. QED  BY <4>1, <4>2
    <3>. QED  BY <3>1, <2>2, <1>0, <1>1 DEF CacheOK
  <2>. QED  BY <2>1, <2>2
<1>3. Sight(c)' = Sight(c)
  BY <1>1, <1>2, SightOf DEF InSession
<1>. QED  BY <1>1, <1>3, SameSight

\* A page goes to the file.
LEMMA StorePageSight ==
  ASSUME NEW c \in Conn, NEW p \in Page, Moves(c), DataInv', StorePage(c, p)
  PROVE  [Atomic!Next]_<<Recovered, Sessions, Sights>>
<1>0. /\ PagerTypeOK /\ StepTypeOK /\ LabelOK(c) /\ StateBacked(c) /\ PagesOK(c) /\ ControlInv /\ LockedInv
  BY MovesFacts DEF Moves
<1>1. /\ at[c] = "store" /\ doing[c] \in {"commit", "recycle"} /\ UNCHANGED <<committed, held, errored, doing>>
      /\ p \in todo[c]
      /\ db'[p] = cache[c][p] /\ (\A q \in Page : q # p => db'[q] = db[q])
      /\ cache'[c][p] \in {NoPage, cache[c][p]} /\ (\A q \in Page : q # p => cache'[c][q] = cache[c][q])
  BY <1>0 DEF StorePage, Reached, LabelOK, PagerTypeOK
<1>2. cache[c][p] # NoPage
  BY <1>0, <1>1 DEF PagesOK
<1>3. local[c].bExclusive /\ local[c].bReserved
  <2>1. pstate[c] >= PAGER_EXCLUSIVE /\ pstate[c] \in {0, 1, 2, 4, 5}
    BY <1>0, <1>1 DEF StateBacked, StepTypeOK
  <2>2. pstate[c] >= PAGER_RESERVED
    BY <2>1
  <2>. QED  BY <2>1, <2>2, <1>0, <1>1, BytesHeld
<1>4. \A d \in Conn \ {c} : ~InSession(d)
  BY <1>3, Sole DEF InSession
<1>5. Sight(c)' = Sight(c)
  BY <1>1, <1>2, SightOf DEF InSession
<1>. QED  BY <1>1, <1>4, <1>5, SameSight

\* An original goes back to the file.
LEMMA PlaybackPageSight ==
  ASSUME NEW c \in Conn, NEW p \in Page, Moves(c), DataInv', PlaybackPage(c, p)
  PROVE  [Atomic!Next]_<<Recovered, Sessions, Sights>>
<1>0. /\ PagerTypeOK /\ StepTypeOK /\ LabelOK(c) /\ StateBacked(c) /\ PagesOK(c) /\ ControlInv /\ LockedInv /\ Hidden
      /\ \A q \in Page : committed[q] = IF q \in journal.counted THEN journal.orig[q] ELSE db[q]
  BY MovesFacts DEF Moves
<1>p. at[c] = "playback" /\ pstate[c] >= PAGER_EXCLUSIVE
  <2>1. at[c] = "playback"
    BY DEF PlaybackPage, Reached
  <2>. QED  BY <2>1, <1>0 DEF LabelOK, StateBacked
<1>1. /\ at[c] = "playback" /\ doing[c] \in {"get", "rollback", "reset", "shut"}
      /\ UNCHANGED <<committed, held, errored, doing>>
      /\ p \in todo[c] /\ db' = [db EXCEPT ![p] = journal.orig[p]]
  BY <1>0, <1>p DEF PlaybackPage, Reached, LabelOK
<1>2. local[c].bExclusive
  BY <1>0, <1>1, <1>p, BytesHeld
<1>3. db = committed => db' = db
  BY <1>0, <1>1 DEF PagesOK, PagerTypeOK
<1>4. db # committed => \A d \in Conn \ {c} : ~InSession(d)
  <2> SUFFICES ASSUME db # committed, NEW d \in Conn \ {c}, InSession(d) PROVE FALSE
    OBVIOUS
  <2>1. Owner(d)
    BY <1>0 DEF Hidden, Trusts, InSession
  <2>. QED  BY <2>1, <1>0, <1>2, BytesHeld DEF Owner
<1>5. Sight(c)' = Sight(c)
  <2>1. InSession(c) => doing[c] = "rollback"
    BY <1>0, <1>1 DEF LabelOK, InSession
  <2>. QED  BY <2>1, <1>1, SightOf DEF InSession
<1>. QED  BY <1>1, <1>3, <1>4, <1>5, SameSight

\* The journal is deleted: a commit makes what its client saw the content, at once.
LEMMA DeleteJournalSight ==
  ASSUME NEW c \in Conn, Moves(c), DataInv', DeleteJournal(c)
  PROVE  [Atomic!Next]_<<Recovered, Sessions, Sights>>
<1>0. PagerTypeOK /\ StepTypeOK /\ LabelOK(c) /\ EndOK(c) /\ ControlInv /\ LockedInv
  BY MovesFacts DEF Moves
<1>1. /\ at[c] = "delete" /\ UNCHANGED <<db, held, errored, doing, cache>>
      /\ committed' = IF doing[c] = "commit" THEN db ELSE committed
  BY DEF DeleteJournal, Reached
<1>2. CASE doing[c] # "commit"
  <2>1. Sight(c)' = Sight(c)
    BY <1>1, <1>2, SightOf DEF InSession
  <2>. QED  BY <2>1, <1>1, <1>2, SameSight
<1>3. CASE doing[c] = "commit"
  <2>1. /\ held[c] /\ ~errored[c] /\ \A q \in Page : cache[c][q] \in {NoPage, db[q]}
        /\ pstate[c] >= PAGER_EXCLUSIVE /\ pstate[c] \in {0, 1, 2, 4, 5}
    BY <1>0, <1>1, <1>3 DEF LabelOK, EndOK, StepTypeOK
  <2>2. local[c].bExclusive /\ local[c].bReserved
    <3>1. pstate[c] >= PAGER_RESERVED
      BY <2>1
    <3>. QED  BY <2>1, <3>1, <1>0, <1>1, <1>3, BytesHeld
  <2>3. \A d \in Conn \ {c} : ~InSession(d) /\ ~InSession(d)'
    <3>1. \A d \in Conn \ {c} : ~held[d]
      BY <2>2, Sole
    <3>. QED  BY <3>1, <1>1 DEF InSession
  <2>4. Sessions = {c} /\ Sessions' = {c}
    BY <2>1, <2>3, <1>1 DEF Sessions, InSession
  <2>5. Sight(c) = db
    BY <2>1, <1>0, <1>3 DEF Sight, InSession, PagerTypeOK
  <2>6. Recovered' = db
    BY <1>1, <1>3 DEF DataInv
  <2>7. Sight(c)' = db
    BY <2>1, <1>0, <1>1, <1>3 DEF Sight, InSession, PagerTypeOK
  <2>8. \A d \in Conn : Sight(d)' = Recovered'
    BY <2>3, <2>6, <2>7 DEF Sight
  <2>9. Sights[c] = db /\ Sights' = [t \in Conn |-> Recovered']
    BY <2>5, <2>8 DEF Sights
  <2>. QED  BY <2>4, <2>6, <2>9 DEF Atomic!Next, Atomic!Commit
<1>. QED  BY <1>2, <1>3

\* A routine ends; after a rollback the client sees the last commit again.
LEMMA UnlockedSight ==
  ASSUME NEW c \in Conn, Moves(c), DataInv', Unlocked(c)
  PROVE  [Atomic!Next]_<<Recovered, Sessions, Sights>>
<1>0. PagerTypeOK /\ StepTypeOK /\ LabelOK(c) /\ CacheOK(c) /\ PagesOK(c) /\ DataInv
  BY MovesFacts DEF Moves
<1>1. /\ at[c] = "unlock" /\ UNCHANGED <<db, held, cache, committed>>
      /\ errored[c] => errored'[c]
      /\ doing' = doing \/ doing'[c] = "none"
  BY <1>0 DEF Unlocked, Reached, Rest, Begins, Go, PagerTypeOK, StepTypeOK
<1>2. CASE ~InSession(c)'
  BY <1>1, <1>2, SameSight
<1>3. CASE InSession(c)' /\ (doing[c] = "rollback" <=> doing'[c] = "rollback")
  <2>1. Sight(c)' = Sight(c)
    BY <1>1, <1>3, SightOf DEF InSession
  <2>. QED  BY <2>1, <1>1, SameSight
<1>4. CASE InSession(c)' /\ doing[c] = "rollback" /\ doing'[c] = "none"
  <2>1. InSession(c)
    BY <1>1, <1>4 DEF InSession
  <2>2. inJournal[c] = {} /\ ~JournalOpen(c)
    BY <1>0, <1>1 DEF PagesOK, LabelOK
  <2>3. db = committed
    BY <2>1, <2>2, <1>1, Seen DEF Trusts, Owner, InSession
  <2>4. \A q \in Page : cache[c][q] \in {NoPage, committed[q]}
    BY <2>1, <2>2, <1>0 DEF CacheOK, InSession
  <2>5. Recovered' = committed
    BY <1>1 DEF DataInv
  <2>6. Sight(c)' = Recovered'
    BY <2>3, <2>4, <2>5, <1>0, <1>1, <1>4 DEF Sight, PagerTypeOK
  <2>. QED  BY <2>6, <1>1, SameSight
<1>. QED  BY <1>1, <1>2, <1>3, <1>4

\* A rollback begins: at once the client sees the last commit.
LEMMA RollbackSight ==
  ASSUME NEW c \in Conn, Moves(c), DataInv', Rollback(c)
  PROVE  [Atomic!Next]_<<Recovered, Sessions, Sights>>
<1>0. PagerTypeOK /\ StepTypeOK /\ LabelOK(c) /\ PagesOK(c) /\ JournalBacked(c)
  BY MovesFacts
<1>1. /\ at[c] = "rest" /\ doing[c] = "none" /\ UNCHANGED <<db, held, errored, committed>>
  BY <1>0 DEF Rollback, Resting, LabelOK
<1>2. CASE doing'[c] = "rollback"
  BY <1>1, <1>2, SameSight DEF Sight
<1>3. CASE doing'[c] # "rollback"
  <2>1. dirty[c] = {}
    BY <1>0, <1>1, <1>3 DEF Rollback, Undo, DirtyCache, Begins, Go, PagesOK, JournalBacked, StepTypeOK
  <2>2. \A q \in Page : cache'[c][q] = cache[c][q]
    BY <2>1, <1>0 DEF Rollback, PagerTypeOK
  <2>3. Sight(c)' = Sight(c)
    BY <2>2, <1>1, <1>3, SightOf DEF InSession
  <2>. QED  BY <2>3, <1>1, SameSight
<1>. QED  BY <1>2, <1>3

\* A client leaves.
LEMMA LeaveSight ==
  ASSUME NEW c \in Conn, Moves(c), DataInv', Reset(c) \/ Shut(c) \/ Dropped(c) \/ Die1(c)
  PROVE  [Atomic!Next]_<<Recovered, Sessions, Sights>>
<1>0. PagerTypeOK /\ StepTypeOK /\ LabelOK(c)
  BY MovesFacts
<1>1. UNCHANGED <<db, committed>>
  BY DEF Reset, Shut, Dropped, Die1
<1>2. CASE Reset(c) \/ Shut(c) \/ Die1(c)
  <2>1. ~held'[c]
    BY <1>0, <1>2 DEF Reset, Shut, LetGo, Die1, Forget, PagerTypeOK
  <2>. QED  BY <2>1, <1>1, SameSight DEF InSession
<1>3. CASE Dropped(c) /\ doing[c] = "shut"
  <2>1. ~held'[c]
    BY <1>0, <1>3 DEF Dropped, Forget, PagerTypeOK
  <2>. QED  BY <2>1, <1>1, SameSight DEF InSession
<1>4. CASE Dropped(c) /\ doing[c] # "shut"
  <2>1. UNCHANGED <<held, errored, cache>> /\ doing[c] # "rollback" /\ doing'[c] = "none"
    BY <1>0, <1>4 DEF Dropped, Reached, Rest, Begins, Go, LabelOK, StepTypeOK
  <2>2. Sight(c)' = Sight(c)
    BY <2>1, <1>1, SightOf DEF InSession
  <2>. QED  BY <2>2, <1>1, SameSight
<1>. QED  BY <1>2, <1>3, <1>4

\* Every step of the pagers by which no known flaw comes to harm is a step of the abstract
\* file, or none.
LEMMA StepIsAtomic ==
  ASSUME InOrder, SoundInv, [PagerNext]_vars, broken' = "none"
  PROVE  [Atomic!Next]_<<Recovered, Sessions, Sights>>
<1>0. DataInv' /\ broken = "none"
  BY SoundMoves, SoundStep DEF SoundInv
<1>1. CASE UNCHANGED vars
  <2>1. UNCHANGED <<Recovered, Sessions, Sights>>
    BY <1>1 DEF vars, Recovered, Sessions, Sights, Sight, InSession
  <2>. QED  BY <2>1
<1>2. ASSUME NEW c \in Conn, Start(c) \/ Die1(c) \/ LockCall(c)
      PROVE  [Atomic!Next]_<<Recovered, Sessions, Sights>>
  <2>1. Moves(c)
    BY <1>2, SoundMoves
  <2>. QED  BY <1>0, <1>2, <2>1, QuietSight, LeaveSight
<1>3. ASSUME NEW c \in Conn, PagerStep(c)
      PROVE  [Atomic!Next]_<<Recovered, Sessions, Sights>>
  <2>1. Moves(c)
    BY <1>3, SoundMoves
  <2>. QED  BY <1>0, <1>3, <2>1, QuietSight, LeaveSight, FetchSight, WriteSight, RecycleSight, StorePageSight,
               PlaybackPageSight, DeleteJournalSight, UnlockedSight, RollbackSight DEF PagerStep
<1>. QED  BY <1>1, <1>2, <1>3 DEF PagerNext

\* As long as no known flaw came to harm, the clients of a database file see one value that
\* changes in one step: the pagers implement AtomicFile.
THEOREM PagerIsAtomic == PagerSpec => ImplementsAtomicFile
<1>1. PagerInit => Atomic!Init
  <2> SUFFICES ASSUME PagerInit PROVE Atomic!Init
    OBVIOUS
  <2>1. /\ Recovered = committed /\ committed = [p \in Page |-> 0]
        /\ broken = "none" /\ \A c \in Conn : ~InSession(c)
    BY SoundInit DEF SoundInv, DataInv, PagerInit, InSession
  <2>. QED  BY <2>1 DEF Sessions, Sights, Sight, Atomic!Init
<1>2. InOrder /\ SoundInv /\ [PagerNext]_vars =>
        [(broken = "none")' => broken = "none" /\ Atomic!Next]_<<Recovered, Sessions, Sights, broken = "none">>
  BY StepIsAtomic, BrokenStays
<1>. QED  BY <1>1, <1>2, Sound, PTL
          DEF PagerSpec, ImplementsAtomicFile, Atomic!Spec
=============================================================================
