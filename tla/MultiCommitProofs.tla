-------------------------- MODULE MultiCommitProofs --------------------------
(***************************************************************************)
(* Proofs about a commit of several files, for any number of files, master  *)
(* journals and changes.  CommitInv is inductive: one lemma for each action *)
(* shows that it keeps the types, the labels (ControlOK), the pagers        *)
(* (PagerOK), the playbacks (PlayOK), the master journals (MasterOK) and,   *)
(* until a known flaw comes to harm, what every file is recovered to        *)
(* (DataOK).  From it follow AllRecoverable and, action by action, the      *)
(* refinement of AtomicCommit; and with OpenInv and ListInv, who opens which *)
(* journal when (RecoveryExcluded) and what a master journal lists           *)
(* (ChildrenListed).                                                        *)
(***************************************************************************)
EXTENDS MultiCommit, TLAPS

USE DEF fileVars, masterVars, pagerVars, callVars, history,
        PAGER_UNLOCK, PAGER_SHARED, PAGER_RESERVED, PAGER_EXCLUSIVE, PAGER_SYNCED

\* A loop has one next file.
LEMMA NextUnique ==
  ASSUME NEW files, files \subseteq File, NEW f, NEW h, IsNext(f, files), IsNext(h, files)
  PROVE  f = h
  BY MultiAssumption DEF IsNext

------------------------------------------------------------------------------
(* The client changes its files. *)

\* A transaction begins on a file that needs no recovery: what is there is committed.
LEMMA BeginKeeps ==
  ASSUME CommitInv, NEW f \in File, Begin(f)
  PROVE  CommitInv'
<1>0. /\ MultiTypeOK /\ ControlOK /\ MasterOK
      /\ \A h \in File : PagerOK(h) /\ PlayOK(h)
      /\ broken = "none" => \A h \in File : DataOK(h)
  BY DEF CommitInv
<1>1. MultiTypeOK'
  <2>a. NoJournal \in Journal
    BY MultiAssumption DEF NoJournal, Journal, Version
  <2>b. [NoJournal EXCEPT !.exists = TRUE] \in Journal
    BY <2>a DEF Journal
  <2>1. journal' \in [File -> Journal]
    BY <1>0, <2>b DEF Begin, MultiTypeOK
  <2>2. play' \in [File -> Playback]
    BY <1>0 DEF Begin, MultiTypeOK
  <2>3. FileTypeOK' /\ MasterTypeOK' /\ ClientTypeOK' /\ CallTypeOK' /\ HistoryTypeOK'
    BY <1>0 DEF Begin, MultiTypeOK, FileTypeOK, MasterTypeOK, ClientTypeOK,
        CallTypeOK, HistoryTypeOK, Handle
  <2>. QED  BY <2>1, <2>2, <2>3 DEF MultiTypeOK
<1>2. ControlOK'
  BY <1>0 DEF Begin, ControlOK
<1>3. ASSUME NEW h \in File PROVE PagerOK(h)'
  BY <1>0 DEF Begin, PagerOK, InTrans
<1>4. ASSUME NEW h \in File PROVE PlayOK(h)'
  BY <1>0 DEF Begin, PlayOK, InTrans, Playing
<1>5. MasterOK'
  BY <1>0 DEF Begin, MasterOK
<1>6. ASSUME broken' = "none", NEW h \in File PROVE DataOK(h)'
  <2>0. broken = "none"
    BY <1>6 DEF Begin
  <2>1. /\ MultiTypeOK /\ ControlOK /\ MasterOK
        /\ DataOK(h) /\ DataOK(f)
        /\ PagerOK(h) /\ PagerOK(f) /\ PlayOK(h) /\ PlayOK(f)
    BY <1>0, <2>0
  <2>. QED
    BY <2>1 DEF Begin, NoJournal, ControlOK, MultiTypeOK, ClientTypeOK, PagerOK,
        DataOK, Undoable, Found, Decided, InTrans, Hot
<1>. QED  BY <1>1, <1>2, <1>3, <1>4, <1>5, <1>6 DEF CommitInv

\* The first write puts the committed page into the journal.
LEMMA WriteKeeps ==
  ASSUME CommitInv, NEW f \in File, Write(f)
  PROVE  CommitInv'
<1>0. /\ MultiTypeOK /\ ControlOK /\ MasterOK
      /\ \A h \in File : PagerOK(h) /\ PlayOK(h)
      /\ broken = "none" => \A h \in File : DataOK(h)
  BY DEF CommitInv
<1>1. MultiTypeOK'
  <2>1. journal' \in [File -> Journal]
    BY <1>0 DEF Write, MultiTypeOK, Journal, ClientTypeOK
  <2>2. play' \in [File -> Playback]
    BY <1>0 DEF Write, MultiTypeOK
  <2>3. FileTypeOK' /\ MasterTypeOK' /\ ClientTypeOK' /\ CallTypeOK' /\ HistoryTypeOK'
    BY <1>0, MultiAssumption DEF Write, MultiTypeOK, FileTypeOK, MasterTypeOK,
        ClientTypeOK, CallTypeOK, HistoryTypeOK, Version
  <2>. QED  BY <2>1, <2>2, <2>3 DEF MultiTypeOK
<1>2. ControlOK'
  BY <1>0 DEF Write, ControlOK
<1>3. ASSUME NEW h \in File PROVE PagerOK(h)'
  BY <1>0 DEF Write, ControlOK, PagerOK, InTrans
<1>4. ASSUME NEW h \in File PROVE PlayOK(h)'
  BY <1>0 DEF Write, PlayOK, InTrans, Playing
<1>5. MasterOK'
  BY <1>0 DEF Write, MasterOK
<1>6. ASSUME broken' = "none", NEW h \in File PROVE DataOK(h)'
  <2>0. broken = "none"
    BY <1>6 DEF Write
  <2>1. /\ MultiTypeOK /\ ControlOK /\ MasterOK
        /\ DataOK(h) /\ DataOK(f)
        /\ PagerOK(h) /\ PagerOK(f) /\ PlayOK(h) /\ PlayOK(f)
    BY <1>0, <2>0
  <2>2. Found(h)' = committed'[h]
    BY <2>1 DEF Write, DataOK, Undoable, Found, Hot
  <2>3. h \in InTrans' /\ ~Decided' => Undoable(h)'
    BY <2>1 DEF Write, MultiTypeOK, ClientTypeOK, DataOK, Undoable, Decided, InTrans,
        Hot
  <2>4. h \in InTrans' /\ Decided' => db'[h] = committed'[h] /\ cache'[h] = committed'[h]
    BY DEF Write, Decided
  <2>5. pstate'[h] = PAGER_RESERVED => db'[h] = committed'[h]
    BY <2>1 DEF Write, DataOK
  <2>6. /\ pstate'[h] = PAGER_SYNCED /\ ~Playing(h)'
        /\ setMaster'[h] => journal'[h].master = zMaster'
        => db'[h] = cache'[h]
    BY <2>1 DEF Write, ControlOK, PagerOK
  <2>7. play'[h].at \in {"close", "delete"} => db'[h] = committed'[h]
    BY <2>1 DEF Write, DataOK
  <2>. QED  BY <2>2, <2>3, <2>4, <2>5, <2>6, <2>7 DEF DataOK
<1>. QED  BY <1>1, <1>2, <1>3, <1>4, <1>5, <1>6 DEF CommitInv

\* The page is in the journal, and counted, before the file changes.
LEMMA SpillKeeps ==
  ASSUME CommitInv, NEW f \in File, Spill(f)
  PROVE  CommitInv'
<1>0. /\ MultiTypeOK /\ ControlOK /\ MasterOK
      /\ \A h \in File : PagerOK(h) /\ PlayOK(h)
      /\ broken = "none" => \A h \in File : DataOK(h)
  BY DEF CommitInv
<1>1. MultiTypeOK'
  <2>a. [journal[f] EXCEPT !.counted = TRUE] \in Journal
    BY <1>0 DEF MultiTypeOK, Journal
  <2>1. journal' \in [File -> Journal]
    BY <1>0, <2>a DEF Spill, MultiTypeOK
  <2>2. play' \in [File -> Playback]
    BY <1>0 DEF Spill, MultiTypeOK
  <2>3. FileTypeOK' /\ MasterTypeOK' /\ ClientTypeOK' /\ CallTypeOK' /\ HistoryTypeOK'
    BY <1>0 DEF Spill, MultiTypeOK, FileTypeOK, MasterTypeOK, ClientTypeOK,
        CallTypeOK, HistoryTypeOK
  <2>. QED  BY <2>1, <2>2, <2>3 DEF MultiTypeOK
<1>2. ControlOK'
  BY <1>0 DEF Spill, ControlOK
<1>3. ASSUME NEW h \in File PROVE PagerOK(h)'
  BY <1>0 DEF Spill, PagerOK, InTrans
<1>4. ASSUME NEW h \in File PROVE PlayOK(h)'
  BY <1>0 DEF Spill, PlayOK, InTrans, Playing
<1>5. MasterOK'
  BY <1>0 DEF Spill, MasterOK
<1>6. ASSUME broken' = "none", NEW h \in File PROVE DataOK(h)'
  <2>0. broken = "none"
    BY <1>6 DEF Spill
  <2>1. /\ MultiTypeOK /\ ControlOK /\ MasterOK
        /\ DataOK(h) /\ DataOK(f)
        /\ PagerOK(h) /\ PagerOK(f) /\ PlayOK(h) /\ PlayOK(f)
    BY <1>0, <2>0
  <2>. QED
    BY <2>1 DEF Spill, MultiTypeOK, ClientTypeOK, PlayOK, DataOK, Undoable, Found,
        Decided, InTrans, Hot
<1>. QED  BY <1>1, <1>2, <1>3, <1>4, <1>5, <1>6 DEF CommitInv

------------------------------------------------------------------------------
(* vdbeCommit. *)

\* Nothing but the control changes.
LEMMA CommitOneKeeps ==
  ASSUME CommitInv, CommitOne
  PROVE  CommitInv'
<1>0. /\ MultiTypeOK /\ ControlOK /\ MasterOK
      /\ \A h \in File : PagerOK(h) /\ PlayOK(h)
      /\ broken = "none" => \A h \in File : DataOK(h)
  BY DEF CommitInv
<1>1. MultiTypeOK'
  BY <1>0 DEF CommitOne, MultiTypeOK, FileTypeOK, MasterTypeOK, ClientTypeOK,
      CallTypeOK, HistoryTypeOK
<1>2. ControlOK'
  BY DEF CommitOne, ControlOK, InTrans
<1>3. ASSUME NEW h \in File PROVE PagerOK(h)'
  BY <1>0 DEF CommitOne, ControlOK, PagerOK, InTrans
<1>4. ASSUME NEW h \in File PROVE PlayOK(h)'
  BY <1>0 DEF CommitOne, PlayOK, InTrans, Playing
<1>5. MasterOK'
  BY <1>0 DEF CommitOne, MasterOK
<1>6. ASSUME broken' = "none", NEW h \in File PROVE DataOK(h)'
  <2>0. broken = "none"
    BY <1>6 DEF CommitOne
  <2>1. /\ MultiTypeOK /\ ControlOK /\ MasterOK
        /\ DataOK(h)
        /\ PagerOK(h) /\ PlayOK(h)
    BY <1>0, <2>0
  <2>. QED
    BY <2>1 DEF CommitOne, ControlOK, PlayOK, DataOK, Undoable, Found, Decided,
        InTrans, Hot
<1>. QED  BY <1>1, <1>2, <1>3, <1>4, <1>5, <1>6 DEF CommitInv

\* The new master journal is in no journal and in no playback.
LEMMA CommitManyKeeps ==
  ASSUME CommitInv, CommitMany
  PROVE  CommitInv'
<1>0. /\ MultiTypeOK /\ ControlOK /\ MasterOK
      /\ \A h \in File : PagerOK(h) /\ PlayOK(h)
      /\ broken = "none" => \A h \in File : DataOK(h)
  BY DEF CommitInv
<1>a. /\ UNCHANGED <<journal, play>> /\ at = "rest"
      /\ \/ at' = "rollback" /\ UNCHANGED <<masters, masterOpener, zMaster>>
         \/ \E m \in Name \ (masters \cup NamedMasters) :
              /\ masters' = masters \cup {m} /\ masterOpener' = [masterOpener EXCEPT ![m] = Client]
              /\ zMaster' = m /\ at' = "sync"
  BY <1>0 DEF CommitMany
<1>b. \A m \in Name \ (masters \cup NamedMasters), h \in File :
        play[h].master # m /\ (journal[h].exists => journal[h].master # m)
  BY <1>0, MultiAssumption DEF NamedMasters, PlayOK
<1>1. MultiTypeOK'
  <2>1. journal' \in [File -> Journal]
    BY <1>0, <1>a DEF MultiTypeOK
  <2>2. play' \in [File -> Playback]
    BY <1>0, <1>a DEF MultiTypeOK
  <2>3. FileTypeOK' /\ MasterTypeOK' /\ ClientTypeOK' /\ CallTypeOK' /\ HistoryTypeOK'
    BY <1>0 DEF CommitMany, MultiTypeOK, FileTypeOK, MasterTypeOK, ClientTypeOK,
        CallTypeOK, HistoryTypeOK, Handle, InTrans
  <2>. QED  BY <2>1, <2>2, <2>3 DEF MultiTypeOK
<1>2. ControlOK'
  BY <1>0, MultiAssumption DEF CommitMany, ControlOK, InTrans
<1>3. ASSUME NEW h \in File PROVE PagerOK(h)'
  BY <1>0, MultiAssumption DEF CommitMany, ControlOK, PagerOK, InTrans
<1>4. ASSUME NEW h \in File PROVE PlayOK(h)'
  BY <1>0 DEF CommitMany, MultiTypeOK, MasterTypeOK, PlayOK, InTrans, Playing
<1>5. MasterOK'
  <2>1. \A m \in Name : masterOpener'[m] = Client => at' \in {"sync", "store"} /\ m = zMaster'
    BY <1>0, <1>a DEF MasterOK, MultiTypeOK, MasterTypeOK
  <2>2. \A m \in Name, h \in File :
          masterOpener'[m] = h => /\ play'[h].master = m
                                  /\ play'[h].at \in {"children", "child", "out"}
    BY <1>0, <1>a, MultiAssumption DEF MasterOK, MultiTypeOK, MasterTypeOK
  <2>3. zMaster' # NoName /\ at' \in {"sync", "store", "master"} =>
        /\ zMaster' \in masters'
        /\ \A h \in File : /\ play'[h].master # zMaster'
                           /\ journal'[h].exists /\ journal'[h].master = zMaster' =>
                                h \in InTrans'
    BY <1>a, <1>b
  <2>. QED  BY <2>1, <2>2, <2>3 DEF MasterOK
<1>6. ASSUME broken' = "none", NEW h \in File PROVE DataOK(h)'
  <2>0. broken = "none"
    BY <1>6 DEF CommitMany
  <2>1. /\ MultiTypeOK /\ ControlOK /\ MasterOK
        /\ DataOK(h)
        /\ PagerOK(h) /\ PlayOK(h)
    BY <1>0, <2>0
  <2>. QED
    BY <2>1, <1>b DEF CommitMany, PlayOK, DataOK, Undoable, Found, Decided, InTrans,
        Hot
<1>. QED  BY <1>1, <1>2, <1>3, <1>4, <1>5, <1>6 DEF CommitInv

\* A journal takes the name of a master journal that exists, or keeps one that makes
\* it hot as well.
LEMMA SyncJournalKeeps ==
  ASSUME CommitInv, NEW f \in File, SyncJournal(f)
  PROVE  CommitInv'
<1>0. /\ MultiTypeOK /\ ControlOK /\ MasterOK
      /\ \A h \in File : PagerOK(h) /\ PlayOK(h)
      /\ broken = "none" => \A h \in File : DataOK(h)
  BY DEF CommitInv
<1>b. \A h \in File : IsNext(h, todo) => h = f
  BY <1>0, NextUnique DEF SyncJournal, MultiTypeOK, CallTypeOK
<1>a. /\ \A h \in File : h # f => journal'[h] = journal[h] /\ setMaster'[h] = setMaster[h]
      /\ setMaster'[f] = (setMaster[f] \/ zMaster # NoName)
      /\ journal'[f].exists = journal[f].exists /\ journal'[f].orig = journal[f].orig
      /\ journal'[f].counted
      /\ journal'[f].master = IF setMaster[f] THEN journal[f].master ELSE zMaster
  BY <1>0 DEF SyncJournal, MultiTypeOK, Journal, ClientTypeOK, PagerOK
<1>1. MultiTypeOK'
  <2>a. [journal[f] EXCEPT !.counted = TRUE, !.master = zMaster] \in Journal
    BY <1>0 DEF MultiTypeOK, Journal, CallTypeOK
  <2>1. journal' \in [File -> Journal]
    BY <1>0, <2>a DEF SyncJournal, MultiTypeOK
  <2>2. play' \in [File -> Playback]
    BY <1>0 DEF SyncJournal, MultiTypeOK
  <2>3. FileTypeOK' /\ MasterTypeOK' /\ ClientTypeOK' /\ CallTypeOK' /\ HistoryTypeOK'
    BY <1>0 DEF SyncJournal, NeedsSync, MultiTypeOK, FileTypeOK, MasterTypeOK,
        ClientTypeOK, CallTypeOK, HistoryTypeOK
  <2>. QED  BY <2>1, <2>2, <2>3 DEF MultiTypeOK
<1>2. ControlOK'
  BY <1>0 DEF SyncJournal, ControlOK, InTrans
<1>3. ASSUME NEW h \in File PROVE PagerOK(h)'
  BY <1>0, <1>a, <1>b, MultiAssumption DEF SyncJournal, PagerOK, ControlOK, InTrans,
      NeedsSync, NeedsPlayback
<1>4. ASSUME NEW h \in File PROVE PlayOK(h)'
  BY <1>0 DEF SyncJournal, PlayOK, InTrans, Playing
<1>5. MasterOK'
  BY <1>0 DEF SyncJournal, MultiTypeOK, Journal, InTrans, MasterOK
<1>6. ASSUME broken' = "none", NEW h \in File PROVE DataOK(h)'
  <2>0. broken = "none"
    BY <1>6 DEF SyncJournal
  <2>1. /\ MultiTypeOK /\ ControlOK /\ MasterOK
        /\ DataOK(h) /\ DataOK(f)
        /\ PagerOK(h) /\ PagerOK(f) /\ PlayOK(h) /\ PlayOK(f)
    BY <1>0, <2>0
  <2>. QED
    BY <2>1, <1>a DEF SyncJournal, NeedsSync, MultiTypeOK, Journal, PlayOK, PagerOK,
        DataOK, Undoable, Found, Decided, InTrans, Hot
<1>. QED  BY <1>1, <1>2, <1>3, <1>4, <1>5, <1>6 DEF CommitInv

\* What needs no sync is stored already.
LEMMA SkipSyncKeeps ==
  ASSUME CommitInv, NEW f \in File, SkipSync(f)
  PROVE  CommitInv'
<1>0. /\ MultiTypeOK /\ ControlOK /\ MasterOK
      /\ \A h \in File : PagerOK(h) /\ PlayOK(h)
      /\ broken = "none" => \A h \in File : DataOK(h)
  BY DEF CommitInv
<1>1. MultiTypeOK'
  BY <1>0 DEF SkipSync, MultiTypeOK, FileTypeOK, MasterTypeOK, ClientTypeOK,
      CallTypeOK, HistoryTypeOK
<1>2. ControlOK'
  BY <1>0 DEF SkipSync, ControlOK, InTrans
<1>3. ASSUME NEW h \in File PROVE PagerOK(h)'
  BY <1>0 DEF SkipSync, NeedsSync, PagerOK, InTrans
<1>4. ASSUME NEW h \in File PROVE PlayOK(h)'
  BY <1>0 DEF SkipSync, PlayOK, InTrans, Playing
<1>5. MasterOK'
  BY <1>0 DEF SkipSync, InTrans, MasterOK
<1>6. ASSUME broken' = "none", NEW h \in File PROVE DataOK(h)'
  <2>0. broken = "none"
    BY <1>6 DEF SkipSync
  <2>1. /\ MultiTypeOK /\ ControlOK /\ MasterOK
        /\ DataOK(h) /\ DataOK(f)
        /\ PagerOK(h) /\ PagerOK(f) /\ PlayOK(h) /\ PlayOK(f)
    BY <1>0, <2>0
  <2>. QED
    BY <2>1 DEF SkipSync, PlayOK, DataOK, Undoable, Found, Decided, InTrans, Hot
<1>. QED  BY <1>1, <1>2, <1>3, <1>4, <1>5, <1>6 DEF CommitInv

\* The journal leads back to the committed page before the file changes.
LEMMA StoreKeeps ==
  ASSUME CommitInv, NEW f \in File, Store(f)
  PROVE  CommitInv'
<1>0. /\ MultiTypeOK /\ ControlOK /\ MasterOK
      /\ \A h \in File : PagerOK(h) /\ PlayOK(h)
      /\ broken = "none" => \A h \in File : DataOK(h)
  BY DEF CommitInv
<1>1. MultiTypeOK'
  BY <1>0 DEF Store, MultiTypeOK, FileTypeOK, MasterTypeOK, ClientTypeOK, CallTypeOK,
      HistoryTypeOK
<1>2. ControlOK'
  BY <1>0 DEF Store, ControlOK, PlayOK, InTrans, IsNext
<1>3. ASSUME NEW h \in File PROVE PagerOK(h)'
  BY <1>0 DEF Store, ControlOK, MultiTypeOK, ClientTypeOK, PagerOK, InTrans
<1>4. ASSUME NEW h \in File PROVE PlayOK(h)'
  BY <1>0 DEF Store, PlayOK, InTrans, Playing
<1>5. MasterOK'
  BY <1>0 DEF Store, Journal, InTrans, MasterOK
<1>6. ASSUME broken' = "none", NEW h \in File PROVE DataOK(h)'
  <2>0. broken = "none"
    BY <1>6 DEF Store
  <2>1. /\ MultiTypeOK /\ ControlOK /\ MasterOK
        /\ DataOK(h) /\ DataOK(f)
        /\ PagerOK(h) /\ PagerOK(f) /\ PlayOK(h) /\ PlayOK(f)
    BY <1>0, <2>0
  <2>. QED
    BY <2>1 DEF Store, ControlOK, MultiTypeOK, FileTypeOK, ClientTypeOK, PlayOK,
        PagerOK, DataOK, Undoable, Found, Decided, InTrans, IsNext, Hot
<1>. QED  BY <1>1, <1>2, <1>3, <1>4, <1>5, <1>6 DEF CommitInv

\* The names stay in the journals, and setMaster says so.
LEMMA BusyKeeps ==
  ASSUME CommitInv, NEW f \in File, Busy(f)
  PROVE  CommitInv'
<1>0. /\ MultiTypeOK /\ ControlOK /\ MasterOK
      /\ \A h \in File : PagerOK(h) /\ PlayOK(h)
      /\ broken = "none" => \A h \in File : DataOK(h)
  BY DEF CommitInv
<1>1. MultiTypeOK'
  BY <1>0 DEF Busy, CloseMaster, MultiTypeOK, FileTypeOK, MasterTypeOK, ClientTypeOK,
      CallTypeOK, HistoryTypeOK, Handle
<1>2. ControlOK'
  BY DEF Busy, ControlOK
<1>3. ASSUME NEW h \in File PROVE PagerOK(h)'
  BY <1>0 DEF Busy, ControlOK, PlayOK, PagerOK, InTrans, IsNext
<1>4. ASSUME NEW h \in File PROVE PlayOK(h)'
  BY <1>0 DEF Busy, CloseMaster, MultiTypeOK, MasterTypeOK, PlayOK, InTrans, MasterOK,
      Playing
<1>5. MasterOK'
  BY <1>0, MultiAssumption DEF Busy, CloseMaster, MasterOK
<1>6. ASSUME broken' = "none", NEW h \in File PROVE DataOK(h)'
  <2>0. broken = "none"
    BY <1>6 DEF Busy
  <2>1. /\ MultiTypeOK /\ ControlOK /\ MasterOK
        /\ DataOK(h) /\ DataOK(f)
        /\ PagerOK(h) /\ PagerOK(f) /\ PlayOK(h) /\ PlayOK(f)
    BY <1>0, <2>0
  <2>. QED
    BY <2>1 DEF Busy, PlayOK, PagerOK, DataOK, Undoable, Found, Decided, InTrans, Hot
<1>. QED  BY <1>1, <1>2, <1>3, <1>4, <1>5, <1>6 DEF CommitInv

\* Every file of the transaction is stored.
LEMMA SyncedKeeps ==
  ASSUME CommitInv, Synced
  PROVE  CommitInv'
<1>0. /\ MultiTypeOK /\ ControlOK /\ MasterOK
      /\ \A h \in File : PagerOK(h) /\ PlayOK(h)
      /\ broken = "none" => \A h \in File : DataOK(h)
  BY DEF CommitInv
<1>1. MultiTypeOK'
  BY <1>0 DEF Synced, CloseMaster, MultiTypeOK, FileTypeOK, MasterTypeOK,
      ClientTypeOK, CallTypeOK, HistoryTypeOK, Handle, InTrans
<1>2. ControlOK'
  BY <1>0 DEF Synced, ControlOK, InTrans
<1>3. ASSUME NEW h \in File PROVE PagerOK(h)'
  BY <1>0 DEF Synced, PagerOK, InTrans
<1>4. ASSUME NEW h \in File PROVE PlayOK(h)'
  BY <1>0 DEF Synced, CloseMaster, MultiTypeOK, MasterTypeOK, PlayOK, InTrans,
      MasterOK, Playing
<1>5. MasterOK'
  BY <1>0, MultiAssumption DEF Synced, CloseMaster, FileTypeOK, InTrans, MasterOK
<1>6. ASSUME broken' = "none", NEW h \in File PROVE DataOK(h)'
  <2>0. broken = "none"
    BY <1>6 DEF Synced
  <2>1. /\ MultiTypeOK /\ ControlOK /\ MasterOK
        /\ DataOK(h)
        /\ PagerOK(h) /\ PlayOK(h)
    BY <1>0, <2>0
  <2>. QED
    BY <2>1 DEF Synced, PlayOK, DataOK, Undoable, Found, Decided, InTrans, Hot
<1>. QED  BY <1>1, <1>2, <1>3, <1>4, <1>5, <1>6 DEF CommitInv

\* The commit: every journal that names the master is cold at once, and every other
\* changed file's is a known flaw.
LEMMA DeleteMasterKeeps ==
  ASSUME CommitInv, DeleteMaster
  PROVE  CommitInv'
<1>0. /\ MultiTypeOK /\ ControlOK /\ MasterOK
      /\ \A h \in File : PagerOK(h) /\ PlayOK(h)
      /\ broken = "none" => \A h \in File : DataOK(h)
  BY DEF CommitInv
<1>1. MultiTypeOK'
  BY <1>0 DEF DeleteMaster, Drafts, MultiTypeOK, FileTypeOK, MasterTypeOK,
      ClientTypeOK, CallTypeOK, HistoryTypeOK, InTrans
<1>2. ControlOK'
  BY <1>0 DEF DeleteMaster, ControlOK, InTrans
<1>3. ASSUME NEW h \in File PROVE PagerOK(h)'
  BY <1>0 DEF DeleteMaster, PagerOK, InTrans
<1>4. ASSUME NEW h \in File PROVE PlayOK(h)'
  BY <1>0 DEF DeleteMaster, PlayOK, InTrans, MasterOK, Playing
<1>5. MasterOK'
  BY <1>0 DEF DeleteMaster, MasterOK
<1>6. ASSUME broken' = "none", NEW h \in File PROVE DataOK(h)'
  <2>0. broken = "none"
    BY <1>6 DEF DeleteMaster
  <2>1. /\ MultiTypeOK /\ ControlOK /\ MasterOK
        /\ DataOK(h)
        /\ PagerOK(h) /\ PlayOK(h)
    BY <1>0, <2>0
  <2>a. masters' = masters \ {zMaster}
    BY <2>1 DEF DeleteMaster, MasterOK, MultiTypeOK, MasterTypeOK, Handle, ControlOK
  <2>b. play[h].by # Client /\ zMaster # NoName
    BY <2>1 DEF DeleteMaster, PlayOK, ControlOK
  <2>c. h \in InTrans => committed'[h] = cache[h] /\ db[h] = cache[h]
    BY <2>1, <1>6 DEF DeleteMaster, Drafts, MisnamedJournal, PagerOK, PlayOK, DataOK,
        Undoable, ControlOK
  <2>d. h \in InTrans /\ dirtyCache[h] => ~Hot(h)'
    BY <2>1, <2>a, <1>6 DEF DeleteMaster, MisnamedJournal, PagerOK, Hot, ControlOK
  <2>e. h \notin InTrans => committed'[h] = committed[h] /\ Found(h)' = Found(h)
    BY <2>1 DEF DeleteMaster, Drafts, MasterOK, Hot, Found
  <2>2. Found(h)' = committed'[h]
    BY <2>1, <2>c, <2>d, <2>e DEF DeleteMaster, DataOK, Undoable, Found, Decided
  <2>3. h \in InTrans' /\ ~Decided' => Undoable(h)'
    BY <2>1 DEF DeleteMaster, ControlOK, Decided
  <2>4. h \in InTrans' /\ Decided' => db'[h] = committed'[h] /\ cache'[h] = committed'[h]
    BY <2>c DEF DeleteMaster, InTrans
  <2>5. pstate'[h] = PAGER_RESERVED => db'[h] = committed'[h]
    BY <2>1, <2>c, <2>e DEF DeleteMaster, DataOK
  <2>6. /\ pstate'[h] = PAGER_SYNCED /\ ~Playing(h)'
        /\ setMaster'[h] => journal'[h].master = zMaster'
        => db'[h] = cache'[h]
    BY <2>1, <2>b, <2>c DEF DeleteMaster, PagerOK
  <2>7. play'[h].at \in {"close", "delete"} => db'[h] = committed'[h]
    BY <2>1, <2>c, <2>e DEF DeleteMaster, DataOK
  <2>. QED  BY <2>2, <2>3, <2>4, <2>5, <2>6, <2>7 DEF DataOK
<1>. QED  BY <1>1, <1>2, <1>3, <1>4, <1>5, <1>6 DEF CommitInv

\* The journal stays until it is deleted.
LEMMA CloseJournalKeeps ==
  ASSUME CommitInv, NEW f \in File, CloseJournal(f)
  PROVE  CommitInv'
<1>0. /\ MultiTypeOK /\ ControlOK /\ MasterOK
      /\ \A h \in File : PagerOK(h) /\ PlayOK(h)
      /\ broken = "none" => \A h \in File : DataOK(h)
  BY DEF CommitInv
<1>1. MultiTypeOK'
  BY <1>0 DEF CloseJournal, MultiTypeOK, FileTypeOK, MasterTypeOK, ClientTypeOK,
      CallTypeOK, HistoryTypeOK, Handle
<1>2. ControlOK'
  BY <1>0 DEF CloseJournal, ControlOK, InTrans
<1>3. ASSUME NEW h \in File PROVE PagerOK(h)'
  BY <1>0, MultiAssumption DEF CloseJournal, NeedsPlayback, ControlOK, PagerOK,
      InTrans, IsNext
<1>4. ASSUME NEW h \in File PROVE PlayOK(h)'
  BY <1>0 DEF CloseJournal, PlayOK, InTrans, Playing
<1>5. MasterOK'
  BY <1>0 DEF CloseJournal, MasterOK
<1>6. ASSUME broken' = "none", NEW h \in File PROVE DataOK(h)'
  <2>0. broken = "none"
    BY <1>6 DEF CloseJournal
  <2>1. /\ MultiTypeOK /\ ControlOK /\ MasterOK
        /\ DataOK(h) /\ DataOK(f)
        /\ PagerOK(h) /\ PagerOK(f) /\ PlayOK(h) /\ PlayOK(f)
    BY <1>0, <2>0
  <2>2. Found(h)' = committed'[h]
    BY <2>1 DEF CloseJournal, DataOK, Found, Hot
  <2>3. h \in InTrans' /\ ~Decided' => Undoable(h)'
    BY <2>1 DEF CloseJournal, DataOK, Undoable, Decided, InTrans, Hot
  <2>4. h \in InTrans' /\ Decided' => db'[h] = committed'[h] /\ cache'[h] = committed'[h]
    BY <2>1 DEF CloseJournal, ControlOK, DataOK, Decided, InTrans
  <2>5. pstate'[h] = PAGER_RESERVED => db'[h] = committed'[h]
    BY <2>1 DEF CloseJournal, DataOK
  <2>6. /\ pstate'[h] = PAGER_SYNCED /\ ~Playing(h)'
        /\ setMaster'[h] => journal'[h].master = zMaster'
        => db'[h] = cache'[h]
    BY <2>1 DEF CloseJournal, PlayOK, DataOK, InTrans
  <2>7. play'[h].at \in {"close", "delete"} => db'[h] = committed'[h]
    BY <2>1 DEF CloseJournal, DataOK
  <2>. QED  BY <2>2, <2>3, <2>4, <2>5, <2>6, <2>7 DEF DataOK
<1>. QED  BY <1>1, <1>2, <1>3, <1>4, <1>5, <1>6 DEF CommitInv

\* Either the deletion is the commit, or the file holds the last commit already.
LEMMA DeleteJournalKeeps ==
  ASSUME CommitInv, NEW f \in File, DeleteJournal(f)
  PROVE  CommitInv'
<1>0. /\ MultiTypeOK /\ ControlOK /\ MasterOK
      /\ \A h \in File : PagerOK(h) /\ PlayOK(h)
      /\ broken = "none" => \A h \in File : DataOK(h)
  BY DEF CommitInv
<1>1. MultiTypeOK'
  <2>a. Drafts \in [File -> Version]
    BY <1>0 DEF Drafts, MultiTypeOK, ClientTypeOK, HistoryTypeOK
  <2>1. journal' \in [File -> Journal]
    BY <1>0, MultiAssumption DEF DeleteJournal, Deleted, NoJournal, MultiTypeOK,
        Journal, Version
  <2>2. play' \in [File -> Playback]
    BY <1>0 DEF DeleteJournal, MultiTypeOK
  <2>3. FileTypeOK' /\ MasterTypeOK' /\ ClientTypeOK' /\ CallTypeOK' /\ HistoryTypeOK'
    BY <1>0, <2>a, MultiAssumption DEF DeleteJournal, EndTrans, ControlOK,
        MultiTypeOK, FileTypeOK, MasterTypeOK, ClientTypeOK, CallTypeOK,
        HistoryTypeOK, Version
  <2>. QED  BY <2>1, <2>2, <2>3 DEF MultiTypeOK
<1>2. ControlOK'
  BY <1>0 DEF DeleteJournal, EndTrans, ControlOK, MultiTypeOK, ClientTypeOK,
      CallTypeOK, InTrans
<1>3. ASSUME NEW h \in File PROVE PagerOK(h)'
  BY <1>0 DEF DeleteJournal, Deleted, EndTrans, ControlOK, MultiTypeOK, ClientTypeOK,
      CallTypeOK, PagerOK, InTrans
<1>4. ASSUME NEW h \in File PROVE PlayOK(h)'
  BY <1>0 DEF DeleteJournal, EndTrans, PlayOK, InTrans, Playing
<1>5. MasterOK'
  BY <1>0 DEF DeleteJournal, MultiTypeOK, CallTypeOK, MasterOK
<1>6. ASSUME broken' = "none", NEW h \in File PROVE DataOK(h)'
  <2>0. broken = "none"
    BY <1>6 DEF DeleteJournal
  <2>1. /\ MultiTypeOK /\ ControlOK /\ MasterOK
        /\ DataOK(h) /\ DataOK(f)
        /\ PagerOK(h) /\ PagerOK(f) /\ PlayOK(h) /\ PlayOK(f)
    BY <1>0, <2>0
  <2>a. f \in InTrans /\ play[f].by # Client /\ ~Playing(f)
    BY <2>1 DEF DeleteJournal, ControlOK, IsNext, PlayOK
  <2>b. h # f => Found(h)' = Found(h) /\ committed'[h] = committed[h]
    BY <2>1, <2>a DEF DeleteJournal, Deleted, Hot, Found, Drafts, ControlOK
  <2>c. doing = "commit" /\ zMaster = NoName => committed'[f] = cache[f] /\ db[f] = cache[f]
    BY <2>1, <2>a DEF DeleteJournal, Drafts, PagerOK, DataOK, Undoable
  <2>d. doing # "commit" \/ zMaster # NoName => committed' = committed /\ db[f] = committed[f]
    BY <2>1, <2>a DEF DeleteJournal, PagerOK, DataOK, Undoable, Decided, ControlOK,
        NeedsPlayback, MultiTypeOK, ClientTypeOK, CallTypeOK, InTrans
  <2>h. \/ ~journal'[f].exists
        \/ journal' = journal /\ opener[f] # Nobody
    BY <2>1 DEF DeleteJournal, Deleted, NoJournal, MultiTypeOK
  <2>e. Found(f)' = db[f] \/ (Found(f)' = Found(f) /\ journal' = journal /\ opener[f] # Nobody)
    BY <2>h DEF DeleteJournal, Found, Hot
  <2>g. doing = "commit" /\ zMaster = NoName /\ journal' = journal /\ opener[f] # Nobody => ~dirtyCache[f]
    BY <2>1, <2>a, <1>6 DEF DeleteJournal, DataOK, Undoable, Decided
  <2>2. Found(h)' = committed'[h]
    BY <2>1, <2>a, <2>b, <2>c, <2>d, <2>e, <2>g DEF DataOK, Undoable
  <2>3. h \in InTrans' /\ ~Decided' => Undoable(h)'
    BY <2>1, <2>b DEF DeleteJournal, Deleted, EndTrans, MultiTypeOK, ClientTypeOK,
        DataOK, Undoable, Decided, InTrans, Hot
  <2>4. h \in InTrans' /\ Decided' => db'[h] = committed'[h] /\ cache'[h] = committed'[h]
    BY <2>1 DEF DeleteJournal, EndTrans, MultiTypeOK, ClientTypeOK, DataOK, Decided,
        InTrans
  <2>5. pstate'[h] = PAGER_RESERVED => db'[h] = committed'[h]
    BY <2>1, <2>b, <2>c DEF DeleteJournal, EndTrans, DataOK
  <2>6. /\ pstate'[h] = PAGER_SYNCED /\ ~Playing(h)'
        /\ setMaster'[h] => journal'[h].master = zMaster'
        => db'[h] = cache'[h]
    BY <2>1 DEF DeleteJournal, Deleted, EndTrans, MultiTypeOK, ClientTypeOK, PlayOK,
        DataOK, InTrans
  <2>7. play'[h].at \in {"close", "delete"} => db'[h] = committed'[h]
    BY <2>1, <2>b, <2>c DEF DeleteJournal, DataOK
  <2>. QED  BY <2>2, <2>3, <2>4, <2>5, <2>6, <2>7 DEF DataOK
<1>. QED  BY <1>1, <1>2, <1>3, <1>4, <1>5, <1>6 DEF CommitInv

\* The loop has come to its end.
LEMMA ReturnKeeps ==
  ASSUME CommitInv, Return
  PROVE  CommitInv'
<1>0. /\ MultiTypeOK /\ ControlOK /\ MasterOK
      /\ \A h \in File : PagerOK(h) /\ PlayOK(h)
      /\ broken = "none" => \A h \in File : DataOK(h)
  BY DEF CommitInv
<1>1. MultiTypeOK'
  BY <1>0 DEF Return, MultiTypeOK, FileTypeOK, MasterTypeOK, ClientTypeOK, CallTypeOK,
      HistoryTypeOK
<1>2. ControlOK'
  BY DEF Return, ControlOK
<1>3. ASSUME NEW h \in File PROVE PagerOK(h)'
  BY <1>0 DEF Return, ControlOK, PagerOK, InTrans
<1>4. ASSUME NEW h \in File PROVE PlayOK(h)'
  BY <1>0 DEF Return, ControlOK, PlayOK, InTrans
<1>5. MasterOK'
  BY <1>0 DEF Return, MasterOK
<1>6. ASSUME broken' = "none", NEW h \in File PROVE DataOK(h)'
  <2>0. broken = "none"
    BY <1>6 DEF Return
  <2>1. /\ MultiTypeOK /\ ControlOK /\ MasterOK
        /\ DataOK(h)
        /\ PagerOK(h) /\ PlayOK(h)
    BY <1>0, <2>0
  <2>2. Found(h)' = committed'[h]
    BY <2>1 DEF Return, DataOK, Found, Hot
  <2>3. h \in InTrans' /\ ~Decided' => Undoable(h)'
    BY <2>1 DEF Return, ControlOK, InTrans
  <2>4. h \in InTrans' /\ Decided' => db'[h] = committed'[h] /\ cache'[h] = committed'[h]
    BY DEF Return, Decided
  <2>5. pstate'[h] = PAGER_RESERVED => db'[h] = committed'[h]
    BY <2>1 DEF Return, DataOK
  <2>6. /\ pstate'[h] = PAGER_SYNCED /\ ~Playing(h)'
        /\ setMaster'[h] => journal'[h].master = zMaster'
        => db'[h] = cache'[h]
    BY <2>1 DEF Return, ControlOK, InTrans
  <2>7. play'[h].at \in {"close", "delete"} => db'[h] = committed'[h]
    BY <2>1 DEF Return, DataOK
  <2>. QED  BY <2>2, <2>3, <2>4, <2>5, <2>6, <2>7 DEF DataOK
<1>. QED  BY <1>1, <1>2, <1>3, <1>4, <1>5, <1>6 DEF CommitInv

\* Nothing but the control changes.
LEMMA RollbackKeeps ==
  ASSUME CommitInv, Rollback
  PROVE  CommitInv'
<1>0. /\ MultiTypeOK /\ ControlOK /\ MasterOK
      /\ \A h \in File : PagerOK(h) /\ PlayOK(h)
      /\ broken = "none" => \A h \in File : DataOK(h)
  BY DEF CommitInv
<1>1. MultiTypeOK'
  BY <1>0 DEF Rollback, MultiTypeOK, FileTypeOK, MasterTypeOK, ClientTypeOK,
      CallTypeOK, HistoryTypeOK, InTrans
<1>2. ControlOK'
  BY <1>0 DEF Rollback, ControlOK, InTrans
<1>3. ASSUME NEW h \in File PROVE PagerOK(h)'
  BY <1>0 DEF Rollback, ControlOK, PagerOK, InTrans
<1>4. ASSUME NEW h \in File PROVE PlayOK(h)'
  BY <1>0 DEF Rollback, PlayOK, InTrans, Playing
<1>5. MasterOK'
  BY <1>0 DEF Rollback, MasterOK
<1>6. ASSUME broken' = "none", NEW h \in File PROVE DataOK(h)'
  <2>0. broken = "none"
    BY <1>6 DEF Rollback
  <2>1. /\ MultiTypeOK /\ ControlOK /\ MasterOK
        /\ DataOK(h)
        /\ PagerOK(h) /\ PlayOK(h)
    BY <1>0, <2>0
  <2>. QED
    BY <2>1 DEF Rollback, PlayOK, DataOK, Undoable, Found, Decided, InTrans, Hot
<1>. QED  BY <1>1, <1>2, <1>3, <1>4, <1>5, <1>6 DEF CommitInv

------------------------------------------------------------------------------
(* pager_playback and pager_delmaster. *)

\* The client plays back only a file whose lock it holds.
LEMMA PlayOwnKeeps ==
  ASSUME CommitInv, NEW f \in File, PlayOwn(f)
  PROVE  CommitInv'
<1>0. /\ MultiTypeOK /\ ControlOK /\ MasterOK
      /\ \A h \in File : PagerOK(h) /\ PlayOK(h)
      /\ broken = "none" => \A h \in File : DataOK(h)
  BY DEF CommitInv
<1>a. /\ \A h \in File : h # f => play'[h] = play[h]
      /\ play'[f].by = Client /\ play'[f].at = "play" /\ play'[f].master = NoName
      /\ play[f].by \in {Client, Nobody}
  BY <1>0 DEF PlayOwn, NotPlayed, MultiTypeOK, PlayOK, NeedsPlayback
<1>1. MultiTypeOK'
  BY <1>0 DEF PlayOwn, NotPlayed, MultiTypeOK, Playback, FileTypeOK, MasterTypeOK,
      ClientTypeOK, CallTypeOK, HistoryTypeOK, Handle
<1>2. ControlOK'
  BY <1>0 DEF PlayOwn, ControlOK, InTrans
<1>3. ASSUME NEW h \in File PROVE PagerOK(h)'
  BY <1>0 DEF PlayOwn, PagerOK, InTrans
<1>4. ASSUME NEW h \in File PROVE PlayOK(h)'
  BY <1>0, <1>a DEF PlayOwn, NeedsPlayback, PlayOK, PagerOK, InTrans, Playing
<1>5. MasterOK'
  BY <1>0, <1>a DEF PlayOwn, PlayOK, MasterOK
<1>6. ASSUME broken' = "none", NEW h \in File PROVE DataOK(h)'
  <2>0. broken = "none"
    BY <1>6 DEF PlayOwn
  <2>1. /\ MultiTypeOK /\ ControlOK /\ MasterOK
        /\ DataOK(h) /\ DataOK(f)
        /\ PagerOK(h) /\ PagerOK(f) /\ PlayOK(h) /\ PlayOK(f)
    BY <1>0, <2>0
  <2>. QED
    BY <2>1 DEF PlayOwn, PlayOK, DataOK, Undoable, Found, Decided, InTrans, Hot
<1>. QED  BY <1>1, <1>2, <1>3, <1>4, <1>5, <1>6 DEF CommitInv

\* No client has the file locked, so its journal, if hot, is all there is to it.
LEMMA PlayHotKeeps ==
  ASSUME CommitInv, NEW f \in File, PlayHot(f)
  PROVE  CommitInv'
<1>0. /\ MultiTypeOK /\ ControlOK /\ MasterOK
      /\ \A h \in File : PagerOK(h) /\ PlayOK(h)
      /\ broken = "none" => \A h \in File : DataOK(h)
  BY DEF CommitInv
<1>1. MultiTypeOK'
  BY <1>0 DEF PlayHot, NotPlayed, MultiTypeOK, Playback, FileTypeOK, MasterTypeOK,
      ClientTypeOK, CallTypeOK, HistoryTypeOK, Handle
<1>2. ControlOK'
  BY <1>0, MultiAssumption DEF PlayHot, ControlOK, PlayOK, InTrans
<1>3. ASSUME NEW h \in File PROVE PagerOK(h)'
  BY <1>0 DEF PlayHot, PagerOK, InTrans, NeedsPlayback, NeedsSync
<1>4. ASSUME NEW h \in File PROVE PlayOK(h)'
  BY <1>0, MultiAssumption DEF PlayHot, NotPlayed, PlayOK, InTrans, Playing
<1>5. MasterOK'
  BY <1>0 DEF PlayHot, NotPlayed, InTrans, MasterOK
<1>6. ASSUME broken' = "none", NEW h \in File PROVE DataOK(h)'
  <2>0. broken = "none"
    BY <1>6 DEF PlayHot
  <2>1. /\ MultiTypeOK /\ ControlOK /\ MasterOK
        /\ DataOK(h) /\ DataOK(f)
        /\ PagerOK(h) /\ PagerOK(f) /\ PlayOK(h) /\ PlayOK(f)
    BY <1>0, <2>0
  <2>. QED
    BY <2>1 DEF PlayHot, ControlOK, PlayOK, PagerOK, DataOK, Undoable, Found, Decided,
        InTrans, Hot
<1>. QED  BY <1>1, <1>2, <1>3, <1>4, <1>5, <1>6 DEF CommitInv

\* A hot journal brings the file to the last commit; a cold one has nothing to bring.
LEMMA PlayKeeps ==
  ASSUME CommitInv, NEW f \in File, Play(f)
  PROVE  CommitInv'
<1>0. /\ MultiTypeOK /\ ControlOK /\ MasterOK
      /\ \A h \in File : PagerOK(h) /\ PlayOK(h)
      /\ broken = "none" => \A h \in File : DataOK(h)
  BY DEF CommitInv
<1>a. /\ \A h \in File : h # f => play'[h] = play[h]
      /\ play'[f].by = play[f].by /\ play'[f].at = "close" /\ play'[f].todo = play[f].todo
      /\ play'[f].master = IF Hot(f) THEN journal[f].master ELSE play[f].master
  BY <1>0 DEF Play, PlayAt, MultiTypeOK, Playback
<1>i. InTrans' = InTrans
  BY <1>0 DEF Play, InTrans
<1>b. f \in InTrans => at = "wait"
  BY <1>0 DEF Play, PlayOK, Playing
<1>1. MultiTypeOK'
  <2>a. play[f] \in Playback /\ journal[f].master \in Name \cup {NoName}
    BY <1>0 DEF MultiTypeOK, Journal
  <2>b. /\ [play[f] EXCEPT !.at = "close"] \in Playback
        /\ [play[f] EXCEPT !.at = "close", !.master = journal[f].master] \in Playback
    BY <2>a DEF Playback
  <2>1. journal' \in [File -> Journal]
    BY <1>0 DEF Play, MultiTypeOK
  <2>2. play' \in [File -> Playback]
    BY <1>0, <2>b DEF Play, PlayAt, MultiTypeOK
  <2>3. FileTypeOK' /\ MasterTypeOK' /\ ClientTypeOK' /\ CallTypeOK' /\ HistoryTypeOK'
    BY <1>0 DEF Play, MultiTypeOK, FileTypeOK, MasterTypeOK, ClientTypeOK, CallTypeOK,
        HistoryTypeOK, Journal
  <2>. QED  BY <2>1, <2>2, <2>3 DEF MultiTypeOK
<1>2. ControlOK'
  BY <1>0, <1>a, <1>i DEF Play, ControlOK, MultiTypeOK, CallTypeOK
<1>3. ASSUME NEW h \in File PROVE PagerOK(h)'
  BY <1>0 DEF Play, PagerOK, InTrans, NeedsPlayback, NeedsSync
<1>4. ASSUME NEW h \in File PROVE PlayOK(h)'
  BY <1>0, <1>a, <1>i DEF Play, PlayOK, Playing, Hot
<1>5. MasterOK'
  BY <1>0, <1>a, <1>b DEF Play, MasterOK, InTrans, Hot
<1>6. ASSUME broken' = "none", NEW h \in File PROVE DataOK(h)'
  <2>0. broken = "none"
    BY <1>6 DEF Play
  <2>1. /\ MultiTypeOK /\ ControlOK /\ MasterOK
        /\ DataOK(h) /\ DataOK(f)
        /\ PagerOK(h) /\ PagerOK(f) /\ PlayOK(h) /\ PlayOK(f)
    BY <1>0, <2>0
  <2>2. Found(h)' = committed'[h]
    BY <2>1 DEF Play, MultiTypeOK, FileTypeOK, DataOK, Found, Hot
  <2>3. h \in InTrans' /\ ~Decided' => Undoable(h)'
    BY <2>1 DEF Play, MultiTypeOK, FileTypeOK, DataOK, Undoable, Decided, InTrans, Hot
  <2>4. h \in InTrans' /\ Decided' => db'[h] = committed'[h] /\ cache'[h] = committed'[h]
    BY <2>1, <1>b DEF Play, MultiTypeOK, FileTypeOK, DataOK, Decided, InTrans
  <2>5. pstate'[h] = PAGER_RESERVED => db'[h] = committed'[h]
    BY <2>1 DEF Play, MultiTypeOK, FileTypeOK, DataOK, Found
  <2>6. /\ pstate'[h] = PAGER_SYNCED /\ ~Playing(h)'
        /\ setMaster'[h] => journal'[h].master = zMaster'
        => db'[h] = cache'[h]
    BY <2>1 DEF Play, ControlOK, MultiTypeOK, FileTypeOK, PlayOK, PagerOK, DataOK,
        InTrans
  <2>7. play'[h].at \in {"close", "delete"} => db'[h] = committed'[h]
    BY <2>1, <1>a DEF Play, MultiTypeOK, FileTypeOK, DataOK, Found
  <2>. QED  BY <2>2, <2>3, <2>4, <2>5, <2>6, <2>7 DEF DataOK
<1>. QED  BY <1>1, <1>2, <1>3, <1>4, <1>5, <1>6 DEF CommitInv

\* The file is at the last commit.
LEMMA PlayCloseKeeps ==
  ASSUME CommitInv, NEW f \in File, PlayClose(f)
  PROVE  CommitInv'
<1>0. /\ MultiTypeOK /\ ControlOK /\ MasterOK
      /\ \A h \in File : PagerOK(h) /\ PlayOK(h)
      /\ broken = "none" => \A h \in File : DataOK(h)
  BY DEF CommitInv
<1>1. MultiTypeOK'
  <2>1. journal' \in [File -> Journal]
    BY <1>0 DEF PlayClose, MultiTypeOK
  <2>2. play' \in [File -> Playback]
    BY <1>0 DEF PlayClose, PlayAt, MultiTypeOK, Playback
  <2>3. FileTypeOK' /\ MasterTypeOK' /\ ClientTypeOK' /\ CallTypeOK' /\ HistoryTypeOK'
    BY <1>0 DEF PlayClose, MultiTypeOK, FileTypeOK, MasterTypeOK, ClientTypeOK,
        CallTypeOK, HistoryTypeOK, Handle
  <2>. QED  BY <2>1, <2>2, <2>3 DEF MultiTypeOK
<1>2. ControlOK'
  BY <1>0 DEF PlayClose, PlayAt, ControlOK, InTrans
<1>3. ASSUME NEW h \in File PROVE PagerOK(h)'
  BY <1>0 DEF PlayClose, PagerOK, InTrans, NeedsPlayback, NeedsSync
<1>4. ASSUME NEW h \in File PROVE PlayOK(h)'
  BY <1>0 DEF PlayClose, PlayAt, PlayOK, InTrans, Playing
<1>5. MasterOK'
  BY <1>0 DEF PlayClose, PlayAt, InTrans, MasterOK
<1>6. ASSUME broken' = "none", NEW h \in File PROVE DataOK(h)'
  <2>0. broken = "none"
    BY <1>6 DEF PlayClose
  <2>1. /\ MultiTypeOK /\ ControlOK /\ MasterOK
        /\ DataOK(h) /\ DataOK(f)
        /\ PagerOK(h) /\ PagerOK(f) /\ PlayOK(h) /\ PlayOK(f)
    BY <1>0, <2>0
  <2>. QED
    BY <2>1 DEF PlayClose, PlayAt, ControlOK, PlayOK, PagerOK, DataOK, Undoable,
        Found, Decided, InTrans, Hot
<1>. QED  BY <1>1, <1>2, <1>3, <1>4, <1>5, <1>6 DEF CommitInv

\* The file is at the last commit, with or without its journal.
LEMMA PlayDeleteKeeps ==
  ASSUME CommitInv, NEW f \in File, PlayDelete(f)
  PROVE  CommitInv'
<1>0. /\ MultiTypeOK /\ ControlOK /\ MasterOK
      /\ \A h \in File : PagerOK(h) /\ PlayOK(h)
      /\ broken = "none" => \A h \in File : DataOK(h)
  BY DEF CommitInv
<1>i. InTrans' = IF play[f].by = Client THEN InTrans \ {f} ELSE InTrans
  BY <1>0 DEF PlayDelete, EndTrans, InTrans, MultiTypeOK, ClientTypeOK
<1>a. /\ \A h \in File : h # f => journal'[h] = journal[h]
      /\ \A h \in File : play'[h].by = play[h].by
      /\ play[f].by = Client => at = "wait"
      /\ play[f].by # Client => f \notin InTrans /\ ~dirtyCache[f] /\ ~setMaster[f]
  BY <1>0 DEF PlayDelete, PlayAt, Deleted, PlayOK, PagerOK, Playing
<1>1. MultiTypeOK'
  <2>1. journal' \in [File -> Journal]
    BY <1>0, MultiAssumption DEF PlayDelete, Deleted, NoJournal, MultiTypeOK, Journal,
        Version
  <2>2. play' \in [File -> Playback]
    BY <1>0 DEF PlayDelete, PlayAt, MultiTypeOK, Playback
  <2>3. FileTypeOK' /\ MasterTypeOK' /\ ClientTypeOK' /\ CallTypeOK' /\ HistoryTypeOK'
    BY <1>0, MultiAssumption DEF PlayDelete, PlayAt, Deleted, EndTrans, NoJournal,
        MultiTypeOK, FileTypeOK, MasterTypeOK, ClientTypeOK, CallTypeOK,
        HistoryTypeOK, Version, Handle
  <2>. QED  BY <2>1, <2>2, <2>3 DEF MultiTypeOK
<1>2. ControlOK'
  BY <1>0, <1>a, <1>i DEF PlayDelete, ControlOK, MultiTypeOK, CallTypeOK
<1>3. ASSUME NEW h \in File PROVE PagerOK(h)'
  BY <1>0, <1>a, <1>i DEF PlayDelete, EndTrans, PagerOK, ControlOK, NeedsSync,
      NeedsPlayback, MultiTypeOK, ClientTypeOK
<1>4. ASSUME NEW h \in File PROVE PlayOK(h)'
  BY <1>0 DEF PlayDelete, PlayAt, EndTrans, MultiTypeOK, ClientTypeOK, PlayOK,
      InTrans, Playing
<1>5. MasterOK'
  BY <1>0, <1>a DEF PlayDelete, PlayAt, Deleted, NoJournal, InTrans, MasterOK
<1>6. ASSUME broken' = "none", NEW h \in File PROVE DataOK(h)'
  <2>0. broken = "none"
    BY <1>6 DEF PlayDelete
  <2>1. /\ MultiTypeOK /\ ControlOK /\ MasterOK
        /\ DataOK(h) /\ DataOK(f)
        /\ PagerOK(h) /\ PagerOK(f) /\ PlayOK(h) /\ PlayOK(f)
    BY <1>0, <2>0
  <2>. QED
    BY <2>1, <1>a DEF PlayDelete, PlayAt, Deleted, EndTrans, NoJournal, ControlOK,
        MultiTypeOK, ClientTypeOK, PlayOK, PagerOK, DataOK, Undoable, Found, Decided,
        InTrans, Hot
<1>. QED  BY <1>1, <1>2, <1>3, <1>4, <1>5, <1>6 DEF CommitInv

\* The master journal is opened by one at a time.
LEMMA OpenMasterKeeps ==
  ASSUME CommitInv, NEW f \in File, OpenMaster(f)
  PROVE  CommitInv'
<1>0. /\ MultiTypeOK /\ ControlOK /\ MasterOK
      /\ \A h \in File : PagerOK(h) /\ PlayOK(h)
      /\ broken = "none" => \A h \in File : DataOK(h)
  BY DEF CommitInv
<1>i. InTrans' = InTrans
  BY <1>0 DEF OpenMaster, InTrans
<1>a. /\ \A h \in File : h # f => play'[h] = play[h]
      /\ \A h \in File : play'[h].by = play[h].by /\ play'[h].master = play[h].master
  BY <1>0 DEF OpenMaster, PlayAt, MultiTypeOK, Playback
<1>b. \/ play'[f].at = "done" /\ UNCHANGED masterOpener
      \/ /\ play'[f].at = "children" /\ play[f].master \in Name
         /\ masterOpener[play[f].master] = Nobody
         /\ masterOpener' = [masterOpener EXCEPT ![play[f].master] = f]
  BY <1>0 DEF OpenMaster, PlayAt, MasterTypeOK, MultiTypeOK, Playback
<1>1. MultiTypeOK'
  <2>1. journal' \in [File -> Journal]
    BY <1>0 DEF OpenMaster, MultiTypeOK
  <2>2. play' \in [File -> Playback]
    BY <1>0 DEF OpenMaster, PlayAt, MultiTypeOK, Playback
  <2>3. FileTypeOK' /\ MasterTypeOK' /\ ClientTypeOK' /\ CallTypeOK' /\ HistoryTypeOK'
    BY <1>0 DEF OpenMaster, MultiTypeOK, FileTypeOK, MasterTypeOK, ClientTypeOK,
        CallTypeOK, HistoryTypeOK, Handle
  <2>. QED  BY <2>1, <2>2, <2>3 DEF MultiTypeOK
<1>2. ControlOK'
  BY <1>0, <1>a, <1>i DEF OpenMaster, ControlOK, MultiTypeOK, CallTypeOK
<1>3. ASSUME NEW h \in File PROVE PagerOK(h)'
  BY <1>0 DEF OpenMaster, PagerOK, InTrans, NeedsPlayback, NeedsSync
<1>4. ASSUME NEW h \in File PROVE PlayOK(h)'
  BY <1>0, <1>a, <1>b, <1>i, MultiAssumption DEF OpenMaster, PlayOK, Playing,
      MultiTypeOK, MasterTypeOK
<1>5. MasterOK'
  BY <1>0, <1>a, <1>b, MultiAssumption DEF OpenMaster, MasterOK, InTrans, MultiTypeOK,
      MasterTypeOK
<1>6. ASSUME broken' = "none", NEW h \in File PROVE DataOK(h)'
  <2>0. broken = "none"
    BY <1>6 DEF OpenMaster
  <2>1. /\ MultiTypeOK /\ ControlOK /\ MasterOK
        /\ DataOK(h) /\ DataOK(f)
        /\ PagerOK(h) /\ PagerOK(f) /\ PlayOK(h) /\ PlayOK(f)
    BY <1>0, <2>0
  <2>2. Found(h)' = committed'[h]
    BY <2>1 DEF OpenMaster, DataOK, Found, Hot
  <2>3. h \in InTrans' /\ ~Decided' => Undoable(h)'
    BY <2>1 DEF OpenMaster, DataOK, Undoable, Decided, InTrans, Hot
  <2>4. h \in InTrans' /\ Decided' => db'[h] = committed'[h] /\ cache'[h] = committed'[h]
    BY <2>1 DEF OpenMaster, DataOK, Decided, InTrans
  <2>5. pstate'[h] = PAGER_RESERVED => db'[h] = committed'[h]
    BY <2>1 DEF OpenMaster, DataOK
  <2>6. /\ pstate'[h] = PAGER_SYNCED /\ ~Playing(h)'
        /\ setMaster'[h] => journal'[h].master = zMaster'
        => db'[h] = cache'[h]
    BY <2>1 DEF OpenMaster, ControlOK, PlayOK, PagerOK, DataOK, InTrans
  <2>7. play'[h].at \in {"close", "delete"} => db'[h] = committed'[h]
    BY <2>1, <1>a, <1>b DEF OpenMaster, DataOK
  <2>. QED  BY <2>2, <2>3, <2>4, <2>5, <2>6, <2>7 DEF DataOK
<1>. QED  BY <1>1, <1>2, <1>3, <1>4, <1>5, <1>6 DEF CommitInv

\* A child is looked at, and nothing is changed.
LEMMA OpenChildKeeps ==
  ASSUME CommitInv, NEW f \in File, NEW g \in File, OpenChild(f, g)
  PROVE  CommitInv'
<1>0. /\ MultiTypeOK /\ ControlOK /\ MasterOK
      /\ \A h \in File : PagerOK(h) /\ PlayOK(h)
      /\ broken = "none" => \A h \in File : DataOK(h)
  BY DEF CommitInv
<1>i. InTrans' = InTrans
  BY <1>0 DEF OpenChild, InTrans
<1>a. /\ \A h \in File : h # f => play'[h] = play[h]
      /\ \A h \in File : play'[h].by = play[h].by /\ play'[h].master = play[h].master
      /\ play'[f].at \in {"children", "child", "out"}
  BY <1>0 DEF OpenChild, PlayAt, MultiTypeOK, Playback
<1>1. MultiTypeOK'
  <2>1. journal' \in [File -> Journal]
    BY <1>0 DEF OpenChild, MultiTypeOK
  <2>2. play' \in [File -> Playback]
    BY <1>0 DEF OpenChild, PlayAt, MultiTypeOK, Playback
  <2>3. FileTypeOK' /\ MasterTypeOK' /\ ClientTypeOK' /\ CallTypeOK' /\ HistoryTypeOK'
    BY <1>0 DEF OpenChild, MultiTypeOK, FileTypeOK, MasterTypeOK, ClientTypeOK,
        CallTypeOK, HistoryTypeOK, Handle
  <2>. QED  BY <2>1, <2>2, <2>3 DEF MultiTypeOK
<1>2. ControlOK'
  BY <1>0, <1>a, <1>i DEF OpenChild, ControlOK, MultiTypeOK, CallTypeOK
<1>3. ASSUME NEW h \in File PROVE PagerOK(h)'
  BY <1>0 DEF OpenChild, PagerOK, InTrans, NeedsPlayback, NeedsSync
<1>4. ASSUME NEW h \in File PROVE PlayOK(h)'
  BY <1>0, <1>a DEF OpenChild, PlayOK, Playing, InTrans
<1>5. MasterOK'
  BY <1>0, <1>a DEF OpenChild, MasterOK, InTrans
<1>6. ASSUME broken' = "none", NEW h \in File PROVE DataOK(h)'
  <2>0. broken = "none"
    BY <1>6 DEF OpenChild
  <2>1. /\ MultiTypeOK /\ ControlOK /\ MasterOK
        /\ DataOK(h) /\ DataOK(f) /\ DataOK(g)
        /\ PagerOK(h) /\ PagerOK(f) /\ PagerOK(g) /\ PlayOK(h) /\ PlayOK(f) /\ PlayOK(g)
    BY <1>0, <2>0
  <2>2. Found(h)' = committed'[h]
    BY <2>1 DEF OpenChild, DataOK, Found, Hot
  <2>3. h \in InTrans' /\ ~Decided' => Undoable(h)'
    BY <2>1 DEF OpenChild, DataOK, Undoable, Decided, InTrans, Hot
  <2>4. h \in InTrans' /\ Decided' => db'[h] = committed'[h] /\ cache'[h] = committed'[h]
    BY <2>1 DEF OpenChild, DataOK, Decided, InTrans
  <2>5. pstate'[h] = PAGER_RESERVED => db'[h] = committed'[h]
    BY <2>1 DEF OpenChild, DataOK
  <2>6. /\ pstate'[h] = PAGER_SYNCED /\ ~Playing(h)'
        /\ setMaster'[h] => journal'[h].master = zMaster'
        => db'[h] = cache'[h]
    BY <2>1 DEF OpenChild, ControlOK, PlayOK, PagerOK, DataOK, InTrans
  <2>7. play'[h].at \in {"close", "delete"} => db'[h] = committed'[h]
    BY <2>1, <1>a DEF OpenChild, DataOK
  <2>. QED  BY <2>2, <2>3, <2>4, <2>5, <2>6, <2>7 DEF DataOK
<1>. QED  BY <1>1, <1>2, <1>3, <1>4, <1>5, <1>6 DEF CommitInv

\* A child is looked at, and nothing is changed.
LEMMA ReadChildKeeps ==
  ASSUME CommitInv, NEW f \in File, NEW g \in File, ReadChild(f, g)
  PROVE  CommitInv'
<1>0. /\ MultiTypeOK /\ ControlOK /\ MasterOK
      /\ \A h \in File : PagerOK(h) /\ PlayOK(h)
      /\ broken = "none" => \A h \in File : DataOK(h)
  BY DEF CommitInv
<1>1. MultiTypeOK'
  <2>a. play[f] \in Playback
    BY <1>0 DEF MultiTypeOK
  <2>b. /\ [play[f] EXCEPT !.at = "out"] \in Playback
        /\ [play[f] EXCEPT !.at = "children", !.todo = @ \ {g}] \in Playback
    BY <2>a DEF Playback
  <2>1. journal' \in [File -> Journal]
    BY <1>0 DEF ReadChild, MultiTypeOK
  <2>2. play' \in [File -> Playback]
    BY <1>0, <2>b DEF ReadChild, MultiTypeOK
  <2>3. FileTypeOK' /\ MasterTypeOK' /\ ClientTypeOK' /\ CallTypeOK' /\ HistoryTypeOK'
    BY <1>0 DEF ReadChild, MultiTypeOK, FileTypeOK, MasterTypeOK, ClientTypeOK,
        CallTypeOK, HistoryTypeOK, Handle
  <2>. QED  BY <2>1, <2>2, <2>3 DEF MultiTypeOK
<1>2. ControlOK'
  BY <1>0 DEF ReadChild, ControlOK, MultiTypeOK, CallTypeOK, InTrans
<1>3. ASSUME NEW h \in File PROVE PagerOK(h)'
  BY <1>0 DEF ReadChild, PagerOK, InTrans, NeedsPlayback, NeedsSync
<1>4. ASSUME NEW h \in File PROVE PlayOK(h)'
  BY <1>0 DEF ReadChild, MultiTypeOK, PlayOK, InTrans, Playing
<1>5. MasterOK'
  BY <1>0 DEF ReadChild, MultiTypeOK, InTrans, MasterOK
<1>6. ASSUME broken' = "none", NEW h \in File PROVE DataOK(h)'
  <2>0. broken = "none"
    BY <1>6 DEF ReadChild
  <2>1. /\ MultiTypeOK /\ ControlOK /\ MasterOK
        /\ DataOK(h) /\ DataOK(f) /\ DataOK(g)
        /\ PagerOK(h) /\ PagerOK(f) /\ PagerOK(g) /\ PlayOK(h) /\ PlayOK(f) /\ PlayOK(g)
    BY <1>0, <2>0
  <2>. QED
    BY <2>1 DEF ReadChild, ControlOK, MultiTypeOK, PlayOK, PagerOK, DataOK, Undoable,
        Found, Decided, InTrans, Hot
<1>. QED  BY <1>1, <1>2, <1>3, <1>4, <1>5, <1>6 DEF CommitInv

\* The master stays, for its deleter has it open.
LEMMA NoChildKeeps ==
  ASSUME CommitInv, NEW f \in File, NoChild(f)
  PROVE  CommitInv'
<1>0. /\ MultiTypeOK /\ ControlOK /\ MasterOK
      /\ \A h \in File : PagerOK(h) /\ PlayOK(h)
      /\ broken = "none" => \A h \in File : DataOK(h)
  BY DEF CommitInv
<1>1. MultiTypeOK'
  <2>1. journal' \in [File -> Journal]
    BY <1>0 DEF NoChild, MultiTypeOK
  <2>2. play' \in [File -> Playback]
    BY <1>0 DEF NoChild, PlayAt, MultiTypeOK, Playback
  <2>3. FileTypeOK' /\ MasterTypeOK' /\ ClientTypeOK' /\ CallTypeOK' /\ HistoryTypeOK'
    BY <1>0 DEF NoChild, MultiTypeOK, FileTypeOK, MasterTypeOK, ClientTypeOK,
        CallTypeOK, HistoryTypeOK
  <2>. QED  BY <2>1, <2>2, <2>3 DEF MultiTypeOK
<1>2. ControlOK'
  BY <1>0 DEF NoChild, PlayAt, ControlOK, InTrans
<1>3. ASSUME NEW h \in File PROVE PagerOK(h)'
  BY <1>0 DEF NoChild, PagerOK, InTrans, NeedsPlayback, NeedsSync
<1>4. ASSUME NEW h \in File PROVE PlayOK(h)'
  BY <1>0, MultiAssumption DEF NoChild, PlayAt, PlayOK, InTrans, Playing
<1>5. MasterOK'
  BY <1>0 DEF NoChild, PlayAt, InTrans, MasterOK
<1>6. ASSUME broken' = "none", NEW h \in File PROVE DataOK(h)'
  <2>0. broken = "none"
    BY <1>6 DEF NoChild
  <2>1. /\ MultiTypeOK /\ ControlOK /\ MasterOK
        /\ DataOK(h) /\ DataOK(f)
        /\ PagerOK(h) /\ PagerOK(f) /\ PlayOK(h) /\ PlayOK(f)
    BY <1>0, <2>0
  <2>. QED
    BY <2>1, MultiAssumption DEF NoChild, PlayAt, ControlOK, PlayOK, PagerOK, DataOK,
        Undoable, Found, Decided, InTrans, Hot
<1>. QED  BY <1>1, <1>2, <1>3, <1>4, <1>5, <1>6 DEF CommitInv

\* The master is open no more.
LEMMA LeaveMasterKeeps ==
  ASSUME CommitInv, NEW f \in File, LeaveMaster(f)
  PROVE  CommitInv'
<1>0. /\ MultiTypeOK /\ ControlOK /\ MasterOK
      /\ \A h \in File : PagerOK(h) /\ PlayOK(h)
      /\ broken = "none" => \A h \in File : DataOK(h)
  BY DEF CommitInv
<1>1. MultiTypeOK'
  <2>1. journal' \in [File -> Journal]
    BY <1>0 DEF LeaveMaster, MultiTypeOK
  <2>2. play' \in [File -> Playback]
    BY <1>0 DEF LeaveMaster, PlayAt, MultiTypeOK, Playback
  <2>3. FileTypeOK' /\ MasterTypeOK' /\ ClientTypeOK' /\ CallTypeOK' /\ HistoryTypeOK'
    BY <1>0 DEF LeaveMaster, MultiTypeOK, FileTypeOK, MasterTypeOK, ClientTypeOK,
        CallTypeOK, HistoryTypeOK, Handle
  <2>. QED  BY <2>1, <2>2, <2>3 DEF MultiTypeOK
<1>2. ControlOK'
  BY <1>0 DEF LeaveMaster, PlayAt, ControlOK, InTrans
<1>3. ASSUME NEW h \in File PROVE PagerOK(h)'
  BY <1>0 DEF LeaveMaster, PagerOK, InTrans, NeedsPlayback, NeedsSync
<1>4. ASSUME NEW h \in File PROVE PlayOK(h)'
  BY <1>0 DEF LeaveMaster, PlayAt, MultiTypeOK, PlayOK, InTrans, Playing
<1>5. MasterOK'
  BY <1>0, MultiAssumption DEF LeaveMaster, PlayAt, MultiTypeOK, MasterTypeOK,
      InTrans, MasterOK
<1>6. ASSUME broken' = "none", NEW h \in File PROVE DataOK(h)'
  <2>0. broken = "none"
    BY <1>6 DEF LeaveMaster
  <2>1. /\ MultiTypeOK /\ ControlOK /\ MasterOK
        /\ DataOK(h) /\ DataOK(f)
        /\ PagerOK(h) /\ PagerOK(f) /\ PlayOK(h) /\ PlayOK(f)
    BY <1>0, <2>0
  <2>. QED
    BY <2>1 DEF LeaveMaster, PlayAt, ControlOK, PlayOK, PagerOK, DataOK, Undoable,
        Found, Decided, InTrans, Hot
<1>. QED  BY <1>1, <1>2, <1>3, <1>4, <1>5, <1>6 DEF CommitInv

\* The recovery is over.
LEMMA PlayedHotKeeps ==
  ASSUME CommitInv, NEW f \in File, PlayedHot(f)
  PROVE  CommitInv'
<1>0. /\ MultiTypeOK /\ ControlOK /\ MasterOK
      /\ \A h \in File : PagerOK(h) /\ PlayOK(h)
      /\ broken = "none" => \A h \in File : DataOK(h)
  BY DEF CommitInv
<1>1. MultiTypeOK'
  BY <1>0 DEF PlayedHot, NotPlayed, MultiTypeOK, Playback, FileTypeOK, MasterTypeOK,
      ClientTypeOK, CallTypeOK, HistoryTypeOK, Handle
<1>2. ControlOK'
  BY <1>0, MultiAssumption DEF PlayedHot, ControlOK, InTrans
<1>3. ASSUME NEW h \in File PROVE PagerOK(h)'
  BY <1>0 DEF PlayedHot, PagerOK, InTrans, NeedsPlayback, NeedsSync
<1>4. ASSUME NEW h \in File PROVE PlayOK(h)'
  BY <1>0, MultiAssumption DEF PlayedHot, NotPlayed, Handle, PlayOK, InTrans, Playing
<1>5. MasterOK'
  BY <1>0 DEF PlayedHot, NotPlayed, FileTypeOK, InTrans, MasterOK
<1>6. ASSUME broken' = "none", NEW h \in File PROVE DataOK(h)'
  <2>0. broken = "none"
    BY <1>6 DEF PlayedHot
  <2>1. /\ MultiTypeOK /\ ControlOK /\ MasterOK
        /\ DataOK(h) /\ DataOK(f)
        /\ PagerOK(h) /\ PagerOK(f) /\ PlayOK(h) /\ PlayOK(f)
    BY <1>0, <2>0
  <2>. QED
    BY <2>1 DEF PlayedHot, NotPlayed, ControlOK, PlayOK, PagerOK, DataOK, Undoable,
        Found, Decided, InTrans, Hot
<1>. QED  BY <1>1, <1>2, <1>3, <1>4, <1>5, <1>6 DEF CommitInv

\* The rollback of this file is over.
LEMMA PlayedOwnKeeps ==
  ASSUME CommitInv, NEW f \in File, PlayedOwn(f)
  PROVE  CommitInv'
<1>0. /\ MultiTypeOK /\ ControlOK /\ MasterOK
      /\ \A h \in File : PagerOK(h) /\ PlayOK(h)
      /\ broken = "none" => \A h \in File : DataOK(h)
  BY DEF CommitInv
<1>a. /\ \A h \in File : h # f => play'[h] = play[h]
      /\ play'[f] = NotPlayed
  BY <1>0 DEF PlayedOwn, MultiTypeOK
<1>b. /\ at = "wait" /\ IsNext(f, todo)
      /\ ~dirtyCache[f] /\ ~setMaster[f] /\ f \notin InTrans
  BY <1>0 DEF PlayedOwn, PlayOK, PagerOK, Playing
<1>c. \A h \in File : play[h].by = Client => h = f
  BY <1>0, <1>b, NextUnique DEF PlayOK, MultiTypeOK, CallTypeOK
<1>1. MultiTypeOK'
  BY <1>0, MultiAssumption, <1>a DEF PlayedOwn, NotPlayed, MultiTypeOK, Journal,
      Playback, FileTypeOK, MasterTypeOK, ClientTypeOK, CallTypeOK, HistoryTypeOK,
      Version, Handle
<1>2. ControlOK'
  BY <1>0, <1>b DEF PlayedOwn, ControlOK, InTrans
<1>3. ASSUME NEW h \in File PROVE PagerOK(h)'
  BY <1>0, <1>b DEF PlayedOwn, PagerOK, InTrans
<1>4. ASSUME NEW h \in File PROVE PlayOK(h)'
  BY <1>0, <1>a, <1>c DEF PlayedOwn, NotPlayed, PlayOK, PagerOK, InTrans, Playing
<1>5. MasterOK'
  BY <1>0, <1>b DEF PlayedOwn, MasterOK
<1>6. ASSUME broken' = "none", NEW h \in File PROVE DataOK(h)'
  <2>0. broken = "none"
    BY <1>6 DEF PlayedOwn
  <2>1. /\ MultiTypeOK /\ ControlOK /\ MasterOK
        /\ DataOK(h) /\ DataOK(f)
        /\ PagerOK(h) /\ PagerOK(f) /\ PlayOK(h) /\ PlayOK(f)
    BY <1>0, <2>0
  <2>. QED
    BY <2>1, <1>c DEF PlayedOwn, NotPlayed, ControlOK, MultiTypeOK, ClientTypeOK,
        CallTypeOK, PlayOK, DataOK, Undoable, Found, Decided, InTrans, Hot
<1>. QED  BY <1>1, <1>2, <1>3, <1>4, <1>5, <1>6 DEF CommitInv

------------------------------------------------------------------------------
(* Deaths. *)

\* The journals that the client leaves are hot until its master journal is gone, and
\* cold afterwards.
LEMMA ClientDiesKeeps ==
  ASSUME CommitInv, ClientDies
  PROVE  CommitInv'
<1>0. /\ MultiTypeOK /\ ControlOK /\ MasterOK
      /\ \A h \in File : PagerOK(h) /\ PlayOK(h)
      /\ broken = "none" => \A h \in File : DataOK(h)
  BY DEF CommitInv
<1>1. MultiTypeOK'
  BY <1>0, MultiAssumption DEF ClientDies, Closed, NotPlayed, MultiTypeOK, Playback,
      FileTypeOK, MasterTypeOK, ClientTypeOK, CallTypeOK, HistoryTypeOK, Version,
      Handle
<1>2. ControlOK'
  BY DEF ClientDies, ControlOK
<1>3. ASSUME NEW h \in File PROVE PagerOK(h)'
  BY DEF ClientDies, PagerOK
<1>4. ASSUME NEW h \in File PROVE PlayOK(h)'
  BY <1>0, MultiAssumption DEF ClientDies, Closed, NotPlayed, MultiTypeOK,
      MasterTypeOK, PlayOK, InTrans
<1>5. MasterOK'
  BY <1>0, MultiAssumption DEF ClientDies, Closed, MultiTypeOK, MasterTypeOK, MasterOK
<1>6. ASSUME broken' = "none", NEW h \in File PROVE DataOK(h)'
  <2>0. broken = "none"
    BY <1>6 DEF ClientDies
  <2>1. /\ MultiTypeOK /\ ControlOK /\ MasterOK
        /\ DataOK(h)
        /\ PagerOK(h) /\ PlayOK(h)
    BY <1>0, <2>0
  <2>. QED
    BY <2>1 DEF ClientDies, NotPlayed, DataOK, Found, InTrans, Hot
<1>. QED  BY <1>1, <1>2, <1>3, <1>4, <1>5, <1>6 DEF CommitInv

\* A journal that was not deleted will be played back again.
LEMMA PlayerDiesKeeps ==
  ASSUME CommitInv, NEW f \in File, PlayerDies(f)
  PROVE  CommitInv'
<1>0. /\ MultiTypeOK /\ ControlOK /\ MasterOK
      /\ \A h \in File : PagerOK(h) /\ PlayOK(h)
      /\ broken = "none" => \A h \in File : DataOK(h)
  BY DEF CommitInv
<1>i. InTrans' = InTrans
  BY <1>0 DEF PlayerDies, InTrans
<1>a. /\ \A h \in File : h # f => play'[h] = play[h]
      /\ play'[f] = NotPlayed
      /\ \A m \in Name : masterOpener'[m] = IF masterOpener[m] = f THEN Nobody ELSE masterOpener[m]
  BY <1>0 DEF PlayerDies, Closed, MultiTypeOK, MasterTypeOK
<1>b. PlayOK(f)'
  BY <1>a, MultiAssumption DEF PlayOK, NotPlayed, Playing
<1>c. ASSUME NEW h \in File, h # f PROVE PlayOK(h)'
  BY <1>0, <1>a, <1>i, <1>c DEF PlayerDies, PlayOK, Playing, IsNext, MultiTypeOK,
      MasterTypeOK
<1>1. MultiTypeOK'
  BY <1>0 DEF PlayerDies, Closed, NotPlayed, MultiTypeOK, Playback, FileTypeOK,
      MasterTypeOK, ClientTypeOK, CallTypeOK, HistoryTypeOK, Handle
<1>2. ControlOK'
  BY <1>0, MultiAssumption DEF PlayerDies, ControlOK, InTrans
<1>3. ASSUME NEW h \in File PROVE PagerOK(h)'
  BY <1>0 DEF PlayerDies, PagerOK, InTrans, NeedsPlayback, NeedsSync
<1>4. ASSUME NEW h \in File PROVE PlayOK(h)'
  BY <1>b, <1>c
<1>5. MasterOK'
  BY <1>0, MultiAssumption DEF PlayerDies, Closed, NotPlayed, ControlOK, MultiTypeOK,
      MasterTypeOK, InTrans, MasterOK
<1>6. ASSUME broken' = "none", NEW h \in File PROVE DataOK(h)'
  <2>0. broken = "none"
    BY <1>6 DEF PlayerDies
  <2>1. /\ MultiTypeOK /\ ControlOK /\ MasterOK
        /\ DataOK(h) /\ DataOK(f)
        /\ PagerOK(h) /\ PagerOK(f) /\ PlayOK(h) /\ PlayOK(f)
    BY <1>0, <2>0
  <2>. QED
    BY <2>1 DEF PlayerDies, NotPlayed, ControlOK, PlayOK, PagerOK, DataOK, Undoable,
        Found, Decided, InTrans, Hot
<1>. QED  BY <1>1, <1>2, <1>3, <1>4, <1>5, <1>6 DEF CommitInv
------------------------------------------------------------------------------
(* The invariant. *)

(* The initial states satisfy the invariant, and a step that changes nothing keeps it. *)
LEMMA InitKeeps == MultiInit => CommitInv
<1> SUFFICES ASSUME MultiInit PROVE CommitInv
  OBVIOUS
<1>1. NoJournal \in Journal /\ NotPlayed \in Playback
  BY MultiAssumption DEF NoJournal, NotPlayed, Journal, Playback, Version, Handle
<1>2. MultiTypeOK
  BY <1>1, MultiAssumption DEF MultiInit, MultiTypeOK, FileTypeOK, MasterTypeOK,
    ClientTypeOK, CallTypeOK, HistoryTypeOK, Version, Handle
<1>3. InTrans = {} /\ \A f \in File : journal[f] = NoJournal /\ play[f] = NotPlayed
  BY DEF MultiInit, InTrans
<1>4. ControlOK /\ MasterOK
  BY <1>3, MultiAssumption DEF MultiInit, ControlOK, MasterOK, NoJournal, NotPlayed
<1>5. ASSUME NEW f \in File PROVE PagerOK(f) /\ PlayOK(f) /\ DataOK(f)
  BY <1>3, MultiAssumption DEF MultiInit, PagerOK, PlayOK, DataOK, Found, Hot, Playing,
    Decided, NoJournal, NotPlayed
<1>. QED  BY <1>2, <1>4, <1>5 DEF CommitInv

(* Every step keeps the invariant. *)
LEMMA StepKeeps == CommitInv /\ [MultiNext]_vars => CommitInv'
<1> SUFFICES ASSUME CommitInv, [MultiNext]_vars PROVE CommitInv'
  OBVIOUS
<1>1. CASE ClientStep
  BY <1>1, CommitOneKeeps, CommitManyKeeps, SyncedKeeps, DeleteMasterKeeps, ReturnKeeps,
    RollbackKeeps, BeginKeeps, WriteKeeps, SpillKeeps, SyncJournalKeeps, SkipSyncKeeps,
    StoreKeeps, BusyKeeps, CloseJournalKeeps, DeleteJournalKeeps, PlayOwnKeeps
    DEF ClientStep
<1>2. ASSUME NEW f \in File, PlayStep(f) PROVE CommitInv'
  BY <1>2, PlayHotKeeps, PlayKeeps, PlayCloseKeeps, PlayDeleteKeeps, OpenMasterKeeps,
    NoChildKeeps, LeaveMasterKeeps, PlayedHotKeeps, PlayedOwnKeeps, OpenChildKeeps,
    ReadChildKeeps DEF PlayStep
<1>3. CASE UNCHANGED vars
  BY <1>3 DEF vars, CommitInv, MultiTypeOK, FileTypeOK, MasterTypeOK, ClientTypeOK,
    CallTypeOK, HistoryTypeOK, ControlOK, PagerOK, PlayOK, MasterOK, DataOK, Undoable,
    Found, Hot, Playing, Decided, InTrans, IsNext, NeedsSync, NeedsPlayback
<1>. QED  BY <1>1, <1>2, <1>3, ClientDiesKeeps, PlayerDiesKeeps DEF MultiNext

(* Whatever the client, the recoverers and their deaths do, the labels, the names in  *)
(* the journals and the files fit together (vdbeCommit and pager_playback).           *)
THEOREM CommitInvariant == MultiSpec => []CommitInv
  BY InitKeeps, StepKeeps, PTL DEF MultiSpec

(* Every file can be brought back to the last commit at every moment, until a known   *)
(* flaw comes to harm: no commit of several files is ever seen in part.               *)
THEOREM FilesRecoverable == MultiSpec => []AllRecoverable
<1>1. CommitInv => AllRecoverable
  <2> SUFFICES ASSUME CommitInv, broken = "none" PROVE Recovered = committed
    BY DEF AllRecoverable
  <2>1. \A f \in File : Found(f) = committed[f]
    BY DEF CommitInv, DataOK
  <2>2. committed \in [File -> Version]
    BY DEF CommitInv, MultiTypeOK, HistoryTypeOK
  <2>. QED  BY <2>1, <2>2 DEF Recovered
<1>. QED  BY <1>1, CommitInvariant, PTL

------------------------------------------------------------------------------
(* Who has which journal open, and what a master journal lists. *)

\* While the client has changes in f it has the journal open, until it plays it back or
\* closes it to delete it.
ClientHas(f) ==
  f \in InTrans => \/ opener[f] = Client /\ play[f].by # Client
                   \/ play[f].by = Client
                   \/ at = "delete" /\ IsNext(f, todo) /\ ~Playing(f)

\* A player has open the journal it plays back, and the child it reads.
PlayerHas(f) ==
  /\ play[f].at \in {"play", "close"} => opener[f] = f
  /\ \A g \in File : play[f].at = "child" /\ IsNext(g, play[f].todo) =>
                      opener[g] = f /\ journal[g].exists

OpenInv == \A f \in File : ClientHas(f) /\ PlayerHas(f)

\* Nobody opens a journal that is open, and nobody closes another's.
LEMMA OpenStep == CommitInv /\ OpenInv /\ [MultiNext]_vars => OpenInv'
<1> SUFFICES ASSUME CommitInv, OpenInv, [MultiNext]_vars PROVE OpenInv'
  OBVIOUS
<1>0. MultiTypeOK /\ ControlOK /\ \A h \in File : PlayOK(h)
  BY DEF CommitInv
<1>a. /\ Client \notin File /\ Nobody \notin File /\ Client # Nobody
  BY MultiAssumption
<1>b. \A h \in File : ClientHas(h) /\ PlayerHas(h)
  BY DEF OpenInv
<1>1. ASSUME NEW f \in File, Begin(f), NEW h \in File PROVE ClientHas(h)' /\ PlayerHas(h)'
  <2>0. ClientHas(h) /\ PlayerHas(h) /\ PlayOK(h) /\ ClientHas(f) /\ PlayerHas(f) /\ PlayOK(f)
    BY <1>0, <1>b
  <2>1. ClientHas(h)'
    BY <1>1, <2>0, <1>0 DEF Begin, ClientHas, InTrans, MultiTypeOK, FileTypeOK
  <2>2. PlayerHas(h)'
    BY <1>1, <2>0 DEF Begin, PlayerHas, Playing
  <2>. QED  BY <2>1, <2>2
<1>2. ASSUME NEW f \in File, Write(f), NEW h \in File PROVE ClientHas(h)' /\ PlayerHas(h)'
  <2>0. ClientHas(h) /\ PlayerHas(h) /\ PlayOK(h) /\ ClientHas(f) /\ PlayerHas(f) /\ PlayOK(f)
    BY <1>0, <1>b
  <2>1. ClientHas(h)'
    BY <1>2, <2>0 DEF Write, ClientHas, InTrans
  <2>2. PlayerHas(h)'
    BY <1>2, <2>0 DEF Write, PlayerHas
  <2>. QED  BY <2>1, <2>2
<1>3. ASSUME NEW f \in File, Spill(f), NEW h \in File PROVE ClientHas(h)' /\ PlayerHas(h)'
  <2>0. ClientHas(h) /\ PlayerHas(h) /\ PlayOK(h) /\ ClientHas(f) /\ PlayerHas(f) /\ PlayOK(f)
    BY <1>0, <1>b
  <2>1. ClientHas(h)'
    BY <1>3, <2>0 DEF Spill, ClientHas, InTrans
  <2>2. PlayerHas(h)'
    BY <1>3, <2>0 DEF Spill, PlayerHas
  <2>. QED  BY <2>1, <2>2
<1>4. ASSUME CommitOne, NEW h \in File PROVE ClientHas(h)' /\ PlayerHas(h)'
  <2>0. ClientHas(h) /\ PlayerHas(h) /\ PlayOK(h)
    BY <1>0, <1>b
  <2>1. ClientHas(h)'
    BY <1>4, <2>0 DEF CommitOne, ClientHas, InTrans
  <2>2. PlayerHas(h)'
    BY <1>4, <2>0 DEF CommitOne, PlayerHas
  <2>. QED  BY <2>1, <2>2
<1>5. ASSUME CommitMany, NEW h \in File PROVE ClientHas(h)' /\ PlayerHas(h)'
  <2>0. ClientHas(h) /\ PlayerHas(h) /\ PlayOK(h)
    BY <1>0, <1>b
  <2>1. ClientHas(h)'
    BY <1>5, <2>0 DEF CommitMany, ClientHas, InTrans
  <2>2. PlayerHas(h)'
    BY <1>5, <2>0 DEF CommitMany, PlayerHas
  <2>. QED  BY <2>1, <2>2
<1>6. ASSUME NEW f \in File, SyncJournal(f), NEW h \in File
     PROVE ClientHas(h)' /\ PlayerHas(h)'
  <2>0. ClientHas(h) /\ PlayerHas(h) /\ PlayOK(h)
    BY <1>0, <1>b
  <2>1. \A x \in File : journal'[x].exists = journal[x].exists
    BY <1>6, <1>0 DEF SyncJournal, MultiTypeOK, Journal
  <2>. QED  BY <1>6, <2>0, <2>1 DEF SyncJournal, ClientHas, PlayerHas, InTrans
<1>7. ASSUME NEW f \in File, SkipSync(f), NEW h \in File PROVE ClientHas(h)' /\ PlayerHas(h)'
  <2>0. ClientHas(h) /\ PlayerHas(h) /\ PlayOK(h) /\ ClientHas(f) /\ PlayerHas(f) /\ PlayOK(f)
    BY <1>0, <1>b
  <2>1. ClientHas(h)'
    BY <1>7, <2>0 DEF SkipSync, ClientHas, InTrans
  <2>2. PlayerHas(h)'
    BY <1>7, <2>0 DEF SkipSync, PlayerHas
  <2>. QED  BY <2>1, <2>2
<1>8. ASSUME NEW f \in File, Store(f), NEW h \in File PROVE ClientHas(h)' /\ PlayerHas(h)'
  <2>0. ClientHas(h) /\ PlayerHas(h) /\ PlayOK(h) /\ ClientHas(f) /\ PlayerHas(f) /\ PlayOK(f)
    BY <1>0, <1>b
  <2>1. ClientHas(h)'
    BY <1>8, <2>0, <1>0 DEF IsNext, Store, ClientHas, ControlOK, InTrans
  <2>2. PlayerHas(h)'
    BY <1>8, <2>0 DEF Store, PlayerHas
  <2>. QED  BY <2>1, <2>2
<1>9. ASSUME NEW f \in File, Busy(f), NEW h \in File PROVE ClientHas(h)' /\ PlayerHas(h)'
  <2>0. ClientHas(h) /\ PlayerHas(h) /\ PlayOK(h) /\ ClientHas(f) /\ PlayerHas(f) /\ PlayOK(f)
    BY <1>0, <1>b
  <2>1. ClientHas(h)'
    BY <1>9, <2>0 DEF Busy, ClientHas, InTrans
  <2>2. PlayerHas(h)'
    BY <1>9, <2>0 DEF Busy, PlayerHas
  <2>. QED  BY <2>1, <2>2
<1>10. ASSUME Synced, NEW h \in File PROVE ClientHas(h)' /\ PlayerHas(h)'
  <2>0. ClientHas(h) /\ PlayerHas(h) /\ PlayOK(h)
    BY <1>0, <1>b
  <2>1. ClientHas(h)'
    BY <1>10, <2>0 DEF Synced, ClientHas, InTrans
  <2>2. PlayerHas(h)'
    BY <1>10, <2>0 DEF Synced, PlayerHas
  <2>. QED  BY <2>1, <2>2
<1>11. ASSUME DeleteMaster, NEW h \in File PROVE ClientHas(h)' /\ PlayerHas(h)'
  <2>0. ClientHas(h) /\ PlayerHas(h) /\ PlayOK(h)
    BY <1>0, <1>b
  <2>1. ClientHas(h)'
    BY <1>11, <2>0 DEF DeleteMaster, ClientHas, InTrans
  <2>2. PlayerHas(h)'
    BY <1>11, <2>0 DEF DeleteMaster, PlayerHas
  <2>. QED  BY <2>1, <2>2
<1>12. ASSUME NEW f \in File, CloseJournal(f), NEW h \in File PROVE ClientHas(h)' /\ PlayerHas(h)'
  <2>0. ClientHas(h) /\ PlayerHas(h) /\ PlayOK(h) /\ ClientHas(f) /\ PlayerHas(f) /\ PlayOK(f)
    BY <1>0, <1>b
  <2>1. ClientHas(h)'
    BY <1>12, <2>0 DEF CloseJournal, ClientHas, PlayOK, Playing, InTrans
  <2>2. PlayerHas(h)'
    BY <1>12, <2>0, <1>0 DEF IsNext, CloseJournal, ClientHas, PlayerHas, ControlOK, PlayOK
  <2>. QED  BY <2>1, <2>2
<1>13. ASSUME NEW f \in File, DeleteJournal(f), NEW h \in File PROVE ClientHas(h)' /\ PlayerHas(h)'
  <2>0. ClientHas(h) /\ PlayerHas(h) /\ PlayOK(h) /\ ClientHas(f) /\ PlayerHas(f) /\ PlayOK(f)
    BY <1>0, <1>b
  <2>1. ClientHas(h)'
    BY <1>13, <2>0, <1>0, NextUnique DEF DeleteJournal, EndTrans, ClientHas, InTrans, MultiTypeOK,
        ClientTypeOK, CallTypeOK
  <2>2. PlayerHas(h)'
    BY <1>13, <2>0 DEF DeleteJournal, Deleted, PlayerHas, PlayOK
  <2>. QED  BY <2>1, <2>2
<1>14. ASSUME Return, NEW h \in File PROVE ClientHas(h)' /\ PlayerHas(h)'
  <2>0. ClientHas(h) /\ PlayerHas(h) /\ PlayOK(h)
    BY <1>0, <1>b
  <2>1. ClientHas(h)'
    BY <1>14, <2>0 DEF Return, ClientHas, InTrans
  <2>2. PlayerHas(h)'
    BY <1>14, <2>0 DEF Return, PlayerHas
  <2>. QED  BY <2>1, <2>2
<1>15. ASSUME Rollback, NEW h \in File PROVE ClientHas(h)' /\ PlayerHas(h)'
  <2>0. ClientHas(h) /\ PlayerHas(h) /\ PlayOK(h)
    BY <1>0, <1>b
  <2>1. ClientHas(h)'
    BY <1>15, <2>0 DEF Rollback, ClientHas, InTrans
  <2>2. PlayerHas(h)'
    BY <1>15, <2>0 DEF Rollback, PlayerHas
  <2>. QED  BY <2>1, <2>2
<1>16. ASSUME NEW f \in File, PlayOwn(f), NEW h \in File PROVE ClientHas(h)' /\ PlayerHas(h)'
  <2>0. ClientHas(h) /\ PlayerHas(h) /\ PlayOK(h) /\ ClientHas(f) /\ PlayerHas(f) /\ PlayOK(f)
    BY <1>0, <1>b
  <2>1. ClientHas(h)'
    BY <1>16, <2>0, <1>0 DEF PlayOwn, ClientHas, InTrans, MultiTypeOK
  <2>2. PlayerHas(h)'
    BY <1>16, <2>0, <1>0 DEF IsNext, PlayOwn, ClientHas, PlayerHas, ControlOK, PlayOK, MultiTypeOK,
        FileTypeOK
  <2>. QED  BY <2>1, <2>2
<1>17. ASSUME NEW f \in File, PlayHot(f), NEW h \in File PROVE ClientHas(h)' /\ PlayerHas(h)'
  <2>0. ClientHas(h) /\ PlayerHas(h) /\ PlayOK(h) /\ ClientHas(f) /\ PlayerHas(f) /\ PlayOK(f)
    BY <1>0, <1>b
  <2>1. ClientHas(h)'
    BY <1>17, <2>0 DEF PlayHot, ClientHas, Playing, InTrans
  <2>2. PlayerHas(h)'
    BY <1>17, <2>0, <1>0, <1>a DEF PlayHot, PlayerHas, MultiTypeOK, FileTypeOK
  <2>. QED  BY <2>1, <2>2
<1>18. ASSUME NEW f \in File, Play(f), NEW h \in File
     PROVE ClientHas(h)' /\ PlayerHas(h)'
  <2>0. ClientHas(h) /\ PlayerHas(h)
    BY <1>b
  <2>1. /\ \A x \in File : x # f => play'[x] = play[x]
        /\ play[f].at = "play" /\ play'[f].at = "close"
        /\ play'[f].by = play[f].by
    BY <1>18, <1>0 DEF Play, PlayAt, MultiTypeOK, Playback
  <2>. QED  BY <1>18, <2>0, <2>1 DEF Play, ClientHas, PlayerHas, InTrans, Playing
<1>19. ASSUME NEW f \in File, PlayClose(f), NEW h \in File PROVE ClientHas(h)' /\ PlayerHas(h)'
  <2>0. ClientHas(h) /\ PlayerHas(h) /\ PlayOK(h) /\ ClientHas(f) /\ PlayerHas(f) /\ PlayOK(f)
    BY <1>0, <1>b
  <2>1. ClientHas(h)'
    BY <1>19, <2>0 DEF PlayClose, PlayAt, ClientHas, PlayOK, Playing, InTrans
  <2>2. PlayerHas(h)'
    BY <1>19, <2>0, <1>0 DEF PlayClose, PlayAt, PlayerHas, MultiTypeOK
  <2>. QED  BY <2>1, <2>2
<1>20. ASSUME NEW f \in File, PlayDelete(f), NEW h \in File PROVE ClientHas(h)' /\ PlayerHas(h)'
  <2>0. ClientHas(h) /\ PlayerHas(h) /\ PlayOK(h) /\ ClientHas(f) /\ PlayerHas(f) /\ PlayOK(f)
    BY <1>0, <1>b
  <2>1. ClientHas(h)'
    BY <1>20, <2>0, <1>0 DEF PlayDelete, PlayAt, EndTrans, ClientHas, Playing, InTrans, MultiTypeOK,
        ClientTypeOK
  <2>2. PlayerHas(h)'
    BY <1>20, <2>0, <1>a DEF PlayDelete, PlayAt, Deleted, PlayerHas
  <2>. QED  BY <2>1, <2>2
<1>21. ASSUME NEW f \in File, OpenMaster(f), NEW h \in File
     PROVE ClientHas(h)' /\ PlayerHas(h)'
  <2>0. ClientHas(h) /\ PlayerHas(h)
    BY <1>b
  <2>1. /\ \A x \in File : x # f => play'[x] = play[x]
        /\ play[f].at = "master" /\ play'[f].at \in {"children", "done"}
        /\ play'[f].by = play[f].by
    BY <1>21, <1>0 DEF OpenMaster, PlayAt, MultiTypeOK, Playback
  <2>. QED  BY <1>21, <2>0, <2>1 DEF OpenMaster, ClientHas, PlayerHas, InTrans, Playing
<1>22. ASSUME NEW f \in File, NEW g \in File, OpenChild(f, g), NEW h \in File
     PROVE ClientHas(h)' /\ PlayerHas(h)'
  <2>0. ClientHas(h) /\ PlayerHas(h) /\ PlayOK(h) /\ PlayOK(f)
    BY <1>0, <1>b
  <2>1. /\ \A x \in File : x # f => play'[x] = play[x]
        /\ play[f].at = "children" /\ play'[f].at \in {"children", "child", "out"}
        /\ play'[f].by = play[f].by
    BY <1>22, <1>0 DEF OpenChild, PlayAt, MultiTypeOK, Playback
  <2>2. \/ opener' = opener
        \/ opener[g] = Nobody /\ opener' = [opener EXCEPT ![g] = f]
    BY <1>22 DEF OpenChild
  <2>3. play'[f].at = "child" =>
          journal[g].exists /\ opener'[g] = f /\ IsNext(g, play'[f].todo)
    BY <1>22, <1>0 DEF OpenChild, PlayAt, MultiTypeOK, FileTypeOK, Playback
  <2>4. ClientHas(h)'
    BY <1>22, <2>0, <2>1, <1>0, <1>a DEF OpenChild, ClientHas, InTrans, Playing, MultiTypeOK,
        FileTypeOK
  <2>5. play'[h].at \in {"play", "close"} => opener'[h] = h
    BY <2>0, <2>1, <2>2, <1>0, <1>a DEF PlayerHas, MultiTypeOK, FileTypeOK
  <2>6. ASSUME NEW x \in File, play'[h].at = "child", IsNext(x, play'[h].todo)
        PROVE  opener'[x] = h /\ journal'[x].exists
    <3>1. play'[h].todo \subseteq File /\ journal' = journal
      BY <1>22, <1>0 DEF OpenChild, PlayAt, MultiTypeOK, Playback
    <3>2. CASE h = f
      BY <3>1, <3>2, <2>3, <2>6, NextUnique
    <3>3. CASE h # f
      BY <3>1, <3>3, <2>0, <2>1, <2>2, <2>6, <1>0, <1>a DEF PlayerHas, MultiTypeOK, FileTypeOK
    <3>. QED  BY <3>2, <3>3
  <2>. QED  BY <2>4, <2>5, <2>6 DEF PlayerHas
<1>23. ASSUME NEW f \in File, NEW g \in File, ReadChild(f, g), NEW h \in File PROVE ClientHas(h)' /\ PlayerHas(h)'
  <2>0. ClientHas(h) /\ PlayerHas(h) /\ PlayOK(h) /\ ClientHas(f) /\ PlayerHas(f) /\ PlayOK(f) /\ ClientHas(g) /\ PlayerHas(g) /\ PlayOK(g)
    BY <1>0, <1>b
  <2>1. ClientHas(h)'
    BY <1>23, <2>0, <1>0, <1>a DEF ReadChild, ClientHas, PlayerHas, Playing, InTrans, MultiTypeOK
  <2>2. PlayerHas(h)'
    BY <1>23, <2>0, <1>0 DEF ReadChild, PlayerHas, MultiTypeOK
  <2>. QED  BY <2>1, <2>2
<1>24. ASSUME NEW f \in File, NoChild(f), NEW h \in File PROVE ClientHas(h)' /\ PlayerHas(h)'
  <2>0. ClientHas(h) /\ PlayerHas(h) /\ PlayOK(h) /\ ClientHas(f) /\ PlayerHas(f) /\ PlayOK(f)
    BY <1>0, <1>b
  <2>1. ClientHas(h)'
    BY <1>24, <2>0 DEF NoChild, PlayAt, ClientHas, Playing, InTrans
  <2>2. PlayerHas(h)'
    BY <1>24, <2>0 DEF NoChild, PlayAt, PlayerHas
  <2>. QED  BY <2>1, <2>2
<1>25. ASSUME NEW f \in File, LeaveMaster(f), NEW h \in File PROVE ClientHas(h)' /\ PlayerHas(h)'
  <2>0. ClientHas(h) /\ PlayerHas(h) /\ PlayOK(h) /\ ClientHas(f) /\ PlayerHas(f) /\ PlayOK(f)
    BY <1>0, <1>b
  <2>1. ClientHas(h)'
    BY <1>25, <2>0 DEF LeaveMaster, PlayAt, ClientHas, Playing, InTrans
  <2>2. PlayerHas(h)'
    BY <1>25, <2>0 DEF LeaveMaster, PlayAt, PlayerHas
  <2>. QED  BY <2>1, <2>2
<1>26. ASSUME NEW f \in File, PlayedHot(f), NEW h \in File PROVE ClientHas(h)' /\ PlayerHas(h)'
  <2>0. ClientHas(h) /\ PlayerHas(h) /\ PlayOK(h) /\ ClientHas(f) /\ PlayerHas(f) /\ PlayOK(f)
    BY <1>0, <1>b
  <2>1. ClientHas(h)'
    BY <1>26, <2>0 DEF PlayedHot, NotPlayed, ClientHas, PlayOK, Playing, InTrans
  <2>2. PlayerHas(h)'
    BY <1>26, <2>0 DEF PlayedHot, NotPlayed, PlayerHas
  <2>. QED  BY <2>1, <2>2
<1>27. ASSUME NEW f \in File, PlayedOwn(f), NEW h \in File PROVE ClientHas(h)' /\ PlayerHas(h)'
  <2>0. ClientHas(h) /\ PlayerHas(h) /\ PlayOK(h) /\ ClientHas(f) /\ PlayerHas(f) /\ PlayOK(f)
    BY <1>0, <1>b
  <2>1. ClientHas(h)'
    BY <1>27, <2>0 DEF PlayedOwn, ClientHas, PlayOK, Playing, InTrans
  <2>2. PlayerHas(h)'
    BY <1>27, <2>0 DEF PlayedOwn, NotPlayed, PlayerHas
  <2>. QED  BY <2>1, <2>2
<1>28. ASSUME ClientDies, NEW h \in File PROVE ClientHas(h)' /\ PlayerHas(h)'
  <2>0. ClientHas(h) /\ PlayerHas(h) /\ PlayOK(h)
    BY <1>0, <1>b
  <2>1. ClientHas(h)'
    BY <1>28 DEF ClientDies, ClientHas, InTrans
  <2>2. PlayerHas(h)'
    BY <1>28, <2>0, <1>0 DEF ClientDies, Closed, NotPlayed, PlayerHas, MultiTypeOK, FileTypeOK
  <2>. QED  BY <2>1, <2>2
<1>29. ASSUME NEW f \in File, PlayerDies(f), NEW h \in File PROVE ClientHas(h)' /\ PlayerHas(h)'
  <2>0. ClientHas(h) /\ PlayerHas(h) /\ PlayOK(h) /\ ClientHas(f) /\ PlayerHas(f) /\ PlayOK(f)
    BY <1>0, <1>b
  <2>1. ClientHas(h)'
    BY <1>29, <2>0, <1>0, <1>a DEF PlayerDies, Closed, NotPlayed, ClientHas, Playing, InTrans,
        MultiTypeOK, FileTypeOK
  <2>2. PlayerHas(h)'
    BY <1>29, <2>0, <1>0 DEF PlayerDies, Closed, NotPlayed, PlayerHas, MultiTypeOK, FileTypeOK
  <2>. QED  BY <2>1, <2>2
<1>s. CASE UNCHANGED vars
  BY <1>s DEF vars, OpenInv, ClientHas, PlayerHas, InTrans, Playing
<1>c. ASSUME ClientStep, NEW h \in File PROVE ClientHas(h)' /\ PlayerHas(h)'
  BY <1>c, <1>1, <1>2, <1>3, <1>4, <1>5, <1>6, <1>7, <1>8, <1>9, <1>10, <1>11, <1>12, <1>13, <1>14,
      <1>15, <1>16 DEF ClientStep
<1>p. ASSUME NEW f \in File, PlayStep(f), NEW h \in File
      PROVE  ClientHas(h)' /\ PlayerHas(h)'
  BY <1>p, <1>17, <1>18, <1>19, <1>20, <1>21, <1>22, <1>23, <1>24, <1>25, <1>26, <1>27 DEF PlayStep
<1>. QED  BY <1>s, <1>c, <1>p, <1>28, <1>29 DEF MultiNext, OpenInv

(* Nobody else plays back, or as much as opens, a journal of the client's before the  *)
(* client has closed it (pager_playback, pager_delmaster and sqlite3pager_commit).     *)
THEOREM RecoveryIsExcluded == MultiSpec => []RecoveryExcluded
<1>1. MultiInit => OpenInv
  <2> SUFFICES ASSUME MultiInit PROVE OpenInv
    OBVIOUS
  <2>1. InTrans = {} /\ \A f \in File : play[f].at = "none"
    BY DEF MultiInit, InTrans, NotPlayed
  <2>. QED  BY <2>1 DEF OpenInv, ClientHas, PlayerHas
<1>2. OpenInv => RecoveryExcluded
  BY DEF OpenInv, ClientHas, RecoveryExcluded, InTrans
<1>. QED  BY <1>1, <1>2, OpenStep, CommitInvariant, PTL DEF MultiSpec

\* The client lists its journals before it writes the name into them.
ListInv ==
  /\ ChildrenListed
  /\ zMaster # NoName /\ at \in {"sync", "store"} => InTrans \subseteq children[zMaster]

\* What most steps do to the names in the journals and to the lists.
ListsKept ==
  /\ \A f \in File : journal'[f].exists =>
       journal'[f].master = NoName \/ (journal[f].exists /\ journal'[f].master = journal[f].master)
  /\ masters' \subseteq masters /\ children' = children
  /\ zMaster' # NoName /\ at' \in {"sync", "store"} =>
       zMaster' = zMaster /\ at \in {"sync", "store"} /\ InTrans' \subseteq InTrans

\* A name gets into a journal that its master journal lists.
LEMMA ListStep == CommitInv /\ ListInv /\ [MultiNext]_vars => ListInv'
<1> SUFFICES ASSUME CommitInv, ListInv, [MultiNext]_vars PROVE ListInv'
  OBVIOUS
<1>0. MultiTypeOK /\ ControlOK /\ \A h \in File : PlayOK(h) /\ PagerOK(h)
  BY DEF CommitInv
<1>k. ASSUME ListsKept PROVE ListInv'
  BY <1>k, <1>0, MultiAssumption DEF ListsKept, ListInv, ChildrenListed, MultiTypeOK, MasterTypeOK
<1>1. ASSUME NEW f \in File, Begin(f) PROVE ListInv'
  BY <1>1, <1>k DEF Begin, NoJournal, ListsKept
<1>2. ASSUME NEW f \in File, Write(f) PROVE ListInv'
  BY <1>2, <1>k DEF Write, ListsKept
<1>3. ASSUME NEW f \in File, Spill(f) PROVE ListInv'
  BY <1>3, <1>k DEF Spill, ListsKept
<1>4. ASSUME CommitOne PROVE ListInv'
  BY <1>4, <1>k DEF CommitOne, ListsKept
<1>5. ASSUME CommitMany PROVE ListInv'
  <2>1. InTrans' = InTrans /\ journal' = journal
    BY <1>5 DEF CommitMany, InTrans
  <2>2. ASSUME NEW m \in Name \ (masters \cup NamedMasters), masters' = masters \cup {m},
               children' = [children EXCEPT ![m] = InTrans], zMaster' = m
        PROVE  ListInv'
    <3>1. \A h \in File : journal[h].exists => journal[h].master # m
      BY DEF NamedMasters
    <3>2. ChildrenListed'
      BY <2>1, <2>2, <3>1 DEF ListInv, ChildrenListed
    <3>3. InTrans' \subseteq children'[zMaster']
      BY <2>1, <2>2, <1>0 DEF MultiTypeOK, MasterTypeOK
    <3>. QED  BY <3>2, <3>3 DEF ListInv
  <2>3. CASE at' = "rollback" /\ UNCHANGED masterVars
    BY <2>1, <2>3, <1>k DEF ListsKept
  <2>. QED  BY <1>5, <2>2, <2>3 DEF CommitMany
<1>6. ASSUME NEW f \in File, SyncJournal(f) PROVE ListInv'
  <2>1. /\ f \in InTrans /\ InTrans' = InTrans /\ zMaster' = zMaster
        /\ masters' = masters /\ children' = children
    BY <1>6, <1>0 DEF SyncJournal, NeedsSync, PagerOK, InTrans
  <2>2. \A h \in File : /\ journal'[h].exists = journal[h].exists
                        /\ h # f => journal'[h] = journal[h]
                        /\ journal'[h].master \in {journal[h].master, zMaster}
    BY <1>6, <1>0 DEF SyncJournal, MultiTypeOK, Journal
  <2>3. zMaster # NoName => InTrans \subseteq children[zMaster]
    BY <1>6 DEF SyncJournal, ListInv
  <2>. QED
    BY <2>1, <2>2, <2>3, <1>0, MultiAssumption DEF ListInv, ChildrenListed, MultiTypeOK,
        MasterTypeOK
<1>7. ASSUME NEW f \in File, SkipSync(f) PROVE ListInv'
  BY <1>7, <1>k DEF SkipSync, ListsKept, InTrans
<1>8. ASSUME NEW f \in File, Store(f) PROVE ListInv'
  BY <1>8, <1>0, <1>k DEF Store, PagerOK, ListsKept, InTrans
<1>9. ASSUME NEW f \in File, Busy(f) PROVE ListInv'
  BY <1>9, <1>k DEF Busy, ListsKept
<1>10. ASSUME Synced PROVE ListInv'
  BY <1>10, <1>k DEF Synced, ListsKept
<1>11. ASSUME DeleteMaster PROVE ListInv'
  BY <1>11, <1>k DEF DeleteMaster, ListsKept
<1>12. ASSUME NEW f \in File, CloseJournal(f) PROVE ListInv'
  BY <1>12, <1>k DEF CloseJournal, ListsKept
<1>13. ASSUME NEW f \in File, DeleteJournal(f) PROVE ListInv'
  BY <1>13, <1>0, <1>k DEF DeleteJournal, Deleted, NoJournal, ListsKept, MultiTypeOK, CallTypeOK
<1>14. ASSUME Return PROVE ListInv'
  BY <1>14, <1>k DEF Return, ListsKept
<1>15. ASSUME Rollback PROVE ListInv'
  BY <1>15, <1>k DEF Rollback, ListsKept
<1>16. ASSUME NEW f \in File, PlayOwn(f) PROVE ListInv'
  BY <1>16, <1>k DEF PlayOwn, ListsKept
<1>17. ASSUME NEW f \in File, PlayHot(f) PROVE ListInv'
  BY <1>17, <1>k DEF PlayHot, ListsKept, InTrans
<1>18. ASSUME NEW f \in File, Play(f) PROVE ListInv'
  BY <1>18, <1>k DEF Play, ListsKept, InTrans
<1>19. ASSUME NEW f \in File, PlayClose(f) PROVE ListInv'
  BY <1>19, <1>k DEF PlayClose, ListsKept, InTrans
<1>20. ASSUME NEW f \in File, PlayDelete(f) PROVE ListInv'
  BY <1>20, <1>0, <1>k DEF PlayDelete, Deleted, NoJournal, ListsKept, InTrans, PlayOK
<1>21. ASSUME NEW f \in File, OpenMaster(f) PROVE ListInv'
  BY <1>21, <1>k DEF OpenMaster, ListsKept, InTrans
<1>22. ASSUME NEW f \in File, NEW g \in File, OpenChild(f, g) PROVE ListInv'
  BY <1>22, <1>k DEF OpenChild, ListsKept, InTrans
<1>23. ASSUME NEW f \in File, NEW g \in File, ReadChild(f, g) PROVE ListInv'
  BY <1>23, <1>k DEF ReadChild, ListsKept, InTrans
<1>24. ASSUME NEW f \in File, NoChild(f) PROVE ListInv'
  BY <1>24, <1>k DEF NoChild, ListsKept, InTrans
<1>25. ASSUME NEW f \in File, LeaveMaster(f) PROVE ListInv'
  BY <1>25, <1>k DEF LeaveMaster, ListsKept, InTrans
<1>26. ASSUME NEW f \in File, PlayedHot(f) PROVE ListInv'
  BY <1>26, <1>k DEF PlayedHot, ListsKept, InTrans
<1>27. ASSUME NEW f \in File, PlayedOwn(f) PROVE ListInv'
  BY <1>27, <1>k DEF PlayedOwn, ListsKept
<1>28. ASSUME ClientDies PROVE ListInv'
  BY <1>28, <1>k DEF ClientDies, ListsKept
<1>29. ASSUME NEW f \in File, PlayerDies(f) PROVE ListInv'
  BY <1>29, <1>k DEF PlayerDies, ListsKept, InTrans
<1>s. CASE UNCHANGED vars
  BY <1>s, <1>k DEF vars, ListsKept, InTrans
<1>c. ASSUME ClientStep PROVE ListInv'
  BY <1>c, <1>1, <1>2, <1>3, <1>4, <1>5, <1>6, <1>7, <1>8, <1>9, <1>10, <1>11, <1>12, <1>13, <1>14,
      <1>15, <1>16 DEF ClientStep
<1>p. ASSUME NEW f \in File, PlayStep(f) PROVE ListInv'
  BY <1>p, <1>17, <1>18, <1>19, <1>20, <1>21, <1>22, <1>23, <1>24, <1>25, <1>26, <1>27 DEF PlayStep
<1>. QED  BY <1>s, <1>c, <1>p, <1>28, <1>29 DEF MultiNext

(* A master journal lists every journal that names it, whatever was rolled back, played *)
(* back or left by a death before: a recovery that finds no child hot may delete it     *)
(* (vdbeCommit, pager_delmaster).                                                       *)
THEOREM AllChildrenListed == MultiSpec => []ChildrenListed
<1>1. MultiInit => ListInv
  BY DEF MultiInit, ListInv, ChildrenListed
<1>2. ListInv => ChildrenListed
  BY DEF ListInv
<1>. QED  BY <1>1, <1>2, ListStep, CommitInvariant, PTL DEF MultiSpec

------------------------------------------------------------------------------
(* The refinement: every step of the protocol is a step of AtomicCommit, or changes  *)
(* nothing that it speaks of.                                                         *)

\* The client's draft of a file, as long as the invariant holds.
Seen(f) == IF f \in InTrans /\ doing # "rollback" THEN cache[f] ELSE committed[f]

\* What AtomicCommit sees, in the terms of this module.
SeenRight == Value = committed /\ Draft = [f \in File |-> Seen(f)]

\* While the invariant holds AtomicCommit's value is the last commit.
LEMMA ValueAndDraft == CommitInv => SeenRight
<1>. SUFFICES ASSUME CommitInv PROVE SeenRight
  OBVIOUS
<1>1. CASE broken = "none"
  <2>1. \A f \in File : Found(f) = committed[f]
    BY <1>1 DEF CommitInv, DataOK
  <2>2. committed \in [File -> Version]
    BY DEF CommitInv, MultiTypeOK, HistoryTypeOK
  <2>3. Value = committed
    BY <1>1, <2>1, <2>2 DEF Recovered, Value
  <2>. QED  BY <2>3 DEF Draft, Seen, SeenRight
<1>2. CASE broken # "none"
  BY <1>2 DEF Value, Draft, Seen, SeenRight
<1>. QED  BY <1>1, <1>2

\* The same of the next state.
LEMMA ValueAndDraftNext == CommitInv' => SeenRight'
  BY ValueAndDraft, PTL

\* A step that changes neither the commit nor the draft changes nothing there.
LEMMA Stutters ==
  ASSUME CommitInv, CommitInv', committed' = committed,
         \A f \in File : Seen(f)' = Seen(f)
  PROVE  UNCHANGED <<Value, Draft>>
<1>1. Value' = committed' /\ Draft' = [f \in File |-> Seen(f)']
  BY ValueAndDraftNext DEF SeenRight
<1>. QED  BY <1>1, ValueAndDraft DEF SeenRight

\* A step that makes the draft the last commit is AtomicCommit's commit.
LEMMA Commits ==
  ASSUME CommitInv, CommitInv', \A f \in File : Seen(f)' = Seen(f),
         committed' = [f \in File |-> Seen(f)]
  PROVE  Atomic!Commit
<1>1. Value' = committed' /\ Draft' = [f \in File |-> Seen(f)']
  BY ValueAndDraftNext DEF SeenRight
<1>. QED  BY <1>1, ValueAndDraft DEF SeenRight, Atomic!Commit

\* A step that takes the draft back is AtomicCommit's abandon.
LEMMA Abandons ==
  ASSUME CommitInv, CommitInv', committed' = committed,
         \A f \in File : Seen(f)' = committed[f]
  PROVE  Atomic!Abandon
<1>1. Value' = committed' /\ Draft' = [f \in File |-> Seen(f)']
  BY ValueAndDraftNext DEF SeenRight
<1>2. committed \in [File -> Version]
  BY DEF CommitInv, MultiTypeOK, HistoryTypeOK
<1>. QED  BY <1>1, <1>2, ValueAndDraft DEF SeenRight, Atomic!Abandon

\* A write changes the draft of its file.
LEMMA WriteChanges ==
  ASSUME CommitInv, CommitInv', NEW f \in File, Write(f)
  PROVE  Atomic!Change(f)
<1>0. MultiTypeOK /\ ControlOK
  BY DEF CommitInv
<1>1. Value' = committed' /\ Draft' = [g \in File |-> Seen(g)']
  BY ValueAndDraftNext DEF SeenRight
<1>2. committed' = committed /\ Seen(f)' = Seen(f) + 1
  BY <1>0 DEF Write, Seen, InTrans, ControlOK, MultiTypeOK, ClientTypeOK
<1>3. \A g \in File : g # f => Seen(g)' = Seen(g)
  BY <1>0 DEF Write, Seen, InTrans, MultiTypeOK, ClientTypeOK
<1>. QED  BY <1>1, <1>2, <1>3, ValueAndDraft DEF SeenRight, Atomic!Change

\* The client's steps.
LEMMA ClientRefines ==
  ASSUME CommitInv, CommitInv', broken = "none", ClientStep
  PROVE  Atomic!Next \/ UNCHANGED <<Value, Draft>>
<1>0. /\ MultiTypeOK /\ ControlOK
      /\ \A f \in File : PagerOK(f) /\ PlayOK(f) /\ DataOK(f)
  BY DEF CommitInv
<1>1. CASE CommitOne
  <2>1. committed' = committed /\ \A f \in File : Seen(f)' = Seen(f)
    BY <1>0, <1>1 DEF CommitOne, ControlOK, Seen, InTrans
  <2>. QED  BY <2>1, Stutters
<1>2. CASE CommitMany
  <2>1. committed' = committed /\ UNCHANGED <<InTrans, cache>> /\ doing = "none"
    BY <1>0, <1>2 DEF CommitMany, ControlOK, InTrans
  <2>2. CASE doing' = "rollback"
    <3>1. \A f \in File : Seen(f)' = committed[f]
      BY <2>1, <2>2 DEF Seen
    <3>. QED  BY <2>1, <3>1, Abandons DEF Atomic!Next
  <2>3. CASE doing' = "commit"
    <3>1. \A f \in File : Seen(f)' = Seen(f)
      BY <2>1, <2>3 DEF Seen
    <3>. QED  BY <2>1, <3>1, Stutters
  <2>. QED  BY <1>2, <2>2, <2>3 DEF CommitMany
<1>3. CASE Synced
  <2>1. committed' = committed /\ \A f \in File : Seen(f)' = Seen(f)
    BY <1>3 DEF Synced, Seen, InTrans
  <2>. QED  BY <2>1, Stutters
<1>4. CASE DeleteMaster
  <2>1. doing = "commit"
    BY <1>0, <1>4 DEF DeleteMaster, ControlOK
  <2>2. /\ committed' = [f \in File |-> Seen(f)]
        /\ \A f \in File : Seen(f)' = Seen(f)
    BY <1>4, <2>1 DEF DeleteMaster, Drafts, Seen, InTrans
  <2>. QED  BY <2>2, Commits DEF Atomic!Next
<1>5. CASE Return
  <2>1. InTrans = {} /\ InTrans' = InTrans /\ committed' = committed
    BY <1>0, <1>5 DEF Return, ControlOK, InTrans
  <2>2. \A f \in File : Seen(f)' = Seen(f)
    BY <2>1 DEF Seen
  <2>. QED  BY <2>1, <2>2, Stutters
<1>6. CASE Rollback
  <2>1. committed' = committed /\ \A f \in File : Seen(f)' = committed[f]
    BY <1>6 DEF Rollback, Seen
  <2>. QED  BY <2>1, Abandons DEF Atomic!Next
<1>7. ASSUME NEW f \in File, Begin(f) PROVE UNCHANGED <<Value, Draft>>
  <2>1. db[f] = committed[f]
    BY <1>0, <1>7 DEF Begin, DataOK, Found, Hot
  <2>2. committed' = committed /\ \A g \in File : Seen(g)' = Seen(g)
    BY <1>0, <1>7, <2>1 DEF Begin, ControlOK, Seen, InTrans, MultiTypeOK, ClientTypeOK
  <2>. QED  BY <2>2, Stutters
<1>8. ASSUME NEW f \in File, Write(f) PROVE Atomic!Next
  BY <1>8, WriteChanges DEF Atomic!Next
<1>9. ASSUME NEW f \in File, Spill(f) \/ Store(f) PROVE UNCHANGED <<Value, Draft>>
  <2>1. committed' = committed /\ \A g \in File : Seen(g)' = Seen(g)
    BY <1>0, <1>9 DEF Spill, Store, NeedsSync, PagerOK, Seen, InTrans, MultiTypeOK, ClientTypeOK
  <2>. QED  BY <2>1, Stutters
<1>10. ASSUME NEW f \in File, SyncJournal(f) \/ SkipSync(f) \/ CloseJournal(f) \/ PlayOwn(f)
       PROVE  UNCHANGED <<Value, Draft>>
  <2>1. committed' = committed /\ \A g \in File : Seen(g)' = Seen(g)
    BY <1>10 DEF SyncJournal, SkipSync, CloseJournal, PlayOwn, Seen, InTrans
  <2>. QED  BY <2>1, Stutters
<1>11. ASSUME NEW f \in File, Busy(f) PROVE UNCHANGED <<Value, Draft>>
  <2>1. committed' = committed /\ \A g \in File : Seen(g)' = Seen(g)
    BY <1>0, <1>11 DEF Busy, ControlOK, Seen, InTrans
  <2>. QED  BY <2>1, Stutters
<1>12. ASSUME NEW f \in File, DeleteJournal(f) PROVE Atomic!Next \/ UNCHANGED <<Value, Draft>>
  <2>1. /\ f \in InTrans /\ InTrans' = InTrans \ {f} /\ doing' = doing
        /\ \A g \in File : g # f => cache'[g] = cache[g]
    BY <1>0, <1>12 DEF DeleteJournal, EndTrans, IsNext, ControlOK, PlayOK, InTrans, MultiTypeOK,
      ClientTypeOK, CallTypeOK
  <2>2. CASE doing = "commit" /\ zMaster = NoName
    <3>1. committed' = [g \in File |-> Seen(g)]
      BY <1>12, <2>2 DEF DeleteJournal, Drafts, Seen
    <3>2. \A g \in File : Seen(g)' = Seen(g)
      BY <2>1, <2>2, <3>1 DEF Seen
    <3>. QED  BY <3>1, <3>2, Commits DEF Atomic!Next
  <2>3. CASE doing = "commit" /\ zMaster # NoName
    <3>1. committed' = committed /\ cache[f] = committed[f]
      BY <1>0, <1>12, <2>1, <2>3 DEF DeleteJournal, DataOK, Decided
    <3>2. \A g \in File : Seen(g)' = Seen(g)
      BY <2>1, <3>1 DEF Seen
    <3>. QED  BY <3>1, <3>2, Stutters
  <2>4. CASE doing # "commit"
    <3>1. committed' = committed /\ doing = "rollback"
      BY <1>0, <1>12, <2>4 DEF DeleteJournal, ControlOK, MultiTypeOK, CallTypeOK
    <3>2. \A g \in File : Seen(g)' = Seen(g)
      BY <2>1, <3>1 DEF Seen
    <3>. QED  BY <3>1, <3>2, Stutters
  <2>. QED  BY <2>2, <2>3, <2>4
<1>. QED
  BY <1>1, <1>2, <1>3, <1>4, <1>5, <1>6, <1>7, <1>8, <1>9, <1>10, <1>11, <1>12
    DEF ClientStep

\* The steps of a playback and the death of a recoverer.
LEMMA PlayRefines ==
  ASSUME CommitInv, CommitInv', NEW f \in File, PlayStep(f) \/ PlayerDies(f)
  PROVE  UNCHANGED <<Value, Draft>>
<1>0. MultiTypeOK /\ ControlOK /\ PlayOK(f)
  BY DEF CommitInv
<1>1. CASE PlayDelete(f) \/ PlayedOwn(f)
  <2>1. committed' = committed /\ doing' = doing
    BY <1>1 DEF PlayDelete, PlayedOwn
  <2>2. doing = "rollback" \/ UNCHANGED <<InTrans, cache>>
    BY <1>0, <1>1 DEF PlayDelete, PlayedOwn, PlayOK, ControlOK, InTrans
  <2>3. \A g \in File : Seen(g)' = Seen(g)
    BY <2>1, <2>2 DEF Seen
  <2>. QED  BY <2>1, <2>3, Stutters
<1>2. CASE \/ PlayHot(f) \/ Play(f) \/ PlayClose(f) \/ OpenMaster(f) \/ NoChild(f)
           \/ LeaveMaster(f) \/ PlayedHot(f) \/ PlayerDies(f)
           \/ \E g \in File : OpenChild(f, g) \/ ReadChild(f, g)
  <2>1. committed' = committed /\ UNCHANGED <<doing, pstate, cache>>
    BY <1>2 DEF PlayHot, Play, PlayClose, OpenMaster, NoChild, LeaveMaster, PlayedHot,
      PlayerDies, OpenChild, ReadChild
  <2>2. \A g \in File : Seen(g)' = Seen(g)
    BY <2>1 DEF Seen, InTrans
  <2>. QED  BY <2>1, <2>2, Stutters
<1>. QED  BY <1>1, <1>2 DEF PlayStep

\* All steps: the death of the client abandons, or finishes, its transaction.
LEMMA StepRefines ==
  CommitInv /\ CommitInv' /\ broken = "none" /\ [MultiNext]_vars
    => [Atomic!Next]_<<Value, Draft>>
<1> SUFFICES ASSUME CommitInv, CommitInv', broken = "none", [MultiNext]_vars
             PROVE  Atomic!Next \/ UNCHANGED <<Value, Draft>>
  OBVIOUS
<1>1. CASE ClientDies
  <2>1. committed' = committed /\ InTrans' = {}
    BY <1>1 DEF ClientDies, InTrans
  <2>2. \A f \in File : Seen(f)' = committed[f]
    BY <2>1 DEF Seen
  <2>. QED  BY <2>1, <2>2, Abandons DEF Atomic!Next
<1>2. CASE UNCHANGED vars
  <2>1. committed' = committed /\ \A f \in File : Seen(f)' = Seen(f)
    BY <1>2 DEF vars, Seen, InTrans
  <2>. QED  BY <2>1, Stutters
<1>. QED  BY <1>1, <1>2, ClientRefines, PlayRefines DEF MultiNext

(* As long as no known flaw has come to harm, the protocol of many steps, with all its *)
(* deaths and recoveries, is one atomic commit of all files (vdbeCommit).              *)
THEOREM CommitIsAtomic == MultiSpec /\ [](broken = "none") => ImplementsAtomicCommit
<1>1. MultiInit => Atomic!Init
  <2> SUFFICES ASSUME MultiInit PROVE Atomic!Init
    OBVIOUS
  <2>1. CommitInv /\ committed = [f \in File |-> 0] /\ InTrans = {}
    BY InitKeeps DEF MultiInit, InTrans
  <2>2. \A f \in File : Seen(f) = 0
    BY <2>1 DEF Seen
  <2>. QED  BY <2>1, <2>2, ValueAndDraft DEF SeenRight, Atomic!Init
<1>. QED  BY <1>1, StepRefines, CommitInvariant, PTL
          DEF MultiSpec, ImplementsAtomicCommit, Atomic!Spec
==============================================================================
