----------------------------- MODULE MultiCommit -----------------------------
(***************************************************************************)
(* A transaction on several database files (vdbeCommit in vdbeaux.c, the    *)
(* master journal in pager.c).  The client writes the name of a master      *)
(* journal into the journal of every file it changed, stores the files, and *)
(* commits them all by deleting the master journal.  A journal that names a *)
(* master journal which is gone is cold; any other is hot, and whoever opens *)
(* its file next plays it back and then sees whether the master can go.     *)
(*                                                                          *)
(* The client is one connection; the others read and recover.  Here a file  *)
(* is locked in one step, as os.h has it (WinLock is about how), and it is   *)
(* one page, that also stands for its change counter (Pager is about the    *)
(* pages of one file).  Journals and master journals are opened by one      *)
(* handle at a time (share mode 0), and a file that is open is not deleted. *)
(***************************************************************************)
EXTENDS Integers

CONSTANTS File,               \* the files, by their index in db->aDb
          Name,               \* bound: the master journal names there are
          MaxVersion,         \* bound: how often a file is changed
          Client, Nobody, NoName
ASSUME MultiAssumption == /\ File \subseteq Nat
                          /\ MaxVersion \in Nat
                          /\ Client \notin File /\ Nobody \notin File
                          /\ Client # Nobody
                          /\ NoName \notin Name

VARIABLES db,                 \* the database files
          journal,            \* their journals
          opener,             \* who has a journal open; f is the player of file f
          masters,            \* the master journals that exist
          children,           \* the files whose journals a master journal lists
          masterOpener,       \* who has a master journal open
          pstate,             \* the client: Pager.state
          cache,              \* the client's page
          dirtyCache,         \* Pager.dirtyCache
          setMaster,          \* Pager.setMaster
          at,                 \* where the client is in vdbeCommit or a rollback
          doing,              \* which of the two
          zMaster,            \* the name it chose
          todo,               \* the files its loop has yet to come to
          play,               \* pager_playback of each file, and by whom
          committed,          \* what the last commit left (history)
          broken              \* the first known flaw that came to harm (history)

fileVars   == <<db, journal, opener>>
masterVars == <<masters, children, masterOpener>>
pagerVars  == <<pstate, cache, dirtyCache, setMaster>>
callVars   == <<at, doing, zMaster, todo>>
history    == <<committed, broken>>
vars == <<fileVars, masterVars, pagerVars, callVars, play, history>>

PAGER_UNLOCK == 0
PAGER_SHARED == 1
PAGER_RESERVED == 2
PAGER_EXCLUSIVE == 4
PAGER_SYNCED == 5

NoJournal == [exists |-> FALSE, orig |-> 0, counted |-> FALSE, master |-> NoName]
NotPlayed == [by |-> Nobody, at |-> "none", master |-> NoName, todo |-> {}]

MultiInit ==
  /\ db = [f \in File |-> 0]
  /\ journal = [f \in File |-> NoJournal]
  /\ opener = [f \in File |-> Nobody]
  /\ masters = {}
  /\ children = [m \in Name |-> {}]
  /\ masterOpener = [m \in Name |-> Nobody]
  /\ pstate = [f \in File |-> PAGER_UNLOCK]
  /\ cache = [f \in File |-> 0]
  /\ dirtyCache = [f \in File |-> FALSE]
  /\ setMaster = [f \in File |-> FALSE]
  /\ at = "rest"
  /\ doing = "none"
  /\ zMaster = NoName
  /\ todo = {}
  /\ play = [f \in File |-> NotPlayed]
  /\ committed = db
  /\ broken = "none"

InTrans == {f \in File : pstate[f] >= PAGER_RESERVED}

\* The loops of vdbeCommit and sqlite3RollbackAll go through the files in order.
IsNext(f, files) == f \in files /\ \A g \in files : f <= g

\* A journal that will be played back: it names no master journal, or one that
\* exists.
Hot(f) == journal[f].exists /\ journal[f].master \in masters \cup {NoName}

\* A file that is played back, or of which only the journal's end is left to see to.
Playing(f) == play[f].at \in {"play", "close", "delete"}

------------------------------------------------------------------------------
(* The transaction: sqlite3pager_begin and sqlite3pager_write, one page     *)
(* stored early by pager_recycle.                                           *)

Begin(f) ==
  /\ at = "rest"
  /\ pstate[f] = PAGER_UNLOCK
  /\ ~Playing(f) /\ ~journal[f].exists
  /\ pstate' = [pstate EXCEPT ![f] = PAGER_RESERVED]
  /\ cache' = [cache EXCEPT ![f] = db[f]]
  /\ journal' = [journal EXCEPT ![f] = [NoJournal EXCEPT !.exists = TRUE]]
  /\ opener' = [opener EXCEPT ![f] = Client]
  /\ UNCHANGED <<db, masterVars, dirtyCache, setMaster, callVars, play, history>>

\* The page goes into the journal once.  Its assertion is not compiled: a page is
\* written beside a journal that names a master, and in the state PAGER_SYNCED.
Write(f) ==
  /\ at = "rest"
  /\ f \in InTrans
  /\ cache[f] < MaxVersion
  /\ cache' = [cache EXCEPT ![f] = @ + 1]
  /\ dirtyCache' = [dirtyCache EXCEPT ![f] = TRUE]
  /\ journal' = IF dirtyCache[f] THEN journal
                ELSE [journal EXCEPT ![f].orig = cache[f]]
  /\ UNCHANGED <<db, opener, masterVars, pstate, setMaster, callVars, play, history>>

\* The journal is synced, the file locked, the page written.
Spill(f) ==
  /\ at = "rest"
  /\ pstate[f] \in {PAGER_RESERVED, PAGER_EXCLUSIVE} /\ dirtyCache[f]
  /\ play[f].at = "none"
  /\ journal' = [journal EXCEPT ![f].counted = TRUE]
  /\ pstate' = [pstate EXCEPT ![f] = PAGER_EXCLUSIVE]
  /\ db' = [db EXCEPT ![f] = cache[f]]
  /\ UNCHANGED <<opener, masterVars, cache, dirtyCache, setMaster, callVars, play, history>>

------------------------------------------------------------------------------
(* vdbeCommit. *)

\* One file needs no master journal.
CommitOne ==
  /\ at = "rest"
  /\ \E f \in File : InTrans = {f}
  /\ at' = "sync" /\ doing' = "commit" /\ zMaster' = NoName /\ todo' = InTrans
  /\ UNCHANGED <<fileVars, masterVars, pagerVars, play, history>>

\* The names that journals hold.  A random number of 31 bits is taken not to be one
\* of them; the code looks only for a master journal of that name.
NamedMasters == {journal[f].master : f \in {g \in File : journal[g].exists}}

\* Mutant: the first file's journal is not listed.
CommitManyUnlisted ==
  /\ at = "rest"
  /\ \E f, g \in InTrans : f # g
  /\ todo' = InTrans
  /\ \E m \in Name \ (masters \cup NamedMasters) :
       /\ masters' = masters \cup {m}
       /\ children' = [children EXCEPT ![m] = {f \in InTrans : ~IsNext(f, InTrans)}]
       /\ masterOpener' = [masterOpener EXCEPT ![m] = Client]
       /\ zMaster' = m
       /\ at' = "sync" /\ doing' = "commit"
  /\ UNCHANGED <<fileVars, pagerVars, play, history>>

\* A name that no file has; the master journal, with the names of all journals.
CommitMany ==
  /\ at = "rest"
  /\ \E f, g \in InTrans : f # g
  /\ todo' = InTrans
  /\ \E m \in Name \ (masters \cup NamedMasters) :
       \/ /\ masters' = masters \cup {m}
          /\ children' = [children EXCEPT ![m] = InTrans]
          /\ masterOpener' = [masterOpener EXCEPT ![m] = Client]
          /\ zMaster' = m
          /\ at' = "sync" /\ doing' = "commit"
       \/ \* It cannot be opened or written.
          /\ at' = "rollback" /\ doing' = "rollback"
          /\ UNCHANGED <<masterVars, zMaster>>
  /\ UNCHANGED <<fileVars, pagerVars, play, history>>

NeedsSync(f) == pstate[f] # PAGER_SYNCED /\ dirtyCache[f]

\* sqlite3pager_sync: writeMasterJournal and syncJournal, unless an earlier attempt
\* wrote a name.
SyncJournal(f) ==
  /\ at = "sync" /\ IsNext(f, todo)
  /\ NeedsSync(f)
  /\ at' = "store"
  /\ IF setMaster[f] THEN UNCHANGED <<journal, setMaster>>
     ELSE /\ journal' = [journal EXCEPT ![f].counted = TRUE, ![f].master = zMaster]
          /\ setMaster' = [setMaster EXCEPT ![f] = zMaster # NoName]
  /\ UNCHANGED <<db, opener, masterVars, pstate, cache, dirtyCache, doing, zMaster,
                 todo, play, history>>

\* A file that is stored already, or that nothing was written to.
SkipSync(f) ==
  /\ at = "sync" /\ IsNext(f, todo)
  /\ ~NeedsSync(f)
  /\ todo' = todo \ {f}
  /\ UNCHANGED <<fileVars, masterVars, pagerVars, at, doing, zMaster, play, history>>

\* pager_write_pagelist under an EXCLUSIVE lock.
Store(f) ==
  /\ at = "store" /\ IsNext(f, todo)
  /\ play[f].at = "none"
  /\ pstate' = [pstate EXCEPT ![f] = PAGER_SYNCED]
  /\ db' = [db EXCEPT ![f] = cache[f]]
  /\ todo' = todo \ {f}
  /\ at' = "sync"
  /\ UNCHANGED <<journal, opener, masterVars, cache, dirtyCache, setMaster, doing,
                 zMaster, play, history>>

CloseMaster == masterOpener' = [m \in Name |-> IF m = zMaster THEN Nobody
                                              ELSE masterOpener[m]]

\* Mutant: the master journal is not closed.
BusyUnclosed(f) ==
  /\ at = "store" /\ IsNext(f, todo)
  /\ pstate[f] < PAGER_EXCLUSIVE
  /\ at' = "rest" /\ doing' = "none" /\ zMaster' = NoName /\ todo' = {}
  /\ UNCHANGED <<fileVars, masterVars, pagerVars, play, history>>

\* A reader keeps the lock.  The master journal stays, and so does the transaction:
\* the client commits again or rolls back.
Busy(f) ==
  /\ at = "store" /\ IsNext(f, todo)
  /\ pstate[f] < PAGER_EXCLUSIVE
  /\ CloseMaster
  /\ at' = "rest" /\ doing' = "none" /\ zMaster' = NoName /\ todo' = {}
  /\ UNCHANGED <<fileVars, masters, children, pagerVars, play, history>>

Synced ==
  /\ at = "sync" /\ todo = {}
  /\ CloseMaster
  /\ at' = IF zMaster = NoName THEN "commit" ELSE "master"
  /\ todo' = IF zMaster = NoName THEN InTrans ELSE {}
  /\ UNCHANGED <<fileVars, masters, children, pagerVars, doing, zMaster, play, history>>

\* Everything the client changed.
Drafts == [f \in File |-> IF f \in InTrans THEN cache[f] ELSE committed[f]]

MisnamedJournal(f) == dirtyCache[f] /\ journal[f].master \notin {zMaster, NoName}

\* The commit.  Known flaw: a journal that an earlier attempt named is still hot, and
\* what was written to the file since that attempt may not be stored.
DeleteMaster ==
  /\ at = "master"
  /\ masters' = IF masterOpener[zMaster] = Nobody THEN masters \ {zMaster} ELSE masters
  /\ committed' = Drafts
  /\ broken' = IF broken = "none" /\ \E f \in InTrans : MisnamedJournal(f)
               THEN "renamed" ELSE broken
  /\ at' = "commit" /\ todo' = InTrans
  /\ UNCHANGED <<fileVars, children, masterOpener, pagerVars, doing, zMaster, play>>

\* The file may have been written.
NeedsPlayback(f) == pstate[f] >= PAGER_EXCLUSIVE /\ dirtyCache[f]

\* sqlite3pager_commit and what else ends in pager_unwritelock without a playback:
\* the journal is closed...
CloseJournal(f) ==
  /\ at = "commit" \/ (at = "rollback" /\ ~NeedsPlayback(f))
  /\ IsNext(f, todo)
  /\ opener' = [opener EXCEPT ![f] = Nobody]
  /\ at' = "delete"
  /\ UNCHANGED <<db, journal, masterVars, pagerVars, doing, zMaster, todo, play, history>>

\* Mutant: setMaster is not reset.
EndTransNamed(f, s) == /\ pstate' = [pstate EXCEPT ![f] = s]
                       /\ dirtyCache' = [dirtyCache EXCEPT ![f] = FALSE]
                       /\ UNCHANGED setMaster

\* The client's pager of f is done with its transaction.
EndTrans(f, s) == /\ pstate' = [pstate EXCEPT ![f] = s]
                  /\ dirtyCache' = [dirtyCache EXCEPT ![f] = FALSE]
                  /\ setMaster' = [setMaster EXCEPT ![f] = FALSE]

Deleted(f) == IF opener[f] = Nobody THEN [journal EXCEPT ![f] = NoJournal] ELSE journal

\* ... and deleted, which commits a transaction of one file.  Known flaw: the look
\* at another file's master journal can have it open, and then it stays.
DeleteJournal(f) ==
  /\ at = "delete" /\ IsNext(f, todo)
  /\ journal' = Deleted(f)
  /\ EndTrans(f, PAGER_UNLOCK)
  /\ committed' = IF doing = "commit" /\ zMaster = NoName THEN Drafts ELSE committed
  /\ broken' = IF /\ broken = "none"
                  /\ doing = "commit" /\ opener[f] # Nobody
                  /\ Hot(f) /\ dirtyCache[f]
               THEN "undeleted" ELSE broken
  /\ cache' = [cache EXCEPT ![f] = 0]
  /\ at' = doing
  /\ todo' = todo \ {f}
  /\ UNCHANGED <<db, opener, masterVars, doing, zMaster, play>>

\* vdbeCommit and sqlite3RollbackAll return.
Return ==
  /\ at \in {"commit", "rollback"} /\ todo = {}
  /\ at' = "rest" /\ doing' = "none" /\ zMaster' = NoName
  /\ UNCHANGED <<fileVars, masterVars, pagerVars, todo, play, history>>

Rollback ==
  /\ at = "rest" /\ InTrans # {}
  /\ at' = "rollback" /\ doing' = "rollback" /\ todo' = InTrans
  /\ UNCHANGED <<fileVars, masterVars, pagerVars, zMaster, play, history>>

------------------------------------------------------------------------------
(* pager_playback, by the client that rolls back or by whoever finds the    *)
(* journal hot.                                                             *)

PlayAt(f, label) == play' = [play EXCEPT ![f].at = label]

PlayOwn(f) ==
  /\ at = "rollback" /\ IsNext(f, todo)
  /\ NeedsPlayback(f)
  /\ at' = "wait"
  /\ opener' = [opener EXCEPT ![f] = f]
  /\ play' = [play EXCEPT ![f] = [NotPlayed EXCEPT !.by = Client, !.at = "play"]]
  /\ UNCHANGED <<db, journal, masterVars, pagerVars, doing, zMaster, todo, history>>

\* Mutant: the player does not look at the client's lock.
PlayHotLocked(f) ==
  /\ play[f].at = "none"
  /\ journal[f].exists /\ opener[f] = Nobody
  /\ opener' = [opener EXCEPT ![f] = f]
  /\ play' = [play EXCEPT ![f] = [NotPlayed EXCEPT !.by = f, !.at = "play"]]
  /\ UNCHANGED <<db, journal, masterVars, pagerVars, callVars, history>>

\* No lock of the client's keeps the other process out.
PlayHot(f) ==
  /\ play[f].at = "none"
  /\ pstate[f] = PAGER_UNLOCK
  /\ journal[f].exists /\ opener[f] = Nobody
  /\ opener' = [opener EXCEPT ![f] = f]
  /\ play' = [play EXCEPT ![f] = [NotPlayed EXCEPT !.by = f, !.at = "play"]]
  /\ UNCHANGED <<db, journal, masterVars, pagerVars, callVars, history>>

\* Mutant: the master journal is not looked for.
PlayAnyway(f) ==
  /\ play[f].at = "play"
  /\ play' = [play EXCEPT ![f].at = "close", ![f].master = journal[f].master]
  /\ db' = IF journal[f].counted THEN [db EXCEPT ![f] = journal[f].orig] ELSE db
  /\ UNCHANGED <<journal, opener, masterVars, pagerVars, callVars, history>>

Play(f) ==
  /\ play[f].at = "play"
  /\ IF Hot(f)
       THEN /\ play' = [play EXCEPT ![f].at = "close", ![f].master = journal[f].master]
            /\ db' = IF journal[f].counted THEN [db EXCEPT ![f] = journal[f].orig] ELSE db
       ELSE PlayAt(f, "close") /\ UNCHANGED db
  /\ UNCHANGED <<journal, opener, masterVars, pagerVars, callVars, history>>

PlayClose(f) ==
  /\ play[f].at = "close"
  /\ opener' = [opener EXCEPT ![f] = Nobody]
  /\ PlayAt(f, "delete")
  /\ UNCHANGED <<db, journal, masterVars, pagerVars, callVars, history>>

\* pager_unwritelock; from here on the player has a SHARED lock.
PlayDelete(f) ==
  /\ play[f].at = "delete"
  /\ journal' = Deleted(f)
  /\ IF play[f].by = Client THEN EndTrans(f, PAGER_SHARED)
     ELSE UNCHANGED <<pstate, dirtyCache, setMaster>>
  /\ PlayAt(f, IF play[f].master = NoName THEN "done" ELSE "master")
  /\ UNCHANGED <<db, opener, masterVars, cache, callVars, history>>

\* pager_delmaster: it can be opened or not.
OpenMaster(f) ==
  /\ play[f].at = "master"
  /\ LET m == play[f].master IN
       \/ /\ m \in masters /\ masterOpener[m] = Nobody
          /\ masterOpener' = [masterOpener EXCEPT ![m] = f]
          /\ play' = [play EXCEPT ![f].at = "children", ![f].todo = children[m]]
       \/ /\ ~(m \in masters /\ masterOpener[m] = Nobody)
          /\ PlayAt(f, "done")
          /\ UNCHANGED masterOpener
  /\ UNCHANGED <<fileVars, masters, children, pagerVars, callVars, history>>

\* The next child journal: it is not there; it is opened; it cannot be opened.
OpenChild(f, g) ==
  /\ play[f].at = "children" /\ IsNext(g, play[f].todo)
  /\ \/ /\ ~journal[g].exists
        /\ play' = [play EXCEPT ![f].todo = @ \ {g}]
        /\ UNCHANGED opener
     \/ /\ journal[g].exists /\ opener[g] = Nobody
        /\ opener' = [opener EXCEPT ![g] = f]
        /\ PlayAt(f, "child")
     \/ /\ journal[g].exists /\ opener[g] # Nobody
        /\ PlayAt(f, "out")
        /\ UNCHANGED opener
  /\ UNCHANGED <<db, journal, masterVars, pagerVars, callVars, history>>

\* A child that names the master keeps it.
ReadChild(f, g) ==
  /\ play[f].at = "child" /\ IsNext(g, play[f].todo)
  /\ opener' = [opener EXCEPT ![g] = Nobody]
  /\ play' = IF journal[g].master = play[f].master
             THEN [play EXCEPT ![f].at = "out"]
             ELSE [play EXCEPT ![f].at = "children", ![f].todo = @ \ {g}]
  /\ UNCHANGED <<db, journal, masterVars, pagerVars, callVars, history>>

\* No child needs it.  The file is deleted before it is closed.
NoChild(f) ==
  /\ play[f].at = "children" /\ play[f].todo = {}
  /\ masters' = IF masterOpener[play[f].master] = Nobody
                THEN masters \ {play[f].master} ELSE masters
  /\ PlayAt(f, "out")
  /\ UNCHANGED <<fileVars, children, masterOpener, pagerVars, callVars, history>>

LeaveMaster(f) ==
  /\ play[f].at = "out"
  /\ masterOpener' = [masterOpener EXCEPT ![play[f].master] = Nobody]
  /\ PlayAt(f, "done")
  /\ UNCHANGED <<fileVars, masters, children, pagerVars, callVars, history>>

\* sqlite3pager_get and sqlite3pager_rollback are done with the playback.
PlayedHot(f) ==
  /\ play[f].at = "done" /\ play[f].by = f
  /\ play' = [play EXCEPT ![f] = NotPlayed]
  /\ UNCHANGED <<fileVars, masterVars, pagerVars, callVars, history>>

PlayedOwn(f) ==
  /\ play[f].at = "done" /\ play[f].by = Client
  /\ play' = [play EXCEPT ![f] = NotPlayed]
  /\ at' = "rollback" /\ todo' = todo \ {f}
  /\ pstate' = [pstate EXCEPT ![f] = PAGER_UNLOCK]
  /\ cache' = [cache EXCEPT ![f] = 0]
  /\ UNCHANGED <<fileVars, masterVars, dirtyCache, setMaster, doing, zMaster, history>>

------------------------------------------------------------------------------
(* Deaths: the system closes the files of a dead process. *)

\* What the handles of these owners had open is not open any more.
Closed(opened, owners) ==
  [x \in DOMAIN opened |-> IF opened[x] \in owners THEN Nobody ELSE opened[x]]

ClientDies ==
  LET mine == {f \in File : play[f].by = Client} \cup {Client} IN
  /\ opener' = Closed(opener, mine)
  /\ masterOpener' = Closed(masterOpener, mine)
  /\ play' = [f \in File |-> IF f \in mine THEN NotPlayed ELSE play[f]]
  /\ pstate' = [f \in File |-> PAGER_UNLOCK]
  /\ cache' = [f \in File |-> 0]
  /\ dirtyCache' = [f \in File |-> FALSE]
  /\ setMaster' = [f \in File |-> FALSE]
  /\ at' = "rest" /\ doing' = "none" /\ zMaster' = NoName /\ todo' = {}
  /\ UNCHANGED <<db, journal, masters, children, history>>

PlayerDies(f) ==
  /\ play[f].by = f
  /\ opener' = Closed(opener, {f})
  /\ masterOpener' = Closed(masterOpener, {f})
  /\ play' = [play EXCEPT ![f] = NotPlayed]
  /\ UNCHANGED <<db, journal, masters, children, pagerVars, callVars, history>>

------------------------------------------------------------------------------
ClientStep == \/ CommitOne \/ CommitMany \/ Synced \/ DeleteMaster \/ Return
              \/ Rollback
              \/ \E f \in File : \/ Begin(f) \/ Write(f) \/ Spill(f)
                                 \/ SyncJournal(f) \/ SkipSync(f) \/ Store(f) \/ Busy(f)
                                 \/ CloseJournal(f) \/ DeleteJournal(f) \/ PlayOwn(f)

PlayStep(f) == \/ PlayHot(f) \/ Play(f) \/ PlayClose(f) \/ PlayDelete(f)
               \/ OpenMaster(f) \/ NoChild(f) \/ LeaveMaster(f)
               \/ PlayedHot(f) \/ PlayedOwn(f)
               \/ \E g \in File : OpenChild(f, g) \/ ReadChild(f, g)

MultiNext == ClientStep \/ ClientDies \/ \E f \in File : PlayStep(f) \/ PlayerDies(f)

MultiSpec == MultiInit /\ [][MultiNext]_vars

------------------------------------------------------------------------------
(* Properties. *)

Version == 0..MaxVersion

Handle == File \cup {Client, Nobody}

Journal == [exists : BOOLEAN, orig : Version, counted : BOOLEAN,
            master : Name \cup {NoName}]

Playback == [by : Handle,
             at : {"none", "play", "close", "delete", "master", "children", "child",
                   "out", "done"},
             master : Name \cup {NoName},
             todo : SUBSET File]

FileTypeOK == /\ db \in [File -> Version]
              /\ opener \in [File -> Handle]

MasterTypeOK == /\ masters \subseteq Name
                /\ children \in [Name -> SUBSET File]
                /\ masterOpener \in [Name -> Handle]

ClientTypeOK == /\ pstate \in [File -> {PAGER_UNLOCK, PAGER_SHARED, PAGER_RESERVED,
                                        PAGER_EXCLUSIVE, PAGER_SYNCED}]
                /\ cache \in [File -> Version]
                /\ dirtyCache \in [File -> BOOLEAN]
                /\ setMaster \in [File -> BOOLEAN]

CallTypeOK == /\ at \in {"rest", "sync", "store", "master", "commit", "delete",
                         "rollback", "wait"}
              /\ doing \in {"none", "commit", "rollback"}
              /\ zMaster \in Name \cup {NoName}
              /\ todo \subseteq File

HistoryTypeOK == /\ committed \in [File -> Version]
                 /\ broken \in {"none", "renamed", "undeleted"}

MultiTypeOK ==
  /\ FileTypeOK /\ MasterTypeOK /\ ClientTypeOK /\ CallTypeOK /\ HistoryTypeOK
  /\ journal \in [File -> Journal]
  /\ play \in [File -> Playback]

(* The inductive invariant: what the labels say of the loops, who refers to *)
(* a master journal, and what every file holds relative to the last commit.  *)

\* The client has deleted its master journal and is not done with the journals.
Decided == doing = "commit" /\ at \in {"commit", "delete"} /\ zMaster # NoName

ControlOK ==
  /\ at = "rest" => doing = "none" /\ zMaster = NoName /\ todo = {}
  /\ at \in {"sync", "store", "master", "commit"} => doing = "commit"
  /\ at \in {"rollback", "wait"} => doing = "rollback"
  /\ at = "delete" => doing # "none"
  /\ at = "master" => zMaster # NoName /\ todo = {}
  /\ doing = "rollback" => zMaster = NoName
  /\ doing = "commit" /\ zMaster = NoName => \A f, g \in InTrans : f = g
  /\ \A f \in todo : f \in InTrans \/ play[f].by = Client
  /\ at \in {"commit", "delete", "rollback", "wait"} => InTrans \subseteq todo
  /\ zMaster # NoName /\ at \in {"sync", "store"} => \E f, g \in InTrans : f # g

PagerOK(f) ==
  /\ dirtyCache[f] => f \in InTrans
  /\ setMaster[f] => dirtyCache[f] /\ journal[f].counted /\ journal[f].master # NoName
  /\ setMaster[f] => \/ doing = "rollback" \/ zMaster # NoName
                     \/ doing = "none" /\ \E g \in InTrans : g # f
  /\ pstate[f] = PAGER_SYNCED => setMaster[f] \/ (doing = "commit" /\ zMaster = NoName)
  /\ doing = "commit" /\ dirtyCache[f] /\ (at \in {"sync", "store"} => f \notin todo) =>
       pstate[f] = PAGER_SYNCED
  /\ at = "store" /\ IsNext(f, todo) =>
       /\ NeedsSync(f) /\ journal[f].counted
       /\ zMaster # NoName => setMaster[f]
  /\ at = "delete" /\ doing = "rollback" /\ IsNext(f, todo) => ~NeedsPlayback(f)

PlayOK(f) ==
  /\ play[f].by = Client => at = "wait" /\ IsNext(f, todo)
  /\ play[f].at = "none" <=> play[f].by = Nobody
  /\ play[f].by \in {Client, Nobody, f}
  /\ Playing(f) => (f \in InTrans <=> play[f].by = Client)
  /\ play[f].by = Client /\ ~Playing(f) => f \notin InTrans
  /\ pstate[f] >= PAGER_EXCLUSIVE => play[f].by \in {Client, Nobody}
  /\ play[f].master \in masters \cup {NoName}
  /\ play[f].at \in {"children", "child", "out"} =>
       play[f].master # NoName /\ masterOpener[play[f].master] = f

\* Nobody but the client refers to the master journal it is about to delete.
MasterOK ==
  /\ \A m \in Name : masterOpener[m] = Client => at \in {"sync", "store"} /\ m = zMaster
  /\ \A m \in Name, f \in File :
       masterOpener[m] = f => /\ play[f].master = m
                              /\ play[f].at \in {"children", "child", "out"}
  /\ zMaster # NoName /\ at \in {"sync", "store", "master"} =>
       /\ zMaster \in masters
       /\ \A f \in File : /\ play[f].master # zMaster
                          /\ journal[f].exists /\ journal[f].master = zMaster =>
                               f \in InTrans

\* What a reader of the file finds, once it has played back a hot journal.
Found(f) == IF Hot(f) /\ journal[f].counted THEN journal[f].orig ELSE db[f]

Recovered == [f \in File |-> Found(f)]

\* The journal leads back to the last commit, and the file is there as long as the
\* journal is not counted.
Undoable(f) ==
  /\ Hot(f)
  /\ dirtyCache[f] => journal[f].orig = committed[f]
  /\ ~dirtyCache[f] => ~journal[f].counted /\ cache[f] = db[f]
  /\ ~journal[f].counted => db[f] = committed[f]

DataOK(f) ==
  /\ Found(f) = committed[f]
  /\ f \in InTrans /\ ~Decided => Undoable(f)
  /\ f \in InTrans /\ Decided => db[f] = committed[f] /\ cache[f] = committed[f]
  /\ pstate[f] = PAGER_RESERVED => db[f] = committed[f]
  /\ /\ pstate[f] = PAGER_SYNCED /\ ~Playing(f)
     /\ setMaster[f] => journal[f].master = zMaster
     => db[f] = cache[f]
  /\ play[f].at \in {"close", "delete"} => db[f] = committed[f]

CommitInv ==
  /\ MultiTypeOK
  /\ ControlOK
  /\ \A f \in File : PagerOK(f) /\ PlayOK(f)
  /\ MasterOK
  /\ broken = "none" => \A f \in File : DataOK(f)

\* Whoever dies whenever, every file can be brought back to the last commit, all of
\* them to the same one.  (vdbeaux.c 938-1118: "committed atomicly")
AllRecoverable == broken = "none" => Recovered = committed

\* While the client has changes in a file nobody else plays its journal back, or as
\* much as opens it before the client has closed it to delete it.
RecoveryExcluded ==
  \A f \in InTrans : \/ opener[f] = Client /\ play[f].by # Client
                     \/ play[f].by = Client
                     \/ at = "delete" /\ IsNext(f, todo) /\ ~Playing(f)

\* A master journal lists every journal that names it, so a recovery that looks at
\* the children has looked at all.
ChildrenListed ==
  \A f \in File : journal[f].exists /\ journal[f].master \in masters
                    => f \in children[journal[f].master]

\* What the files hold, until a known flaw comes to harm.
Value == IF broken = "none" THEN Recovered ELSE committed

\* What the client sees: its own changes until it gives them up.
Draft == [f \in File |-> IF f \in InTrans /\ doing # "rollback" THEN cache[f]
                         ELSE Value[f]]

Atomic == INSTANCE AtomicCommit WITH value <- Value, draft <- Draft

\* The files change all at once or not at all, whatever the steps are in which they
\* are stored, their journals named and deleted, and recovered.
ImplementsAtomicCommit == Atomic!Spec

\* vdbeaux.c:1103-1106: once the master journal is deleted "The integrity of the
\* transaction is already guaranteed, but some stray 'cold' journals may be lying
\* around."
OnlyColdJournals ==
  at = "commit" /\ zMaster # NoName => \A f \in File : ~(Hot(f) /\ dirtyCache[f])
==============================================================================
