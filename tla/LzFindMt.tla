------------------------------ MODULE LzFindMt ------------------------------
(***************************************************************************)
(* The multithreaded match finder of 7-Zip, LzFindMt.c: the hash thread    *)
(* fills blocks of hash heads, the bt thread turns them into blocks of     *)
(* matches, and the encoder, the client, reads those.  Two links of type   *)
(* CMtSync, "hash" (from the hash thread to the bt thread) and "bt" (from  *)
(* the bt thread to the client), each with two semaphores, three events, a *)
(* critical section and flags that no lock protects.  The client restarts  *)
(* the pipeline for every stream, and may destroy and create it again.     *)
(*                                                                         *)
(* A step is the code between two operations another thread can tell       *)
(* apart.  External: Windows semaphores, of which a release beyond the     *)
(* maximum fails and has no effect, auto-reset events, critical sections.  *)
(***************************************************************************)
EXTENDS Integers

CONSTANTS
  HashNumBlocks,  \* kMtHashNumBlocks: 8 in the code
  BtNumBlocks,    \* kMtBtNumBlocks: 64 in the code
  MaxBlock,       \* bound: blocks the client asks for in one stream
  MaxHash,        \* bound: hash blocks the bt thread reads in one stream
  MaxEpoch        \* bound: streams

ASSUME LzFindMtBounds ==
  /\ HashNumBlocks \in Nat \ {0} /\ BtNumBlocks \in Nat \ {0}
  /\ MaxBlock \in Nat \ {0} /\ MaxHash \in Nat \ {0} /\ MaxEpoch \in Nat

Link == {"hash", "bt"}
N(l) == IF l = "hash" THEN HashNumBlocks ELSE BtNumBlocks

VARIABLES
  needStart, stopWriting, exit,     \* the flags of CMtSync, by link
  canStart, wasStarted, wasStopped, \* its auto-reset events: TRUE if signaled
  freeSem, filledSem,               \* its semaphores
  cs,                \* its critical section: "nobody", "reader", "mover" (the hash thread)
  numProcessed,      \* numProcessedBlocks of the link
  myNumBlocks,       \* myNumBlocks of MtSync_StopWriting
  made,              \* numProcessedBlocks of HashThreadFunc, blockIndex of BtThreadFunc
  prod,              \* where the writing thread of the link is
  cons,              \* where its reader is
  buf,               \* the slots of hashBuf and btBuf
  spent,             \* the bt thread's hash block has no more heads
  moved,             \* the hash thread has moved the window since its last block
  inited,            \* MatchFinderMt_Init was called since the last stream
  epoch              \* history: number of the stream

flags  == <<needStart, stopWriting, exit>>
events == <<canStart, wasStarted, wasStopped>>
sems   == <<freeSem, filledSem>>
counts == <<numProcessed, myNumBlocks, made>>
hidden == <<spent, moved, inited, epoch>>
vars   == <<flags, events, sems, cs, counts, prod, cons, buf, hidden>>

\* A slot holds block `at` of stream `epoch`; while it is written, nothing of use.
Block(e, i) == [epoch |-> e, at |-> i]
Unfinished == Block(0, 0)
Slot(l, i) == i % N(l)

\* Semaphore_Release1: ReleaseSemaphore fails at the maximum, and nobody looks.
Release(sem, l) == [sem EXCEPT ![l] = IF @ < N(l) THEN @ + 1 ELSE @]

MtInit ==
  /\ needStart = [l \in Link |-> TRUE]
  /\ stopWriting \in [Link -> BOOLEAN] /\ exit \in [Link -> BOOLEAN]
  /\ canStart = [l \in Link |-> FALSE] /\ wasStarted = canStart /\ wasStopped = canStart
  /\ freeSem = [l \in Link |-> 0] /\ filledSem = freeSem
  /\ cs = [l \in Link |-> "nobody"]
  /\ numProcessed = [l \in Link |-> 0] /\ myNumBlocks = numProcessed /\ made = numProcessed
  /\ prod = [l \in Link |-> "none"] /\ cons = [l \in Link |-> "out"]
  /\ buf = [l \in Link |-> [i \in 0..(N(l) - 1) |-> Unfinished]]
  /\ spent = TRUE /\ moved = FALSE /\ inited = FALSE /\ epoch = 0

To(role, l, place) == [role EXCEPT ![l] = place]

----------------------------------------------------------------------------
\* MtSync_GetNextBlock, for the reader of link l.

\* The first block of a stream: the writer is let go.
Start(l) ==
  /\ cons[l] = "next" /\ needStart[l] /\ cons' = To(cons, l, "starting")
  /\ numProcessed' = [numProcessed EXCEPT ![l] = 1]
  /\ needStart' = [needStart EXCEPT ![l] = FALSE]
  /\ stopWriting' = [stopWriting EXCEPT ![l] = FALSE]
  /\ exit' = [exit EXCEPT ![l] = FALSE]
  /\ wasStarted' = [wasStarted EXCEPT ![l] = FALSE]
  /\ wasStopped' = [wasStopped EXCEPT ![l] = FALSE]
  /\ canStart' = [canStart EXCEPT ![l] = TRUE]
  /\ UNCHANGED <<sems, cs, myNumBlocks, made, prod, buf, hidden>>

Started(l) ==
  /\ cons[l] = "starting" /\ wasStarted[l] /\ cons' = To(cons, l, "take")
  /\ wasStarted' = [wasStarted EXCEPT ![l] = FALSE]
  /\ UNCHANGED <<flags, canStart, wasStopped, sems, cs, counts, prod, buf, hidden>>

\* Any other block: the one just read is given back.
Next(l) ==
  /\ cons[l] = "next" /\ ~needStart[l] /\ cons' = To(cons, l, "free")
  /\ cs' = [cs EXCEPT ![l] = "nobody"]
  /\ numProcessed' = [numProcessed EXCEPT ![l] = @ + 1]
  /\ UNCHANGED <<flags, events, sems, myNumBlocks, made, prod, buf, hidden>>

GiveBack(l) ==
  /\ cons[l] = "free" /\ cons' = To(cons, l, "take")
  /\ freeSem' = Release(freeSem, l)
  /\ UNCHANGED <<flags, events, filledSem, cs, counts, prod, buf, hidden>>

TakeUnwaited(l) ==
  /\ cons[l] = "take" /\ cons' = To(cons, l, "enter")
  /\ filledSem' = [filledSem EXCEPT ![l] = @ - 1]
  /\ UNCHANGED <<flags, events, freeSem, cs, counts, prod, buf, hidden>>
Take(l) ==
  /\ cons[l] = "take" /\ filledSem[l] > 0 /\ cons' = To(cons, l, "enter")
  /\ filledSem' = [filledSem EXCEPT ![l] = @ - 1]
  /\ UNCHANGED <<flags, events, freeSem, cs, counts, prod, buf, hidden>>

Enter(l) == cs[l] = "nobody" /\ cs' = [cs EXCEPT ![l] = "reader"]

\* The client goes on with the block it asked for.
EnterBt ==
  /\ cons["bt"] = "enter" /\ Enter("bt") /\ cons' = To(cons, "bt", "using")
  /\ UNCHANGED <<flags, events, sems, counts, prod, buf, hidden>>

\* So does BtGetMatches; the last blocks of a stream are too short to have heads.
EnterHash ==
  /\ cons["hash"] = "enter" /\ Enter("hash")
  /\ \/ spent' = FALSE /\ cons' = To(cons, "hash", "match")
     \/ spent' = TRUE /\ cons' = To(cons, "hash", "full") /\ numProcessed["hash"] < MaxHash
  /\ UNCHANGED <<flags, events, sems, counts, prod, buf, moved, inited, epoch>>

----------------------------------------------------------------------------
\* MtSync_StopWriting, for the reader of link l.

StopAlways(l) ==
  /\ cons[l] = "stop" /\ cons' = To(cons, l, "leave")
  /\ myNumBlocks' = [myNumBlocks EXCEPT ![l] = numProcessed[l]]
  /\ stopWriting' = [stopWriting EXCEPT ![l] = TRUE]
  /\ UNCHANGED <<needStart, exit, events, sems, cs, numProcessed, made, prod, buf, hidden>>
Stop(l) ==
  /\ cons[l] = "stop"
  /\ IF needStart[l]
     THEN cons' = To(cons, l, "out") /\ UNCHANGED <<myNumBlocks, stopWriting>>
     ELSE /\ myNumBlocks' = [myNumBlocks EXCEPT ![l] = numProcessed[l]]
          /\ stopWriting' = [stopWriting EXCEPT ![l] = TRUE]
          /\ cons' = To(cons, l, "leave")
  /\ inited' = (inited /\ (needStart[l] => l # "bt"))
  /\ UNCHANGED <<needStart, exit, events, sems, cs, numProcessed, made, prod, buf, spent, moved,
                 epoch>>

\* Mutant: the critical section is not left.
LeaveKept(l) ==
  /\ cons[l] = "leave" /\ cons' = To(cons, l, "wake")
  /\ UNCHANGED <<flags, events, sems, cs, counts, prod, buf, hidden>>
Leave(l) ==
  /\ cons[l] = "leave" /\ cons' = To(cons, l, "wake")
  /\ cs' = IF cs[l] = "reader" THEN [cs EXCEPT ![l] = "nobody"] ELSE cs
  /\ UNCHANGED <<flags, events, sems, counts, prod, buf, hidden>>

WakeNobody(l) ==
  /\ cons[l] = "wake" /\ cons' = To(cons, l, "await")
  /\ UNCHANGED <<flags, events, sems, cs, counts, prod, buf, hidden>>
Wake(l) ==
  /\ cons[l] = "wake" /\ cons' = To(cons, l, "await")
  /\ freeSem' = Release(freeSem, l)
  /\ UNCHANGED <<flags, events, filledSem, cs, counts, prod, buf, hidden>>

Await(l) ==
  /\ cons[l] = "await" /\ wasStopped[l] /\ cons' = To(cons, l, "drain")
  /\ wasStopped' = [wasStopped EXCEPT ![l] = FALSE]
  /\ UNCHANGED <<flags, canStart, wasStarted, sems, cs, counts, prod, buf, hidden>>

\* The blocks that were written and not read are taken and given back.
Drain(l) ==
  /\ cons[l] = "drain" /\ myNumBlocks[l] # numProcessed[l] /\ filledSem[l] > 0
  /\ myNumBlocks' = [myNumBlocks EXCEPT ![l] = @ + 1]
  /\ filledSem' = [filledSem EXCEPT ![l] = @ - 1]
  /\ cons' = To(cons, l, "drained")
  /\ UNCHANGED <<flags, events, freeSem, cs, numProcessed, made, prod, buf, hidden>>

Drained(l) ==
  /\ cons[l] = "drained" /\ cons' = To(cons, l, "drain")
  /\ freeSem' = Release(freeSem, l)
  /\ UNCHANGED <<flags, events, filledSem, cs, counts, prod, buf, hidden>>

Stopped(l) ==
  /\ cons[l] = "drain" /\ myNumBlocks[l] = numProcessed[l]
  /\ needStart' = [needStart EXCEPT ![l] = TRUE] /\ cons' = To(cons, l, "out")
  /\ inited' = (inited /\ l # "bt")
  /\ UNCHANGED <<stopWriting, exit, events, sems, cs, counts, prod, buf, spent, moved, epoch>>

----------------------------------------------------------------------------
\* HashThreadFunc and BtThreadFunc, for the writer of link l.

CanStart(l) ==
  /\ prod[l] = "wait" /\ canStart[l] /\ prod' = To(prod, l, "signal")
  /\ canStart' = [canStart EXCEPT ![l] = FALSE]
  /\ made' = [made EXCEPT ![l] = 0]
  /\ UNCHANGED <<flags, wasStarted, wasStopped, sems, cs, numProcessed, myNumBlocks, cons, buf,
                 hidden>>

Signal(l) ==
  /\ prod[l] = "signal" /\ prod' = To(prod, l, "head")
  /\ wasStarted' = [wasStarted EXCEPT ![l] = TRUE]
  /\ UNCHANGED <<flags, canStart, wasStopped, sems, cs, counts, cons, buf, hidden>>

Exit(l) ==
  /\ prod[l] = "head" /\ exit[l] /\ prod' = To(prod, l, "gone")
  /\ UNCHANGED <<flags, events, sems, cs, counts, cons, buf, hidden>>

\* The writer sees stopWriting; the bt thread stops its own writer first.
SeeStopUncounted(l) ==
  /\ prod[l] = "head" /\ ~exit[l] /\ stopWriting[l] /\ prod' = To(prod, l, "stopping")
  /\ cons' = IF l = "bt" THEN To(cons, "hash", "stop") ELSE cons
  /\ UNCHANGED <<flags, events, sems, cs, counts, buf, hidden>>
SeeStop(l) ==
  /\ prod[l] = "head" /\ ~exit[l] /\ stopWriting[l] /\ prod' = To(prod, l, "stopping")
  /\ numProcessed' = [numProcessed EXCEPT ![l] = made[l]]
  /\ cons' = IF l = "bt" THEN To(cons, "hash", "stop") ELSE cons
  /\ UNCHANGED <<flags, events, sems, cs, myNumBlocks, made, buf, hidden>>

TellStopped(l) ==
  /\ prod[l] = "stopping" /\ (l = "bt" => cons["hash"] = "out") /\ prod' = To(prod, l, "wait")
  /\ wasStopped' = [wasStopped EXCEPT ![l] = TRUE]
  /\ UNCHANGED <<flags, canStart, wasStarted, sems, cs, counts, cons, buf, hidden>>

GoOn(l) ==
  /\ prod[l] = "head" /\ ~exit[l] /\ ~stopWriting[l] /\ prod' = To(prod, l, "take")
  /\ UNCHANGED <<flags, events, sems, cs, counts, cons, buf, hidden>>

\* A free slot is there; from here on it is written.
Claim(l) ==
  /\ prod[l] = "take" /\ freeSem[l] > 0 /\ prod' = To(prod, l, "fill")
  /\ freeSem' = [freeSem EXCEPT ![l] = @ - 1]
  /\ buf' = [buf EXCEPT ![l][Slot(l, made[l])] = Unfinished]
  /\ cons' = IF l = "bt" THEN To(cons, "hash", "fill") ELSE cons
  /\ UNCHANGED <<flags, events, filledSem, cs, counts, hidden>>

Finish(l) ==
  /\ buf' = [buf EXCEPT ![l][Slot(l, made[l])] = Block(epoch, made[l])]
  /\ made' = [made EXCEPT ![l] = @ + 1]
  /\ prod' = To(prod, l, "post")

Post(l) ==
  /\ prod[l] = "post" /\ prod' = To(prod, l, "head")
  /\ filledSem' = Release(filledSem, l)
  /\ UNCHANGED <<flags, events, freeSem, cs, counts, cons, buf, hidden>>

\* The hash thread fills its block in one go.
FillHash ==
  /\ prod["hash"] = "fill" /\ Finish("hash") /\ moved' = FALSE
  /\ UNCHANGED <<flags, events, sems, cs, numProcessed, myNumBlocks, cons, spent, inited, epoch>>

\* Before a block it may have to move the window, with both critical sections.
NeedMove ==
  /\ prod["hash"] = "head" /\ ~exit["hash"] /\ ~stopWriting["hash"] /\ ~moved
  /\ prod' = To(prod, "hash", "lockBt")
  /\ UNCHANGED <<flags, events, sems, cs, counts, cons, buf, hidden>>

LockBtAnyway ==
  /\ prod["hash"] = "lockBt" /\ prod' = To(prod, "hash", "lockHash")
  /\ UNCHANGED <<flags, events, sems, cs, counts, cons, buf, hidden>>
LockBt ==
  /\ prod["hash"] = "lockBt" /\ cs["bt"] = "nobody" /\ prod' = To(prod, "hash", "lockHash")
  /\ cs' = [cs EXCEPT !["bt"] = "mover"]
  /\ UNCHANGED <<flags, events, sems, counts, cons, buf, hidden>>

LockHash ==
  /\ prod["hash"] = "lockHash" /\ cs["hash"] = "nobody" /\ prod' = To(prod, "hash", "moving")
  /\ cs' = [cs EXCEPT !["hash"] = "mover"]
  /\ UNCHANGED <<flags, events, sems, counts, cons, buf, hidden>>

LeaveBt ==
  /\ prod["hash"] = "moving" /\ prod' = To(prod, "hash", "moved")
  /\ cs' = [cs EXCEPT !["bt"] = "nobody"]
  /\ UNCHANGED <<flags, events, sems, counts, cons, buf, hidden>>

LeaveHash ==
  /\ prod["hash"] = "moved" /\ prod' = To(prod, "hash", "head") /\ moved' = TRUE
  /\ cs' = [cs EXCEPT !["hash"] = "nobody"]
  /\ UNCHANGED <<flags, events, sems, counts, cons, buf, spent, inited, epoch>>

----------------------------------------------------------------------------
\* BtFillBlock and BtGetMatches: the bt thread as the reader of the hash link.

FillBlock ==
  /\ cons["hash"] = "fill" /\ cons' = To(cons, "hash", "match")
  /\ IF needStart["hash"] THEN UNCHANGED cs ELSE Enter("hash")
  /\ UNCHANGED <<flags, events, sems, counts, prod, buf, hidden>>

\* The matches of some heads are found.  The block is full while heads are left,
\* or the heads are spent, in which case it may be full at the same time.
Match ==
  /\ cons["hash"] = "match" /\ ~spent
  /\ \/ spent' = FALSE /\ cons' = To(cons, "hash", "full")
     \/ /\ spent' = TRUE /\ numProcessed["hash"] < MaxHash
        /\ \E place \in {"match", "full"} : cons' = To(cons, "hash", place)
  /\ UNCHANGED <<flags, events, sems, cs, counts, prod, buf, moved, inited, epoch>>

NextHash ==
  /\ cons["hash"] = "match" /\ spent /\ cons' = To(cons, "hash", "next")
  /\ UNCHANGED <<flags, events, sems, cs, counts, prod, buf, hidden>>

FilledBlock ==
  /\ cons["hash"] = "full" /\ cons' = To(cons, "hash", "out")
  /\ cs' = IF needStart["hash"] THEN cs ELSE [cs EXCEPT !["hash"] = "nobody"]
  /\ Finish("bt")
  /\ UNCHANGED <<flags, events, sems, numProcessed, myNumBlocks, hidden>>

----------------------------------------------------------------------------
\* The client: LzmaEnc.c.

Created == \A l \in Link : prod[l] # "none"

\* MtSync_Create2, first for the hash link; where it fails the client stops here.
Create(l) ==
  /\ cons["bt"] = "out" /\ prod[l] = "none" /\ (l = "bt" => prod["hash"] # "none")
  /\ cs' = [cs EXCEPT ![l] = "nobody"]
  /\ canStart' = [canStart EXCEPT ![l] = FALSE]
  /\ wasStarted' = [wasStarted EXCEPT ![l] = FALSE]
  /\ wasStopped' = [wasStopped EXCEPT ![l] = FALSE]
  /\ freeSem' = [freeSem EXCEPT ![l] = N(l)]
  /\ filledSem' = [filledSem EXCEPT ![l] = 0]
  /\ needStart' = [needStart EXCEPT ![l] = TRUE]
  /\ prod' = To(prod, l, "wait")
  /\ UNCHANGED <<stopWriting, exit, counts, cons, buf, hidden>>

\* MatchFinderMt_Init: a new stream, before the first block is asked for.
InitStreamUnread ==
  /\ cons["bt"] = "out" /\ Created /\ ~inited /\ epoch < MaxEpoch
  /\ inited' = TRUE /\ epoch' = epoch + 1
  /\ UNCHANGED <<flags, events, sems, cs, counts, prod, cons, buf, spent, moved>>
InitStream ==
  /\ cons["bt"] = "out" /\ Created /\ ~inited /\ epoch < MaxEpoch
  /\ inited' = TRUE /\ spent' = TRUE /\ epoch' = epoch + 1
  /\ UNCHANGED <<flags, events, sems, cs, counts, prod, cons, buf, moved>>

\* GET_NEXT_BLOCK_IF_REQUIRED: the client has gone through its block.
GetNextBlock ==
  /\ inited
  /\ \/ cons["bt"] = "out"
     \/ cons["bt"] = "using" /\ numProcessed["bt"] < MaxBlock
  /\ cons' = To(cons, "bt", "next")
  /\ UNCHANGED <<flags, events, sems, cs, counts, prod, buf, hidden>>

\* LzmaEnc_Finish: MatchFinderMt_ReleaseStream, at any point of the stream, and also
\* when no block was asked for.
ReleaseStream ==
  /\ cons["bt"] \in {"out", "using"} /\ Created /\ cons' = To(cons, "bt", "stop")
  /\ UNCHANGED <<flags, events, sems, cs, counts, prod, buf, hidden>>

\* MatchFinderMt_Destruct: MtSync_Destruct, first of the hash link.  Both links have
\* stopped, or were never started; each thread is told to exit and waited for.
TellExit(l, place) ==
  /\ exit' = [exit EXCEPT ![l] = TRUE]
  /\ canStart' = [canStart EXCEPT ![l] = needStart[l]]
  /\ cons' = To(cons, "bt", place)
  /\ UNCHANGED <<needStart, stopWriting, wasStarted, wasStopped, sems, cs, counts, prod, buf,
                 hidden>>
DestructHash == cons["bt"] = "out" /\ prod["hash"] # "none" /\ TellExit("hash", "joinHash")

\* Thread_Wait, Thread_Close and the closing of the events and semaphores.
Joined(l) ==
  /\ prod[l] = "gone" /\ prod' = To(prod, l, "none")
  /\ UNCHANGED <<flags, events, sems, cs, counts, buf, spent, moved, epoch>>
JoinHash ==
  /\ cons["bt"] = "joinHash" /\ Joined("hash") /\ inited' = FALSE
  /\ cons' = To(cons, "bt", IF prod["bt"] = "none" THEN "out" ELSE "exitBt")
DestructBt == cons["bt"] = "exitBt" /\ TellExit("bt", "joinBt")
JoinBt ==
  /\ cons["bt"] = "joinBt" /\ Joined("bt") /\ UNCHANGED inited
  /\ cons' = To(cons, "bt", "out")

----------------------------------------------------------------------------
Reader(l) ==
  \/ Start(l) \/ Started(l) \/ Next(l) \/ GiveBack(l) \/ Take(l)
  \/ Stop(l) \/ Leave(l) \/ Wake(l) \/ Await(l) \/ Drain(l) \/ Drained(l) \/ Stopped(l)
Writer(l) ==
  \/ CanStart(l) \/ Signal(l) \/ Exit(l) \/ SeeStop(l) \/ TellStopped(l)
  \/ GoOn(l) \/ Claim(l) \/ Post(l)

HashThread ==
  Writer("hash") \/ FillHash \/ NeedMove \/ LockBt \/ LockHash \/ LeaveBt \/ LeaveHash
BtThread ==
  Writer("bt") \/ Reader("hash") \/ EnterHash \/ FillBlock \/ Match \/ NextHash \/ FilledBlock
ClientCall == Reader("bt") \/ EnterBt \/ JoinHash \/ DestructBt \/ JoinBt
Client ==
  ClientCall \/ (\E l \in Link : Create(l)) \/ InitStream \/ GetNextBlock \/ ReleaseStream
             \/ DestructHash

MtNext == HashThread \/ BtThread \/ Client
MtSpec == MtInit /\ [][MtNext]_vars

\* The system runs every thread; the client is not made to call.
MtFairSpec == MtSpec /\ WF_vars(HashThread) /\ WF_vars(BtThread) /\ WF_vars(ClientCall)

----------------------------------------------------------------------------
\* Properties.

Place == {"out", "next", "starting", "free", "take", "enter", "using", "fill", "match", "full",
          "stop", "leave", "wake", "await", "drain", "drained", "joinHash", "exitBt", "joinBt"}
WriterPlace == {"none", "wait", "signal", "head", "take", "fill", "post", "stopping", "gone",
                "lockBt", "lockHash", "moving", "moved"}

FlagsOK ==
  /\ needStart \in [Link -> BOOLEAN] /\ stopWriting \in [Link -> BOOLEAN]
  /\ exit \in [Link -> BOOLEAN] /\ canStart \in [Link -> BOOLEAN]
  /\ wasStarted \in [Link -> BOOLEAN] /\ wasStopped \in [Link -> BOOLEAN]
  /\ spent \in BOOLEAN /\ moved \in BOOLEAN /\ inited \in BOOLEAN
PlacesOK ==
  /\ cs \in [Link -> {"nobody", "reader", "mover"}]
  /\ prod \in [Link -> WriterPlace] /\ cons \in [Link -> Place]
  /\ prod["bt"] \notin {"lockBt", "lockHash", "moving", "moved"}
CountsOK ==
  /\ numProcessed \in [Link -> Nat] /\ myNumBlocks \in [Link -> Nat] /\ made \in [Link -> Nat]
SemsOK ==
  /\ freeSem \in [Link -> Nat] /\ filledSem \in [Link -> Nat]
  /\ \A l \in Link : freeSem[l] <= N(l) /\ filledSem[l] <= N(l)
BufOK ==
  /\ epoch \in 0..MaxEpoch /\ buf = [l \in Link |-> buf[l]]
  /\ \A l \in Link : buf[l] \in [0..(N(l) - 1) -> [epoch : 0..MaxEpoch, at : Nat]]

\* Type correctness; the semaphores stay within their bounds, and only the hash thread
\* moves the window.
MtTypeOK == FlagsOK /\ PlacesOK /\ CountsOK /\ SemsOK /\ BufOK

\* Whenever the client, or the bt thread, uses block number k of a stream, the slot it
\* reads holds block number k of this stream: none is skipped, seen twice, written over
\* while it is read, or left over from an earlier stream.
Using(l) == IF l = "bt" THEN cons[l] = "using" ELSE cons[l] = "match" /\ ~spent
InOrder ==
  \A l \in Link : Using(l) =>
    buf[l][Slot(l, numProcessed[l] - 1)] = Block(epoch, numProcessed[l] - 1)

\* While the hash thread moves the window, neither the client nor the bt thread looks
\* into it (the two critical sections, of which the bt thread's first fill takes none).
WindowStill == prod["hash"] = "moving" => ~Using("bt") /\ cons["hash"] # "match"

\* No release of a semaphore fails: the code ignores it, and a token would be gone.
NoReleaseLost ==
  \A l \in Link : /\ cons[l] \in {"free", "wake", "drained"} => freeSem[l] < N(l)
                  /\ prod[l] = "post" => filledSem[l] < N(l)

\* When MatchFinderMt_ReleaseStream has returned, whatever either thread was doing,
\* both threads wait to be started and every semaphore and event is as at first.
AtRest ==
  cons["bt"] = "out" =>
    \A l \in Link : prod[l] # "none" =>
      /\ needStart[l] /\ prod[l] = "wait" /\ cons["hash"] = "out"
      /\ freeSem[l] = N(l) /\ filledSem[l] = 0 /\ cs[l] = "nobody"
      /\ ~canStart[l] /\ ~wasStarted[l] /\ ~wasStopped[l]

\* Every call of the client returns: the block it waits for comes, StopWriting finds the
\* writer stopped, and the threads it joins end, however they are scheduled.
CallsReturn == cons["bt"] \notin {"out", "using"} ~> cons["bt"] \in {"out", "using"}

----------------------------------------------------------------------------
\* The inductive invariant.

Running == {"head", "take", "fill", "post", "lockBt", "lockHash", "moving", "moved"}
Ending  == {"leave", "wake", "await", "drain", "drained"}
One(b) == IF b THEN 1 ELSE 0

\* Blocks the reader has taken and blocks the writer has posted, in this stream; the
\* reader holds the last one it took, the writer has claimed the slot of the next.
Taken(l) == IF cons[l] \in {"starting", "take", "free"} THEN numProcessed[l] - 1
            ELSE IF cons[l] \in Ending THEN myNumBlocks[l] ELSE numProcessed[l]
Posted(l) == made[l] - One(prod[l] = "post")
Holds(l) == cons[l] \in {"out", "fill", "match", "full", "enter", "using", "next", "free",
                        "stop", "leave", "wake", "drained"}
Claims(l) == prod[l] \in {"fill", "post"}

\* Where the reader of each link may be, by where the bt thread and the client are.
PlaceInv ==
  /\ prod["bt"] \notin {"fill", "stopping"} => cons["hash"] = "out"
  /\ prod["bt"] = "fill" =>
       cons["hash"] \in {"fill", "match", "full", "next", "starting", "free", "take", "enter"}
  /\ prod["bt"] = "stopping" => cons["hash"] \in Ending \cup {"stop", "out"}
  /\ prod["bt"] = "stopping" /\ cons["hash"] = "out" => needStart["hash"]
  /\ cons["bt"] \in {"out", "joinHash", "exitBt", "joinBt"} => needStart["bt"]
  /\ cons["bt"] \in {"starting", "free", "take", "enter", "using"} \cup Ending => ~needStart["bt"]
  /\ cons["hash"] \in {"starting", "free", "take", "enter", "full"} \cup Ending => ~needStart["hash"]
  /\ needStart["bt"] => needStart["hash"]
  /\ prod["bt"] \in {"none", "wait", "signal", "gone"} => needStart["hash"]
  /\ prod["bt"] = "post" => ~needStart["hash"]

\* Which threads there are.
ThreadInv ==
  /\ cons["bt"] = "out" => prod["hash"] \in {"none", "wait"} /\ prod["bt"] \in {"none", "wait"}
  /\ prod["hash"] = "none" => cons["bt"] \in {"out", "exitBt", "joinBt"}
  /\ prod["bt"] = "none" => cons["bt"] \in {"out", "joinHash"}
  /\ cons["bt"] \in {"exitBt", "joinBt"} => prod["hash"] = "none"
  /\ prod["hash"] = "none" /\ cons["bt"] = "out" => prod["bt"] = "none"
  /\ inited => prod["hash"] # "none" /\ prod["bt"] # "none"

\* A link that is stopped, or was not started yet.
Exiting(l) == cons["bt"] = IF l = "hash" THEN "joinHash" ELSE "joinBt"
Quiet(l) ==
  /\ freeSem[l] = N(l) /\ filledSem[l] = 0
  /\ Exiting(l) => exit[l] /\ prod[l] \in {"wait", "signal", "head", "gone"}
  /\ ~Exiting(l) => prod[l] = "wait" /\ ~canStart[l] /\ ~wasStarted[l] /\ ~wasStopped[l]

\* A link at work: the handshakes at the start and at the end.
Handshake(l) ==
  /\ prod[l] \in Running \cup {"wait", "signal", "stopping"} /\ ~exit[l]
  /\ (stopWriting[l] <=> cons[l] \in Ending)
  /\ IF cons[l] = "starting"
     THEN /\ prod[l] # "stopping" /\ ~wasStopped[l]
          /\ (canStart[l] <=> prod[l] = "wait")
          /\ (wasStarted[l] <=> prod[l] \in Running)
     ELSE /\ prod[l] # "signal" /\ ~canStart[l] /\ ~wasStarted[l]
          /\ prod[l] = "stopping" => cons[l] \in {"leave", "wake", "await"}
          /\ prod[l] = "wait" => cons[l] \in Ending
          /\ (wasStopped[l] <=> prod[l] = "wait" /\ cons[l] \in {"leave", "wake", "await"})
          /\ cons[l] \in {"drain", "drained"} => prod[l] = "wait"

\* Its tokens: no block and no slot is lost or doubled.
Tokens(l) ==
  /\ numProcessed[l] >= 1
  /\ freeSem[l] + filledSem[l] + One(Holds(l)) + One(Claims(l)) = N(l)
  /\ cons[l] = "starting" /\ prod[l] = "wait" => filledSem[l] = 0 /\ numProcessed[l] = 1
  /\ ~(cons[l] = "starting" /\ prod[l] = "wait") => filledSem[l] = Posted(l) - Taken(l)
  /\ cons[l] \in Ending =>
       numProcessed[l] = IF prod[l] \in {"stopping", "wait"} THEN made[l] ELSE myNumBlocks[l]

\* The blocks that were written and are still to be used are in their slots.
Slots(l) ==
  cons[l] \notin Ending /\ ~(cons[l] = "starting" /\ prod[l] = "wait") =>
    \A i \in (numProcessed[l] - 1)..(made[l] - 1) :
      buf[l][Slot(l, i)] = Block(epoch, i)

LinkInv(l) ==
  /\ needStart[l] /\ prod[l] # "none" => Quiet(l)
  /\ ~needStart[l] => Handshake(l) /\ Tokens(l) /\ Slots(l)

\* The critical sections; the bt thread's first fill has none, and starts the hash thread.
SectionInv ==
  /\ cs["bt"] = "reader" <=> ~needStart["bt"] /\ cons["bt"] \in {"using", "next", "stop", "leave"}
  /\ cs["hash"] = "reader" <=> ~needStart["hash"] /\ cons["hash"] \in {"match", "full", "next"}
  /\ cs["bt"] = "mover" <=> prod["hash"] \in {"lockHash", "moving"}
  /\ cs["hash"] = "mover" <=> prod["hash"] \in {"moving", "moved"}

\* A new stream begins without a hash block of the last one.
SpentInv ==
  /\ cons["bt"] = "next" => inited
  /\ needStart["bt"] /\ inited => spent
  /\ ~needStart["bt"] /\ needStart["hash"] /\ prod["bt"] \in {"signal", "head", "take", "fill"} => spent
  /\ cons["bt"] = "starting" /\ needStart["hash"] => spent

MtInv == PlaceInv /\ ThreadInv /\ (\A l \in Link : LinkInv(l)) /\ SectionInv /\ SpentInv

=============================================================================
