--------------------------- MODULE LzFindMtProofs ---------------------------
(***************************************************************************)
(* Proofs about the multithreaded match finder, for any number of slots in *)
(* its two buffers, any number of blocks and any number of streams.  MtInv *)
(* says where each thread may be, and what the flags, the events, the      *)
(* tokens and the slots of a link are then; one lemma for each action      *)
(* shows that it is kept.  That no slot is claimed while it is still to be *)
(* read (Room) is arithmetic: two blocks less than N apart have different  *)
(* slots, and the tokens leave no room for more.                           *)
(***************************************************************************)
EXTENDS LzFindMt, TLAPS

USE DEF Link, To, flags, events, sems, hidden

\* The sizes are positive.
LEMMA SizeFact == \A l \in Link : N(l) \in Nat \ {0}
  BY LzFindMtBounds DEF N

\* A block's slot is one of the buffer's.
LEMMA SlotRange == ASSUME NEW l \in Link, NEW i \in Nat PROVE Slot(l, i) \in 0..(N(l) - 1)
  BY SizeFact DEF Slot

\* The initial states have the types.
LEMMA InitTypes == MtInit => MtTypeOK
<1> SUFFICES ASSUME MtInit PROVE MtTypeOK OBVIOUS
<1>1. FlagsOK BY DEF MtInit, FlagsOK
<1>2. PlacesOK BY DEF MtInit, PlacesOK, Place, WriterPlace
<1>3. CountsOK BY DEF MtInit, CountsOK
<1>4. SemsOK BY SizeFact DEF MtInit, SemsOK
<1>5. BufOK
  <2>1. epoch \in 0..MaxEpoch BY LzFindMtBounds DEF MtInit
  <2>2. Unfinished \in [epoch : 0..MaxEpoch, at : Nat] BY LzFindMtBounds DEF Unfinished, Block
  <2>3. buf = [l \in Link |-> [i \in 0..(N(l) - 1) |-> Unfinished]] BY DEF MtInit
  <2>4. buf = [l \in Link |-> buf[l]] BY <2>3
  <2> QED BY <2>1, <2>2, <2>3, <2>4 DEF BufOK
<1> QED BY <1>1, <1>2, <1>3, <1>4, <1>5 DEF MtTypeOK

\* Every step keeps the types.
LEMMA TypeStep == MtTypeOK /\ [MtNext]_vars => MtTypeOK'
<1> SUFFICES ASSUME MtTypeOK, [MtNext]_vars PROVE MtTypeOK' OBVIOUS
<1> USE DEF MtTypeOK
<1>1. ASSUME NEW l \in Link, Start(l) PROVE MtTypeOK'
  <2>1. FlagsOK' BY <1>1 DEF FlagsOK, Start
  <2>5. PlacesOK' BY <1>1 DEF PlacesOK, Place, Start
  <2>2. CountsOK' BY <1>1 DEF CountsOK, Start
  <2>3. SemsOK' BY <1>1, SizeFact DEF SemsOK, Start
  <2>4. BufOK' BY <1>1 DEF BufOK, Start
  <2> QED BY <2>1, <2>2, <2>3, <2>4, <2>5
<1>2. ASSUME NEW l \in Link, Started(l) PROVE MtTypeOK'
  <2>1. FlagsOK' BY <1>2 DEF FlagsOK, Started
  <2>5. PlacesOK' BY <1>2 DEF PlacesOK, Place, Started
  <2>2. CountsOK' BY <1>2 DEF CountsOK, counts, Started
  <2>3. SemsOK' BY <1>2, SizeFact DEF SemsOK, Started
  <2>4. BufOK' BY <1>2 DEF BufOK, Started
  <2> QED BY <2>1, <2>2, <2>3, <2>4, <2>5
<1>3. ASSUME NEW l \in Link, Next(l) PROVE MtTypeOK'
  <2>1. FlagsOK' BY <1>3 DEF FlagsOK, Next
  <2>5. PlacesOK' BY <1>3 DEF PlacesOK, Place, Next
  <2>2. CountsOK' BY <1>3 DEF CountsOK, Next
  <2>3. SemsOK' BY <1>3, SizeFact DEF SemsOK, Next
  <2>4. BufOK' BY <1>3 DEF BufOK, Next
  <2> QED BY <2>1, <2>2, <2>3, <2>4, <2>5
<1>4. ASSUME NEW l \in Link, GiveBack(l) PROVE MtTypeOK'
  <2>1. FlagsOK' BY <1>4 DEF FlagsOK, GiveBack
  <2>5. PlacesOK' BY <1>4 DEF PlacesOK, Place, GiveBack
  <2>2. CountsOK' BY <1>4 DEF CountsOK, counts, GiveBack
  <2>3. SemsOK' BY <1>4, SizeFact DEF SemsOK, GiveBack, Release
  <2>4. BufOK' BY <1>4 DEF BufOK, GiveBack
  <2> QED BY <2>1, <2>2, <2>3, <2>4, <2>5
<1>5. ASSUME NEW l \in Link, Take(l) PROVE MtTypeOK'
  <2>1. FlagsOK' BY <1>5 DEF FlagsOK, Take
  <2>5. PlacesOK' BY <1>5 DEF PlacesOK, Place, Take
  <2>2. CountsOK' BY <1>5 DEF CountsOK, counts, Take
  <2>3. SemsOK' BY <1>5, SizeFact DEF SemsOK, Take
  <2>4. BufOK' BY <1>5 DEF BufOK, Take
  <2> QED BY <2>1, <2>2, <2>3, <2>4, <2>5
<1>6. ASSUME NEW l \in Link, Stop(l) PROVE MtTypeOK'
  <2>1. FlagsOK' BY <1>6 DEF FlagsOK, Stop
  <2>5. PlacesOK' BY <1>6 DEF PlacesOK, Place, Stop
  <2>2. CountsOK' BY <1>6 DEF CountsOK, Stop
  <2>3. SemsOK' BY <1>6, SizeFact DEF SemsOK, Stop
  <2>4. BufOK' BY <1>6 DEF BufOK, Stop
  <2> QED BY <2>1, <2>2, <2>3, <2>4, <2>5
<1>7. ASSUME NEW l \in Link, Leave(l) PROVE MtTypeOK'
  <2>1. FlagsOK' BY <1>7 DEF FlagsOK, Leave
  <2>5. PlacesOK' BY <1>7 DEF PlacesOK, Place, Leave
  <2>2. CountsOK' BY <1>7 DEF CountsOK, counts, Leave
  <2>3. SemsOK' BY <1>7, SizeFact DEF SemsOK, Leave
  <2>4. BufOK' BY <1>7 DEF BufOK, Leave
  <2> QED BY <2>1, <2>2, <2>3, <2>4, <2>5
<1>8. ASSUME NEW l \in Link, Wake(l) PROVE MtTypeOK'
  <2>1. FlagsOK' BY <1>8 DEF FlagsOK, Wake
  <2>5. PlacesOK' BY <1>8 DEF PlacesOK, Place, Wake
  <2>2. CountsOK' BY <1>8 DEF CountsOK, counts, Wake
  <2>3. SemsOK' BY <1>8, SizeFact DEF SemsOK, Wake, Release
  <2>4. BufOK' BY <1>8 DEF BufOK, Wake
  <2> QED BY <2>1, <2>2, <2>3, <2>4, <2>5
<1>9. ASSUME NEW l \in Link, Await(l) PROVE MtTypeOK'
  <2>1. FlagsOK' BY <1>9 DEF FlagsOK, Await
  <2>5. PlacesOK' BY <1>9 DEF PlacesOK, Place, Await
  <2>2. CountsOK' BY <1>9 DEF CountsOK, counts, Await
  <2>3. SemsOK' BY <1>9, SizeFact DEF SemsOK, Await
  <2>4. BufOK' BY <1>9 DEF BufOK, Await
  <2> QED BY <2>1, <2>2, <2>3, <2>4, <2>5
<1>10. ASSUME NEW l \in Link, Drain(l) PROVE MtTypeOK'
  <2>1. FlagsOK' BY <1>10 DEF FlagsOK, Drain
  <2>5. PlacesOK' BY <1>10 DEF PlacesOK, Place, Drain
  <2>2. CountsOK' BY <1>10 DEF CountsOK, Drain
  <2>3. SemsOK' BY <1>10, SizeFact DEF SemsOK, Drain
  <2>4. BufOK' BY <1>10 DEF BufOK, Drain
  <2> QED BY <2>1, <2>2, <2>3, <2>4, <2>5
<1>11. ASSUME NEW l \in Link, Drained(l) PROVE MtTypeOK'
  <2>1. FlagsOK' BY <1>11 DEF FlagsOK, Drained
  <2>5. PlacesOK' BY <1>11 DEF PlacesOK, Place, Drained
  <2>2. CountsOK' BY <1>11 DEF CountsOK, counts, Drained
  <2>3. SemsOK' BY <1>11, SizeFact DEF SemsOK, Drained, Release
  <2>4. BufOK' BY <1>11 DEF BufOK, Drained
  <2> QED BY <2>1, <2>2, <2>3, <2>4, <2>5
<1>12. ASSUME NEW l \in Link, Stopped(l) PROVE MtTypeOK'
  <2>1. FlagsOK' BY <1>12 DEF FlagsOK, Stopped
  <2>5. PlacesOK' BY <1>12 DEF PlacesOK, Place, Stopped
  <2>2. CountsOK' BY <1>12 DEF CountsOK, counts, Stopped
  <2>3. SemsOK' BY <1>12, SizeFact DEF SemsOK, Stopped
  <2>4. BufOK' BY <1>12 DEF BufOK, Stopped
  <2> QED BY <2>1, <2>2, <2>3, <2>4, <2>5
<1>13. ASSUME NEW l \in Link, CanStart(l) PROVE MtTypeOK'
  <2>1. FlagsOK' BY <1>13 DEF FlagsOK, CanStart
  <2>5. PlacesOK' BY <1>13 DEF PlacesOK, WriterPlace, CanStart
  <2>2. CountsOK' BY <1>13 DEF CountsOK, CanStart
  <2>3. SemsOK' BY <1>13, SizeFact DEF SemsOK, CanStart
  <2>4. BufOK' BY <1>13 DEF BufOK, CanStart
  <2> QED BY <2>1, <2>2, <2>3, <2>4, <2>5
<1>14. ASSUME NEW l \in Link, Signal(l) PROVE MtTypeOK'
  <2>1. FlagsOK' BY <1>14 DEF FlagsOK, Signal
  <2>5. PlacesOK' BY <1>14 DEF PlacesOK, WriterPlace, Signal
  <2>2. CountsOK' BY <1>14 DEF CountsOK, counts, Signal
  <2>3. SemsOK' BY <1>14, SizeFact DEF SemsOK, Signal
  <2>4. BufOK' BY <1>14 DEF BufOK, Signal
  <2> QED BY <2>1, <2>2, <2>3, <2>4, <2>5
<1>15. ASSUME NEW l \in Link, Exit(l) PROVE MtTypeOK'
  <2>1. FlagsOK' BY <1>15 DEF FlagsOK, Exit
  <2>5. PlacesOK' BY <1>15 DEF PlacesOK, WriterPlace, Exit
  <2>2. CountsOK' BY <1>15 DEF CountsOK, counts, Exit
  <2>3. SemsOK' BY <1>15, SizeFact DEF SemsOK, Exit
  <2>4. BufOK' BY <1>15 DEF BufOK, Exit
  <2> QED BY <2>1, <2>2, <2>3, <2>4, <2>5
<1>16. ASSUME NEW l \in Link, SeeStop(l) PROVE MtTypeOK'
  <2>1. FlagsOK' BY <1>16 DEF FlagsOK, SeeStop
  <2>5. PlacesOK' BY <1>16 DEF PlacesOK, Place, WriterPlace, SeeStop
  <2>2. CountsOK' BY <1>16 DEF CountsOK, SeeStop
  <2>3. SemsOK' BY <1>16, SizeFact DEF SemsOK, SeeStop
  <2>4. BufOK' BY <1>16 DEF BufOK, SeeStop
  <2> QED BY <2>1, <2>2, <2>3, <2>4, <2>5
<1>17. ASSUME NEW l \in Link, TellStopped(l) PROVE MtTypeOK'
  <2>1. FlagsOK' BY <1>17 DEF FlagsOK, TellStopped
  <2>5. PlacesOK' BY <1>17 DEF PlacesOK, WriterPlace, TellStopped
  <2>2. CountsOK' BY <1>17 DEF CountsOK, counts, TellStopped
  <2>3. SemsOK' BY <1>17, SizeFact DEF SemsOK, TellStopped
  <2>4. BufOK' BY <1>17 DEF BufOK, TellStopped
  <2> QED BY <2>1, <2>2, <2>3, <2>4, <2>5
<1>18. ASSUME NEW l \in Link, GoOn(l) PROVE MtTypeOK'
  <2>1. FlagsOK' BY <1>18 DEF FlagsOK, GoOn
  <2>5. PlacesOK' BY <1>18 DEF PlacesOK, WriterPlace, GoOn
  <2>2. CountsOK' BY <1>18 DEF CountsOK, counts, GoOn
  <2>3. SemsOK' BY <1>18, SizeFact DEF SemsOK, GoOn
  <2>4. BufOK' BY <1>18 DEF BufOK, GoOn
  <2> QED BY <2>1, <2>2, <2>3, <2>4, <2>5
<1>19. ASSUME NEW l \in Link, Claim(l) PROVE MtTypeOK'
  <2>1. FlagsOK' BY <1>19 DEF FlagsOK, Claim
  <2>5. PlacesOK' BY <1>19 DEF PlacesOK, Place, WriterPlace, Claim
  <2>2. CountsOK' BY <1>19 DEF CountsOK, counts, Claim
  <2>3. SemsOK' BY <1>19, SizeFact DEF SemsOK, Claim
  <2>4. BufOK'
    <3>1. l \in Link /\ made[l] \in Nat BY DEF CountsOK
    <3>2. Slot(l, made[l]) \in 0..(N(l) - 1) BY <3>1, SlotRange
    <3>3. Unfinished \in [epoch : 0..MaxEpoch, at : Nat]
      BY LzFindMtBounds, <3>1 DEF Unfinished, Block
    <3>4. buf' = [buf EXCEPT ![l] = [buf[l] EXCEPT ![Slot(l, made[l])] = Unfinished]]
      BY <1>19, <3>1 DEF Claim
    <3>5. epoch' = epoch BY <1>19 DEF Claim
    <3> HIDE DEF MtTypeOK
    <3> QED BY <3>1, <3>2, <3>3, <3>4, <3>5 DEF BufOK, MtTypeOK
  <2> QED BY <2>1, <2>2, <2>3, <2>4, <2>5
<1>20. ASSUME NEW l \in Link, Post(l) PROVE MtTypeOK'
  <2>1. FlagsOK' BY <1>20 DEF FlagsOK, Post
  <2>5. PlacesOK' BY <1>20 DEF PlacesOK, WriterPlace, Post
  <2>2. CountsOK' BY <1>20 DEF CountsOK, counts, Post
  <2>3. SemsOK' BY <1>20, SizeFact DEF SemsOK, Post, Release
  <2>4. BufOK' BY <1>20 DEF BufOK, Post
  <2> QED BY <2>1, <2>2, <2>3, <2>4, <2>5
<1>21. ASSUME NEW l \in Link, Create(l) PROVE MtTypeOK'
  <2>1. FlagsOK' BY <1>21 DEF FlagsOK, Create
  <2>5. PlacesOK' BY <1>21 DEF PlacesOK, WriterPlace, Create
  <2>2. CountsOK' BY <1>21 DEF CountsOK, counts, Create
  <2>3. SemsOK' BY <1>21, SizeFact DEF SemsOK, Create
  <2>4. BufOK' BY <1>21 DEF BufOK, Create
  <2> QED BY <2>1, <2>2, <2>3, <2>4, <2>5
<1>22. CASE EnterBt
  <2>1. FlagsOK' BY <1>22 DEF FlagsOK, EnterBt
  <2>5. PlacesOK' BY <1>22 DEF PlacesOK, Place, EnterBt, Enter
  <2>2. CountsOK' BY <1>22 DEF CountsOK, counts, EnterBt
  <2>3. SemsOK' BY <1>22, SizeFact DEF SemsOK, EnterBt
  <2>4. BufOK' BY <1>22 DEF BufOK, EnterBt
  <2> QED BY <2>1, <2>2, <2>3, <2>4, <2>5
<1>23. CASE EnterHash
  <2>1. FlagsOK' BY <1>23 DEF FlagsOK, EnterHash
  <2>5. PlacesOK' BY <1>23 DEF PlacesOK, Place, EnterHash, Enter
  <2>2. CountsOK' BY <1>23 DEF CountsOK, counts, EnterHash
  <2>3. SemsOK' BY <1>23, SizeFact DEF SemsOK, EnterHash
  <2>4. BufOK' BY <1>23 DEF BufOK, EnterHash
  <2> QED BY <2>1, <2>2, <2>3, <2>4, <2>5
<1>24. CASE FillHash
  <2>1. FlagsOK' BY <1>24 DEF FlagsOK, FillHash
  <2>5. PlacesOK' BY <1>24 DEF PlacesOK, WriterPlace, FillHash, Finish
  <2>2. CountsOK' BY <1>24 DEF CountsOK, FillHash, Finish
  <2>3. SemsOK' BY <1>24, SizeFact DEF SemsOK, FillHash
  <2>4. BufOK'
    <3>1. "hash" \in Link /\ made["hash"] \in Nat BY DEF CountsOK
    <3>2. Slot("hash", made["hash"]) \in 0..(N("hash") - 1) BY <3>1, SlotRange
    <3>3. Block(epoch, made["hash"]) \in [epoch : 0..MaxEpoch, at : Nat]
      BY LzFindMtBounds, <3>1 DEF Block, BufOK
    <3>4. buf' = [buf EXCEPT !["hash"] = [buf["hash"] EXCEPT ![Slot("hash", made["hash"])] = Block(epoch, made["hash"])]]
      BY <1>24, <3>1 DEF FillHash, Finish
    <3>5. epoch' = epoch BY <1>24 DEF FillHash
    <3> HIDE DEF MtTypeOK
    <3> QED BY <3>1, <3>2, <3>3, <3>4, <3>5 DEF BufOK, MtTypeOK
  <2> QED BY <2>1, <2>2, <2>3, <2>4, <2>5
<1>25. CASE NeedMove
  <2>1. FlagsOK' BY <1>25 DEF FlagsOK, NeedMove
  <2>5. PlacesOK' BY <1>25 DEF PlacesOK, WriterPlace, NeedMove
  <2>2. CountsOK' BY <1>25 DEF CountsOK, counts, NeedMove
  <2>3. SemsOK' BY <1>25, SizeFact DEF SemsOK, NeedMove
  <2>4. BufOK' BY <1>25 DEF BufOK, NeedMove
  <2> QED BY <2>1, <2>2, <2>3, <2>4, <2>5
<1>26. CASE LockBt
  <2>1. FlagsOK' BY <1>26 DEF FlagsOK, LockBt
  <2>5. PlacesOK' BY <1>26 DEF PlacesOK, WriterPlace, LockBt
  <2>2. CountsOK' BY <1>26 DEF CountsOK, counts, LockBt
  <2>3. SemsOK' BY <1>26, SizeFact DEF SemsOK, LockBt
  <2>4. BufOK' BY <1>26 DEF BufOK, LockBt
  <2> QED BY <2>1, <2>2, <2>3, <2>4, <2>5
<1>27. CASE LockHash
  <2>1. FlagsOK' BY <1>27 DEF FlagsOK, LockHash
  <2>5. PlacesOK' BY <1>27 DEF PlacesOK, WriterPlace, LockHash
  <2>2. CountsOK' BY <1>27 DEF CountsOK, counts, LockHash
  <2>3. SemsOK' BY <1>27, SizeFact DEF SemsOK, LockHash
  <2>4. BufOK' BY <1>27 DEF BufOK, LockHash
  <2> QED BY <2>1, <2>2, <2>3, <2>4, <2>5
<1>28. CASE LeaveBt
  <2>1. FlagsOK' BY <1>28 DEF FlagsOK, LeaveBt
  <2>5. PlacesOK' BY <1>28 DEF PlacesOK, WriterPlace, LeaveBt
  <2>2. CountsOK' BY <1>28 DEF CountsOK, counts, LeaveBt
  <2>3. SemsOK' BY <1>28, SizeFact DEF SemsOK, LeaveBt
  <2>4. BufOK' BY <1>28 DEF BufOK, LeaveBt
  <2> QED BY <2>1, <2>2, <2>3, <2>4, <2>5
<1>29. CASE LeaveHash
  <2>1. FlagsOK' BY <1>29 DEF FlagsOK, LeaveHash
  <2>5. PlacesOK' BY <1>29 DEF PlacesOK, WriterPlace, LeaveHash
  <2>2. CountsOK' BY <1>29 DEF CountsOK, counts, LeaveHash
  <2>3. SemsOK' BY <1>29, SizeFact DEF SemsOK, LeaveHash
  <2>4. BufOK' BY <1>29 DEF BufOK, LeaveHash
  <2> QED BY <2>1, <2>2, <2>3, <2>4, <2>5
<1>30. CASE FillBlock
  <2>1. FlagsOK' BY <1>30 DEF FlagsOK, FillBlock
  <2>5. PlacesOK' BY <1>30 DEF PlacesOK, Place, FillBlock, Enter
  <2>2. CountsOK' BY <1>30 DEF CountsOK, counts, FillBlock
  <2>3. SemsOK' BY <1>30, SizeFact DEF SemsOK, FillBlock
  <2>4. BufOK' BY <1>30 DEF BufOK, FillBlock
  <2> QED BY <2>1, <2>2, <2>3, <2>4, <2>5
<1>31. CASE Match
  <2>1. FlagsOK' BY <1>31 DEF FlagsOK, Match
  <2>5. PlacesOK' BY <1>31 DEF PlacesOK, Place, Match
  <2>2. CountsOK' BY <1>31 DEF CountsOK, counts, Match
  <2>3. SemsOK' BY <1>31, SizeFact DEF SemsOK, Match
  <2>4. BufOK' BY <1>31 DEF BufOK, Match
  <2> QED BY <2>1, <2>2, <2>3, <2>4, <2>5
<1>32. CASE NextHash
  <2>1. FlagsOK' BY <1>32 DEF FlagsOK, NextHash
  <2>5. PlacesOK' BY <1>32 DEF PlacesOK, Place, NextHash
  <2>2. CountsOK' BY <1>32 DEF CountsOK, counts, NextHash
  <2>3. SemsOK' BY <1>32, SizeFact DEF SemsOK, NextHash
  <2>4. BufOK' BY <1>32 DEF BufOK, NextHash
  <2> QED BY <2>1, <2>2, <2>3, <2>4, <2>5
<1>33. CASE FilledBlock
  <2>1. FlagsOK' BY <1>33 DEF FlagsOK, FilledBlock
  <2>5. PlacesOK' BY <1>33 DEF PlacesOK, Place, WriterPlace, FilledBlock, Finish
  <2>2. CountsOK' BY <1>33 DEF CountsOK, FilledBlock, Finish
  <2>3. SemsOK' BY <1>33, SizeFact DEF SemsOK, FilledBlock
  <2>4. BufOK'
    <3>1. "bt" \in Link /\ made["bt"] \in Nat BY DEF CountsOK
    <3>2. Slot("bt", made["bt"]) \in 0..(N("bt") - 1) BY <3>1, SlotRange
    <3>3. Block(epoch, made["bt"]) \in [epoch : 0..MaxEpoch, at : Nat]
      BY LzFindMtBounds, <3>1 DEF Block, BufOK
    <3>4. buf' = [buf EXCEPT !["bt"] = [buf["bt"] EXCEPT ![Slot("bt", made["bt"])] = Block(epoch, made["bt"])]]
      BY <1>33, <3>1 DEF FilledBlock, Finish
    <3>5. epoch' = epoch BY <1>33 DEF FilledBlock
    <3> HIDE DEF MtTypeOK
    <3> QED BY <3>1, <3>2, <3>3, <3>4, <3>5 DEF BufOK, MtTypeOK
  <2> QED BY <2>1, <2>2, <2>3, <2>4, <2>5
<1>34. CASE InitStream
  <2>1. FlagsOK' BY <1>34 DEF FlagsOK, InitStream
  <2>5. PlacesOK' BY <1>34 DEF PlacesOK, InitStream
  <2>2. CountsOK' BY <1>34 DEF CountsOK, counts, InitStream
  <2>3. SemsOK' BY <1>34, SizeFact DEF SemsOK, InitStream
  <2>4. BufOK' BY <1>34, LzFindMtBounds DEF BufOK, InitStream
  <2> QED BY <2>1, <2>2, <2>3, <2>4, <2>5
<1>35. CASE GetNextBlock
  <2>1. FlagsOK' BY <1>35 DEF FlagsOK, GetNextBlock
  <2>5. PlacesOK' BY <1>35 DEF PlacesOK, Place, GetNextBlock
  <2>2. CountsOK' BY <1>35 DEF CountsOK, counts, GetNextBlock
  <2>3. SemsOK' BY <1>35, SizeFact DEF SemsOK, GetNextBlock
  <2>4. BufOK' BY <1>35 DEF BufOK, GetNextBlock
  <2> QED BY <2>1, <2>2, <2>3, <2>4, <2>5
<1>36. CASE ReleaseStream
  <2>1. FlagsOK' BY <1>36 DEF FlagsOK, ReleaseStream
  <2>5. PlacesOK' BY <1>36 DEF PlacesOK, Place, ReleaseStream
  <2>2. CountsOK' BY <1>36 DEF CountsOK, counts, ReleaseStream
  <2>3. SemsOK' BY <1>36, SizeFact DEF SemsOK, ReleaseStream
  <2>4. BufOK' BY <1>36 DEF BufOK, ReleaseStream
  <2> QED BY <2>1, <2>2, <2>3, <2>4, <2>5
<1>37. CASE DestructHash
  <2>1. FlagsOK' BY <1>37 DEF FlagsOK, DestructHash, TellExit
  <2>5. PlacesOK' BY <1>37 DEF PlacesOK, Place, DestructHash, TellExit
  <2>2. CountsOK' BY <1>37 DEF CountsOK, counts, DestructHash, TellExit
  <2>3. SemsOK' BY <1>37, SizeFact DEF SemsOK, DestructHash, TellExit
  <2>4. BufOK' BY <1>37 DEF BufOK, DestructHash, TellExit
  <2> QED BY <2>1, <2>2, <2>3, <2>4, <2>5
<1>38. CASE JoinHash
  <2>1. FlagsOK' BY <1>38 DEF FlagsOK, JoinHash, Joined
  <2>5. PlacesOK' BY <1>38 DEF PlacesOK, Place, WriterPlace, JoinHash, Joined
  <2>2. CountsOK' BY <1>38 DEF CountsOK, counts, JoinHash, Joined
  <2>3. SemsOK' BY <1>38, SizeFact DEF SemsOK, JoinHash, Joined
  <2>4. BufOK' BY <1>38 DEF BufOK, JoinHash, Joined
  <2> QED BY <2>1, <2>2, <2>3, <2>4, <2>5
<1>39. CASE DestructBt
  <2>1. FlagsOK' BY <1>39 DEF FlagsOK, DestructBt, TellExit
  <2>5. PlacesOK' BY <1>39 DEF PlacesOK, Place, DestructBt, TellExit
  <2>2. CountsOK' BY <1>39 DEF CountsOK, counts, DestructBt, TellExit
  <2>3. SemsOK' BY <1>39, SizeFact DEF SemsOK, DestructBt, TellExit
  <2>4. BufOK' BY <1>39 DEF BufOK, DestructBt, TellExit
  <2> QED BY <2>1, <2>2, <2>3, <2>4, <2>5
<1>40. CASE JoinBt
  <2>1. FlagsOK' BY <1>40 DEF FlagsOK, JoinBt, Joined
  <2>5. PlacesOK' BY <1>40 DEF PlacesOK, Place, WriterPlace, JoinBt, Joined
  <2>2. CountsOK' BY <1>40 DEF CountsOK, counts, JoinBt, Joined
  <2>3. SemsOK' BY <1>40, SizeFact DEF SemsOK, JoinBt, Joined
  <2>4. BufOK' BY <1>40 DEF BufOK, JoinBt, Joined
  <2> QED BY <2>1, <2>2, <2>3, <2>4, <2>5
<1>41. CASE UNCHANGED vars
  BY <1>41 DEF FlagsOK, PlacesOK, CountsOK, SemsOK, BufOK, vars, counts
<1> QED
  BY <1>1, <1>2, <1>3, <1>4, <1>5, <1>6, <1>7, <1>8, <1>9, <1>10, <1>11, <1>12, <1>13, <1>14, <1>15,
      <1>16, <1>17, <1>18, <1>19, <1>20, <1>21, <1>22, <1>23, <1>24, <1>25, <1>26, <1>27, <1>28,
      <1>29, <1>30, <1>31, <1>32, <1>33, <1>34, <1>35, <1>36, <1>37, <1>38, <1>39, <1>40, <1>41 DEF
      MtNext, HashThread, BtThread, Client, ClientCall, Reader, Writer

\* Division with remainder, and a multiple of n.
LEMMA DivMod == ASSUME NEW a \in Nat, NEW n \in Nat \ {0}
  PROVE /\ a \div n \in Nat /\ a % n \in 0..(n - 1) /\ a = (n * (a \div n)) + (a % n)
  BY Z3
LEMMA Multiple == ASSUME NEW q \in Int, NEW n \in Nat \ {0}, q >= 1 PROVE n * q >= n
  BY Z3

\* Two numbers less than n apart have different remainders: blocks that are in the
\* buffer at the same time have slots of their own.
LEMMA Apart == ASSUME NEW a \in Nat, NEW b \in Nat, NEW n \in Nat \ {0}, a < b, b - a < n
               PROVE a % n # b % n
<1> SUFFICES ASSUME a % n = b % n PROVE FALSE OBVIOUS
<1> DEFINE p == a \div n
           q == b \div n
<1>1. p \in Nat /\ q \in Nat /\ a = (n * p) + (a % n) /\ b = (n * q) + (b % n) BY DivMod
<1>2. a % n \in Int BY DivMod
<1> HIDE DEF p, q
<1>3. b - a = n * q - n * p BY <1>1, <1>2, Z3
<1>4. n * q - n * p = n * (q - p) BY <1>1, Z3
<1>5. CASE q <= p
  <2>1. n * (p - q) >= 0 BY <1>1, <1>5, Z3
  <2>2. n * (q - p) <= 0 BY <2>1, <1>1, Z3
  <2> QED BY <1>3, <1>4, <2>2
<1>6. CASE q > p
  <2>1. n * (q - p) >= n BY Multiple, <1>1, <1>6
  <2> QED BY <1>3, <1>4, <2>1
<1> QED BY <1>1, <1>5, <1>6

\* The slot the writer claims is none that the reader still needs.
LEMMA Room ==
  ASSUME MtTypeOK, NEW l \in Link, Tokens(l), prod[l] # "wait",
         cons[l] \notin Ending \cup {"joinHash", "exitBt", "joinBt"},
         prod[l] = "fill" \/ (prod[l] = "take" /\ freeSem[l] > 0)
  PROVE  \A i \in (numProcessed[l] - 1)..(made[l] - 1) :
           i \in Nat /\ Slot(l, i) # Slot(l, made[l])
<1>1. numProcessed[l] \in Nat /\ made[l] \in Nat /\ freeSem[l] \in Nat /\ filledSem[l] \in Nat
  BY DEF MtTypeOK, CountsOK, SemsOK
<1>2. numProcessed[l] >= 1 BY DEF Tokens
<1>3. Posted(l) = made[l] BY <1>1 DEF Posted, One
<1>4. filledSem[l] = made[l] - Taken(l) BY <1>3 DEF Tokens
<1>5. made[l] - (numProcessed[l] - 1) < N(l)
  <2>2. Taken(l) = numProcessed[l] - 1 \/ Taken(l) = numProcessed[l] BY DEF Taken
  <2>4. freeSem[l] + filledSem[l] + One(Holds(l)) + One(Claims(l)) = N(l) BY DEF Tokens
  <2>5. freeSem[l] + One(Claims(l)) >= 1 BY <1>1 DEF Claims, One
  <2>6. N(l) \in Nat /\ One(Holds(l)) \in {0, 1} /\ One(Claims(l)) \in {0, 1}
    BY SizeFact DEF One
  <2>7. Taken(l) = numProcessed[l] => One(Holds(l)) = 1
    BY <1>1 DEF Taken, Holds, One, MtTypeOK, PlacesOK, Place, Ending
  <2> QED BY <1>1, <1>2, <1>4, <2>2, <2>4, <2>5, <2>6, <2>7
<1>6. ASSUME NEW i \in (numProcessed[l] - 1)..(made[l] - 1)
      PROVE i \in Nat /\ Slot(l, i) # Slot(l, made[l])
  <2>1. i \in Nat /\ i < made[l] /\ made[l] - i < N(l) BY <1>1, <1>2, <1>5, <1>6, SizeFact
  <2> QED BY <1>1, <2>1, Apart, SizeFact DEF Slot
<1> QED BY <1>6

\* What a step does not touch stays in its slots.
LEMMA SlotsKept ==
  ASSUME NEW k \in Link, ~needStart[k] => Slots(k), needStart'[k] = needStart[k],
         buf'[k] = buf[k], made'[k] = made[k], numProcessed'[k] = numProcessed[k],
         epoch' = epoch, cons'[k] = cons[k], prod'[k] = prod[k]
  PROVE  (~needStart[k] => Slots(k))'
  BY DEF Slots

\* At first no thread is there, and both links are to be started.
LEMMA InitInv == MtInit => MtInv
<1> SUFFICES ASSUME MtInit PROVE MtInv OBVIOUS
<1>1. PlaceInv BY DEF MtInit, PlaceInv, Ending
<1>2. ThreadInv BY DEF MtInit, ThreadInv
<1>3. ASSUME NEW l \in Link PROVE LinkInv(l) BY <1>3 DEF MtInit, LinkInv
<1>4. SectionInv BY DEF MtInit, SectionInv
<1>5. SpentInv BY DEF MtInit, SpentInv
<1> QED BY <1>1, <1>2, <1>3, <1>4, <1>5 DEF MtInv

\* The writer waited and its slots were free: the handshake of a new stream begins.
LEMMA StartStep ==
  ASSUME MtTypeOK, MtInv, NEW l \in Link, Start(l)
  PROVE  MtInv'
<1> USE SizeFact DEF MtTypeOK, MtInv
<1>1. PlaceInv'
  BY DEF PlaceInv, ThreadInv, LinkInv, Quiet, Handshake, Exiting, FlagsOK, Start
<1>2. ThreadInv'
  BY DEF PlaceInv, ThreadInv, LinkInv, Quiet, Handshake, Exiting, FlagsOK, Start
<1>3. SectionInv'
  BY DEF SectionInv, PlacesOK, Start
<1>4. SpentInv'
  BY DEF SpentInv, Start
<1>5. ASSUME NEW k \in Link PROVE LinkInv(k)'
  <2>1. (needStart[k] /\ prod[k] # "none" => Quiet(k))'
    BY DEF PlaceInv, ThreadInv, LinkInv, Quiet, Handshake, Tokens, Exiting, FlagsOK, PlacesOK,
        SemsOK, Start
  <2>2. (~needStart[k] => Handshake(k))'
    BY DEF PlaceInv, ThreadInv, LinkInv, Quiet, Handshake, Exiting, FlagsOK, PlacesOK, Running,
        Ending, Start
  <2>3. (~needStart[k] => Tokens(k))'
    BY DEF PlaceInv, ThreadInv, LinkInv, Quiet, Handshake, Tokens, Exiting, Taken, Posted, Holds,
        Claims, One, FlagsOK, PlacesOK, SemsOK, CountsOK, Ending, Start
  <2>4. (~needStart[k] => Slots(k))'
    <3>1. CASE k = l
      <4>1. prod[l] = "wait"
        <5>1. CASE l = "bt" BY <5>1 DEF Start, LinkInv, Quiet, Exiting, ThreadInv
        <5>2. CASE l = "hash"
          <6>1. prod["bt"] = "fill" BY <5>2 DEF Start, PlaceInv
          <6>2. ~needStart["bt"] BY <6>1 DEF LinkInv, Quiet
          <6> QED BY <5>2, <6>2 DEF Start, PlaceInv, LinkInv, Quiet, Exiting, ThreadInv
        <5> QED BY <5>1, <5>2
      <4> QED BY <3>1, <4>1 DEF Start, Slots, PlacesOK
    <3>2. CASE k # l BY <3>2, SlotsKept DEF Start, LinkInv, PlacesOK, FlagsOK, CountsOK
    <3> QED BY <3>1, <3>2
  <2> QED BY <2>1, <2>2, <2>3, <2>4 DEF LinkInv
<1> QED BY <1>1, <1>2, <1>3, <1>4, <1>5

\* The writer has answered, so it is running.
LEMMA StartedStep ==
  ASSUME MtTypeOK, MtInv, NEW l \in Link, Started(l)
  PROVE  MtInv'
<1> USE SizeFact DEF MtTypeOK, MtInv
<1>1. PlaceInv'
  BY DEF PlaceInv, ThreadInv, LinkInv, Quiet, Handshake, Exiting, FlagsOK, Ending, Started
<1>2. ThreadInv'
  BY DEF PlaceInv, ThreadInv, LinkInv, Quiet, Handshake, Exiting, FlagsOK, Started
<1>3. SectionInv'
  BY DEF SectionInv, Started
<1>4. SpentInv'
  BY DEF SpentInv, Started
<1>5. ASSUME NEW k \in Link PROVE LinkInv(k)'
  <2>1. (needStart[k] /\ prod[k] # "none" => Quiet(k))'
    BY DEF PlaceInv, ThreadInv, LinkInv, Quiet, Handshake, Tokens, Exiting, FlagsOK, PlacesOK,
        SemsOK, Started
  <2>2. (~needStart[k] => Handshake(k))'
    BY DEF PlaceInv, ThreadInv, LinkInv, Quiet, Handshake, Exiting, FlagsOK, PlacesOK, Running,
        Ending, Started
  <2>3. (~needStart[k] => Tokens(k))'
    BY DEF PlaceInv, ThreadInv, LinkInv, Quiet, Handshake, Tokens, Exiting, Taken, Posted, Holds,
        Claims, One, FlagsOK, PlacesOK, SemsOK, Running, Ending, counts, Started
  <2>4. (~needStart[k] => Slots(k))'
    BY DEF PlaceInv, ThreadInv, LinkInv, Handshake, Slots, FlagsOK, PlacesOK, CountsOK, Running,
        Ending, counts, Started
  <2> QED BY <2>1, <2>2, <2>3, <2>4 DEF LinkInv
<1> QED BY <1>1, <1>2, <1>3, <1>4, <1>5

\* The block just read is still held, under its new number.
LEMMA NextStep ==
  ASSUME MtTypeOK, MtInv, NEW l \in Link, Next(l)
  PROVE  MtInv'
<1> USE SizeFact DEF MtTypeOK, MtInv
<1>1. PlaceInv'
  BY DEF PlaceInv, ThreadInv, LinkInv, Quiet, Handshake, Exiting, FlagsOK, Ending, Next
<1>2. ThreadInv'
  BY DEF PlaceInv, ThreadInv, LinkInv, Quiet, Handshake, Exiting, FlagsOK, Next
<1>3. SectionInv'
  BY DEF SectionInv, PlacesOK, Next
<1>4. SpentInv'
  BY DEF SpentInv, Next
<1>5. ASSUME NEW k \in Link PROVE LinkInv(k)'
  <2>1. (needStart[k] /\ prod[k] # "none" => Quiet(k))'
    BY DEF PlaceInv, ThreadInv, LinkInv, Quiet, Handshake, Tokens, Exiting, FlagsOK, PlacesOK,
        SemsOK, Next
  <2>2. (~needStart[k] => Handshake(k))'
    BY DEF PlaceInv, ThreadInv, LinkInv, Quiet, Handshake, Exiting, FlagsOK, Ending, Next
  <2>3. (~needStart[k] => Tokens(k))'
    BY DEF PlaceInv, ThreadInv, LinkInv, Quiet, Handshake, Tokens, Exiting, Taken, Posted, Holds,
        Claims, One, FlagsOK, PlacesOK, SemsOK, CountsOK, Ending, Next
  <2>4. (~needStart[k] => Slots(k))'
    BY DEF PlaceInv, ThreadInv, LinkInv, Handshake, Slots, FlagsOK, PlacesOK, CountsOK, Running,
        Ending, Next
  <2> QED BY <2>1, <2>2, <2>3, <2>4 DEF LinkInv
<1> QED BY <1>1, <1>2, <1>3, <1>4, <1>5

\* The slot of the block just read is free, and no longer held.
LEMMA GiveBackStep ==
  ASSUME MtTypeOK, MtInv, NEW l \in Link, GiveBack(l)
  PROVE  MtInv'
<1> USE SizeFact DEF MtTypeOK, MtInv
<1>1. PlaceInv'
  BY DEF PlaceInv, ThreadInv, LinkInv, Quiet, Handshake, Exiting, FlagsOK, Ending, GiveBack
<1>2. ThreadInv'
  BY DEF PlaceInv, ThreadInv, LinkInv, Quiet, Handshake, Exiting, FlagsOK, GiveBack
<1>3. SectionInv'
  BY DEF SectionInv, GiveBack
<1>4. SpentInv'
  BY DEF SpentInv, GiveBack
<1>5. ASSUME NEW k \in Link PROVE LinkInv(k)'
  <2>1. (needStart[k] /\ prod[k] # "none" => Quiet(k))'
    BY DEF PlaceInv, ThreadInv, LinkInv, Quiet, Handshake, Tokens, Exiting, FlagsOK, PlacesOK,
        SemsOK, CountsOK, GiveBack, Release
  <2>2. (~needStart[k] => Handshake(k))'
    BY DEF PlaceInv, ThreadInv, LinkInv, Quiet, Handshake, Exiting, FlagsOK, Ending, GiveBack
  <2>3. (~needStart[k] => Tokens(k))'
    <3>1. CASE k = l
      BY <3>1 DEF GiveBack, Release, LinkInv, PlaceInv, Tokens, Taken, Posted, Holds, Claims, One,
          Ending, PlacesOK, SemsOK, counts
    <3>2. CASE k # l
      BY <3>2 DEF GiveBack, Release, LinkInv, PlaceInv, Tokens, Taken, Posted, Holds, Claims, One,
          counts
    <3> QED BY <3>1, <3>2
  <2>4. (~needStart[k] => Slots(k))'
    BY DEF PlaceInv, ThreadInv, LinkInv, Handshake, Slots, FlagsOK, PlacesOK, CountsOK, Running,
        Ending, counts, GiveBack
  <2> QED BY <2>1, <2>2, <2>3, <2>4 DEF LinkInv
<1> QED BY <1>1, <1>2, <1>3, <1>4, <1>5

\* A posted block becomes the one the reader holds.
LEMMA TakeStep ==
  ASSUME MtTypeOK, MtInv, NEW l \in Link, Take(l)
  PROVE  MtInv'
<1> USE SizeFact DEF MtTypeOK, MtInv
<1>1. PlaceInv'
  BY DEF PlaceInv, ThreadInv, LinkInv, Quiet, Handshake, Exiting, FlagsOK, Ending, Take
<1>2. ThreadInv'
  BY DEF PlaceInv, ThreadInv, LinkInv, Quiet, Handshake, Exiting, FlagsOK, Take
<1>3. SectionInv'
  BY DEF SectionInv, Take
<1>4. SpentInv'
  BY DEF SpentInv, Take
<1>5. ASSUME NEW k \in Link PROVE LinkInv(k)'
  <2>1. (needStart[k] /\ prod[k] # "none" => Quiet(k))'
    BY DEF PlaceInv, ThreadInv, LinkInv, Quiet, Handshake, Tokens, Exiting, FlagsOK, PlacesOK,
        SemsOK, Take
  <2>2. (~needStart[k] => Handshake(k))'
    BY DEF PlaceInv, ThreadInv, LinkInv, Quiet, Handshake, Exiting, FlagsOK, Ending, Take
  <2>3. (~needStart[k] => Tokens(k))'
    BY DEF PlaceInv, ThreadInv, LinkInv, Quiet, Handshake, Tokens, Exiting, Taken, Posted, Holds,
        Claims, One, FlagsOK, PlacesOK, SemsOK, CountsOK, Ending, counts, Take
  <2>4. (~needStart[k] => Slots(k))'
    BY DEF PlaceInv, ThreadInv, LinkInv, Handshake, Slots, FlagsOK, PlacesOK, CountsOK, Running,
        Ending, counts, Take
  <2> QED BY <2>1, <2>2, <2>3, <2>4 DEF LinkInv
<1> QED BY <1>1, <1>2, <1>3, <1>4, <1>5

\* The writer is told to stop and the blocks taken so far are remembered, or it never ran.
LEMMA StopStep ==
  ASSUME MtTypeOK, MtInv, NEW l \in Link, Stop(l)
  PROVE  MtInv'
<1> USE SizeFact DEF MtTypeOK, MtInv
<1>1. PlaceInv'
  BY DEF PlaceInv, ThreadInv, LinkInv, Quiet, Handshake, Exiting, FlagsOK, PlacesOK, Ending, Stop
<1>2. ThreadInv'
  BY DEF PlaceInv, ThreadInv, LinkInv, Quiet, Handshake, Exiting, FlagsOK, PlacesOK, Stop
<1>3. SectionInv'
  BY DEF SectionInv, PlacesOK, Stop
<1>4. SpentInv'
  BY DEF SpentInv, PlacesOK, Stop
<1>5. ASSUME NEW k \in Link PROVE LinkInv(k)'
  <2>1. (needStart[k] /\ prod[k] # "none" => Quiet(k))'
    BY DEF PlaceInv, ThreadInv, LinkInv, Quiet, Handshake, Tokens, Exiting, FlagsOK, PlacesOK,
        SemsOK, Stop
  <2>2. (~needStart[k] => Handshake(k))'
    BY DEF PlaceInv, ThreadInv, LinkInv, Quiet, Handshake, Exiting, FlagsOK, PlacesOK, Ending, Stop
  <2>3. (~needStart[k] => Tokens(k))'
    BY DEF PlaceInv, ThreadInv, LinkInv, Quiet, Handshake, Tokens, Exiting, Taken, Posted, Holds,
        Claims, One, FlagsOK, PlacesOK, SemsOK, CountsOK, Ending, Stop
  <2>4. (~needStart[k] => Slots(k))'
    BY DEF PlaceInv, ThreadInv, LinkInv, Handshake, Slots, FlagsOK, PlacesOK, CountsOK, Running,
        Ending, Stop
  <2> QED BY <2>1, <2>2, <2>3, <2>4 DEF LinkInv
<1> QED BY <1>1, <1>2, <1>3, <1>4, <1>5

\* The reader is out of its critical section.
LEMMA LeaveStep ==
  ASSUME MtTypeOK, MtInv, NEW l \in Link, Leave(l)
  PROVE  MtInv'
<1> USE SizeFact DEF MtTypeOK, MtInv
<1>1. PlaceInv'
  BY DEF PlaceInv, ThreadInv, LinkInv, Quiet, Handshake, Exiting, FlagsOK, Ending, Leave
<1>2. ThreadInv'
  BY DEF PlaceInv, ThreadInv, LinkInv, Quiet, Handshake, Exiting, FlagsOK, Leave
<1>3. SectionInv'
  BY DEF SectionInv, PlacesOK, Leave
<1>4. SpentInv'
  BY DEF SpentInv, Leave
<1>5. ASSUME NEW k \in Link PROVE LinkInv(k)'
  <2>1. (needStart[k] /\ prod[k] # "none" => Quiet(k))'
    BY DEF PlaceInv, ThreadInv, LinkInv, Quiet, Handshake, Tokens, Exiting, FlagsOK, PlacesOK,
        SemsOK, Leave
  <2>2. (~needStart[k] => Handshake(k))'
    BY DEF PlaceInv, ThreadInv, LinkInv, Quiet, Handshake, Exiting, FlagsOK, Ending, Leave
  <2>3. (~needStart[k] => Tokens(k))'
    BY DEF PlaceInv, ThreadInv, LinkInv, Quiet, Handshake, Tokens, Exiting, Taken, Posted, Holds,
        Claims, One, FlagsOK, PlacesOK, SemsOK, Ending, counts, Leave
  <2>4. (~needStart[k] => Slots(k))'
    BY DEF PlaceInv, ThreadInv, LinkInv, Handshake, Slots, FlagsOK, PlacesOK, CountsOK, Running,
        Ending, counts, Leave
  <2> QED BY <2>1, <2>2, <2>3, <2>4 DEF LinkInv
<1> QED BY <1>1, <1>2, <1>3, <1>4, <1>5

\* The slot held goes back, so that a writer without a free slot sees the flag.
LEMMA WakeStep ==
  ASSUME MtTypeOK, MtInv, NEW l \in Link, Wake(l)
  PROVE  MtInv'
<1> USE SizeFact DEF MtTypeOK, MtInv
<1>1. PlaceInv'
  BY DEF PlaceInv, ThreadInv, LinkInv, Quiet, Handshake, Exiting, FlagsOK, Ending, Wake
<1>2. ThreadInv'
  BY DEF PlaceInv, ThreadInv, LinkInv, Quiet, Handshake, Exiting, FlagsOK, Wake
<1>3. SectionInv'
  BY DEF SectionInv, Wake
<1>4. SpentInv'
  BY DEF SpentInv, Wake
<1>5. ASSUME NEW k \in Link PROVE LinkInv(k)'
  <2>1. (needStart[k] /\ prod[k] # "none" => Quiet(k))'
    BY DEF PlaceInv, ThreadInv, LinkInv, Quiet, Handshake, Tokens, Exiting, FlagsOK, PlacesOK,
        SemsOK, CountsOK, Wake, Release
  <2>2. (~needStart[k] => Handshake(k))'
    BY DEF PlaceInv, ThreadInv, LinkInv, Quiet, Handshake, Exiting, FlagsOK, Ending, Wake
  <2>3. (~needStart[k] => Tokens(k))'
    BY DEF PlaceInv, ThreadInv, LinkInv, Quiet, Handshake, Tokens, Exiting, Taken, Posted, Holds,
        Claims, One, FlagsOK, PlacesOK, SemsOK, CountsOK, Ending, counts, Wake, Release
  <2>4. (~needStart[k] => Slots(k))'
    BY DEF PlaceInv, ThreadInv, LinkInv, Handshake, Slots, FlagsOK, PlacesOK, CountsOK, Running,
        Ending, counts, Wake
  <2> QED BY <2>1, <2>2, <2>3, <2>4 DEF LinkInv
<1> QED BY <1>1, <1>2, <1>3, <1>4, <1>5

\* The writer has stopped: its count of blocks is final.
LEMMA AwaitStep ==
  ASSUME MtTypeOK, MtInv, NEW l \in Link, Await(l)
  PROVE  MtInv'
<1> USE SizeFact DEF MtTypeOK, MtInv
<1>1. PlaceInv'
  BY DEF PlaceInv, ThreadInv, LinkInv, Quiet, Handshake, Exiting, FlagsOK, Ending, Await
<1>2. ThreadInv'
  BY DEF PlaceInv, ThreadInv, LinkInv, Quiet, Handshake, Exiting, FlagsOK, Await
<1>3. SectionInv'
  BY DEF SectionInv, Await
<1>4. SpentInv'
  BY DEF SpentInv, Await
<1>5. ASSUME NEW k \in Link PROVE LinkInv(k)'
  <2>1. (needStart[k] /\ prod[k] # "none" => Quiet(k))'
    BY DEF PlaceInv, ThreadInv, LinkInv, Quiet, Handshake, Tokens, Exiting, FlagsOK, PlacesOK,
        SemsOK, Await
  <2>2. (~needStart[k] => Handshake(k))'
    BY DEF PlaceInv, ThreadInv, LinkInv, Quiet, Handshake, Exiting, FlagsOK, PlacesOK, Ending, Await
  <2>3. (~needStart[k] => Tokens(k))'
    BY DEF PlaceInv, ThreadInv, LinkInv, Quiet, Handshake, Tokens, Exiting, Taken, Posted, Holds,
        Claims, One, FlagsOK, PlacesOK, SemsOK, Ending, counts, Await
  <2>4. (~needStart[k] => Slots(k))'
    BY DEF PlaceInv, ThreadInv, LinkInv, Handshake, Slots, FlagsOK, PlacesOK, CountsOK, Running,
        Ending, Await
  <2> QED BY <2>1, <2>2, <2>3, <2>4 DEF LinkInv
<1> QED BY <1>1, <1>2, <1>3, <1>4, <1>5

\* One more of the posted blocks is taken.
LEMMA DrainStep ==
  ASSUME MtTypeOK, MtInv, NEW l \in Link, Drain(l)
  PROVE  MtInv'
<1> USE SizeFact DEF MtTypeOK, MtInv
<1>1. PlaceInv'
  BY DEF PlaceInv, ThreadInv, LinkInv, Quiet, Handshake, Exiting, FlagsOK, Ending, Drain
<1>2. ThreadInv'
  BY DEF PlaceInv, ThreadInv, LinkInv, Quiet, Handshake, Exiting, FlagsOK, Drain
<1>3. SectionInv'
  BY DEF SectionInv, Drain
<1>4. SpentInv'
  BY DEF SpentInv, Drain
<1>5. ASSUME NEW k \in Link PROVE LinkInv(k)'
  <2>1. (needStart[k] /\ prod[k] # "none" => Quiet(k))'
    BY DEF PlaceInv, ThreadInv, LinkInv, Quiet, Handshake, Tokens, Exiting, FlagsOK, PlacesOK,
        SemsOK, Drain
  <2>2. (~needStart[k] => Handshake(k))'
    BY DEF PlaceInv, ThreadInv, LinkInv, Quiet, Handshake, Exiting, FlagsOK, Ending, Drain
  <2>3. (~needStart[k] => Tokens(k))'
    BY DEF PlaceInv, ThreadInv, LinkInv, Quiet, Handshake, Tokens, Exiting, Taken, Posted, Holds,
        Claims, One, FlagsOK, PlacesOK, SemsOK, CountsOK, Running, Ending, Drain
  <2>4. (~needStart[k] => Slots(k))'
    BY DEF PlaceInv, ThreadInv, LinkInv, Handshake, Slots, FlagsOK, PlacesOK, CountsOK, Running,
        Ending, Drain
  <2> QED BY <2>1, <2>2, <2>3, <2>4 DEF LinkInv
<1> QED BY <1>1, <1>2, <1>3, <1>4, <1>5

\* And given back.
LEMMA DrainedStep ==
  ASSUME MtTypeOK, MtInv, NEW l \in Link, Drained(l)
  PROVE  MtInv'
<1> USE SizeFact DEF MtTypeOK, MtInv
<1>1. PlaceInv'
  BY DEF PlaceInv, ThreadInv, LinkInv, Quiet, Handshake, Exiting, FlagsOK, Ending, Drained
<1>2. ThreadInv'
  BY DEF PlaceInv, ThreadInv, LinkInv, Quiet, Handshake, Exiting, FlagsOK, Drained
<1>3. SectionInv'
  BY DEF SectionInv, Drained
<1>4. SpentInv'
  BY DEF SpentInv, Drained
<1>5. ASSUME NEW k \in Link PROVE LinkInv(k)'
  <2>1. (needStart[k] /\ prod[k] # "none" => Quiet(k))'
    BY DEF PlaceInv, ThreadInv, LinkInv, Quiet, Handshake, Tokens, Exiting, FlagsOK, PlacesOK,
        SemsOK, CountsOK, Drained, Release
  <2>2. (~needStart[k] => Handshake(k))'
    BY DEF PlaceInv, ThreadInv, LinkInv, Quiet, Handshake, Exiting, FlagsOK, Ending, Drained
  <2>3. (~needStart[k] => Tokens(k))'
    BY DEF PlaceInv, ThreadInv, LinkInv, Quiet, Handshake, Tokens, Exiting, Taken, Posted, Holds,
        Claims, One, FlagsOK, PlacesOK, SemsOK, CountsOK, Ending, counts, Drained, Release
  <2>4. (~needStart[k] => Slots(k))'
    BY DEF PlaceInv, ThreadInv, LinkInv, Handshake, Slots, FlagsOK, PlacesOK, CountsOK, Running,
        Ending, Drained
  <2> QED BY <2>1, <2>2, <2>3, <2>4 DEF LinkInv
<1> QED BY <1>1, <1>2, <1>3, <1>4, <1>5

\* Every posted block was taken and given back: the link is as at first.
LEMMA StoppedStep ==
  ASSUME MtTypeOK, MtInv, NEW l \in Link, Stopped(l)
  PROVE  MtInv'
<1> USE SizeFact DEF MtTypeOK, MtInv
<1>1. PlaceInv'
  BY DEF PlaceInv, ThreadInv, LinkInv, Quiet, Handshake, Exiting, FlagsOK, PlacesOK, Ending, Stopped
<1>2. ThreadInv'
  BY DEF PlaceInv, ThreadInv, LinkInv, Quiet, Handshake, Exiting, FlagsOK, Stopped
<1>3. SectionInv'
  BY DEF SectionInv, Stopped
<1>4. SpentInv'
  BY DEF SpentInv, PlaceInv, ThreadInv, LinkInv, Quiet, Handshake, Exiting, FlagsOK, Stopped
<1>5. ASSUME NEW k \in Link PROVE LinkInv(k)'
  <2>1. (needStart[k] /\ prod[k] # "none" => Quiet(k))'
    <3>1. CASE k = l
      <4>1. Handshake(l) /\ Tokens(l) BY DEF Stopped, LinkInv, PlaceInv, Ending
      <4>2. prod[l] = "wait" /\ ~canStart[l] /\ ~wasStarted[l] /\ ~wasStopped[l]
        BY <4>1 DEF Stopped, Handshake
      <4>3. filledSem[l] = 0 /\ freeSem[l] = N(l)
        BY <4>1, <4>2 DEF Stopped, Tokens, Taken, Posted, Holds, Claims, One, Ending, CountsOK,
            SemsOK
      <4>4. ~Exiting(l)' BY DEF Stopped, Exiting, PlaceInv
      <4> QED BY <3>1, <4>2, <4>3, <4>4 DEF Stopped, Quiet
    <3>2. CASE k # l
      BY <3>2 DEF Stopped, LinkInv, Quiet, Exiting
    <3> QED BY <3>1, <3>2
  <2>2. (~needStart[k] => Handshake(k))'
    BY DEF PlaceInv, ThreadInv, LinkInv, Quiet, Handshake, Exiting, FlagsOK, Stopped
  <2>3. (~needStart[k] => Tokens(k))'
    BY DEF PlaceInv, ThreadInv, LinkInv, Quiet, Handshake, Tokens, Exiting, Taken, Posted, Holds,
        Claims, One, FlagsOK, PlacesOK, SemsOK, counts, Stopped
  <2>4. (~needStart[k] => Slots(k))'
    BY DEF PlaceInv, ThreadInv, LinkInv, Handshake, Slots, FlagsOK, PlacesOK, CountsOK, Running,
        Ending, Stopped
  <2> QED BY <2>1, <2>2, <2>3, <2>4 DEF LinkInv
<1> QED BY <1>1, <1>2, <1>3, <1>4, <1>5

\* The writer counts from zero again.
LEMMA CanStartStep ==
  ASSUME MtTypeOK, MtInv, NEW l \in Link, CanStart(l)
  PROVE  MtInv'
<1> USE SizeFact DEF MtTypeOK, MtInv
<1>1. PlaceInv'
  BY DEF PlaceInv, CanStart
<1>2. ThreadInv'
  BY DEF PlaceInv, ThreadInv, LinkInv, Quiet, Handshake, Exiting, FlagsOK, CanStart
<1>3. SectionInv'
  BY DEF SectionInv, CanStart
<1>4. SpentInv'
  BY DEF SpentInv, PlaceInv, ThreadInv, LinkInv, Quiet, Handshake, Exiting, FlagsOK, CanStart
<1>5. ASSUME NEW k \in Link PROVE LinkInv(k)'
  <2>1. (needStart[k] /\ prod[k] # "none" => Quiet(k))'
    BY DEF PlaceInv, ThreadInv, LinkInv, Quiet, Handshake, Tokens, Exiting, FlagsOK, PlacesOK,
        SemsOK, CanStart
  <2>2. (~needStart[k] => Handshake(k))'
    BY DEF PlaceInv, ThreadInv, LinkInv, Quiet, Handshake, Exiting, FlagsOK, PlacesOK, Running,
        CanStart
  <2>3. (~needStart[k] => Tokens(k))'
    BY DEF PlaceInv, ThreadInv, LinkInv, Quiet, Handshake, Tokens, Exiting, Taken, Posted, Holds,
        Claims, One, FlagsOK, PlacesOK, SemsOK, CountsOK, Ending, CanStart
  <2>4. (~needStart[k] => Slots(k))'
    <3>1. CASE k = l
      <4>1. ~needStart[l] => cons[l] = "starting" /\ numProcessed[l] = 1
        BY DEF CanStart, LinkInv, Handshake, Tokens
      <4>2. (~needStart[l])' => numProcessed'[l] = 1 /\ made'[l] = 0
        BY <4>1 DEF CanStart, CountsOK
      <4> QED BY <3>1, <4>2 DEF Slots
    <3>2. CASE k # l
      BY <3>2, SlotsKept DEF CanStart, LinkInv
    <3> QED BY <3>1, <3>2
  <2> QED BY <2>1, <2>2, <2>3, <2>4 DEF LinkInv
<1> QED BY <1>1, <1>2, <1>3, <1>4, <1>5

\* The writer is running.
LEMMA SignalStep ==
  ASSUME MtTypeOK, MtInv, NEW l \in Link, Signal(l)
  PROVE  MtInv'
<1> USE SizeFact DEF MtTypeOK, MtInv
<1>1. PlaceInv'
  BY DEF PlaceInv, Signal
<1>2. ThreadInv'
  BY DEF PlaceInv, ThreadInv, LinkInv, Quiet, Handshake, Exiting, FlagsOK, Signal
<1>3. SectionInv'
  BY DEF SectionInv, Signal
<1>4. SpentInv'
  BY DEF SpentInv, Signal
<1>5. ASSUME NEW k \in Link PROVE LinkInv(k)'
  <2>1. (needStart[k] /\ prod[k] # "none" => Quiet(k))'
    BY DEF PlaceInv, ThreadInv, LinkInv, Quiet, Handshake, Tokens, Exiting, FlagsOK, PlacesOK,
        SemsOK, Signal
  <2>2. (~needStart[k] => Handshake(k))'
    BY DEF PlaceInv, ThreadInv, LinkInv, Quiet, Handshake, Exiting, FlagsOK, PlacesOK, Running,
        Signal
  <2>3. (~needStart[k] => Tokens(k))'
    BY DEF PlaceInv, ThreadInv, LinkInv, Quiet, Handshake, Tokens, Exiting, Taken, Posted, Holds,
        Claims, One, FlagsOK, PlacesOK, SemsOK, counts, Signal
  <2>4. (~needStart[k] => Slots(k))'
    BY DEF PlaceInv, ThreadInv, LinkInv, Handshake, Slots, FlagsOK, PlacesOK, CountsOK, Running,
        Ending, counts, Signal
  <2> QED BY <2>1, <2>2, <2>3, <2>4 DEF LinkInv
<1> QED BY <1>1, <1>2, <1>3, <1>4, <1>5

\* Only a link that is stopped is told to exit.
LEMMA ExitStep ==
  ASSUME MtTypeOK, MtInv, NEW l \in Link, Exit(l)
  PROVE  MtInv'
<1> USE SizeFact DEF MtTypeOK, MtInv
<1>1. PlaceInv'
  BY DEF PlaceInv, ThreadInv, LinkInv, Quiet, Handshake, Exiting, FlagsOK, Exit
<1>2. ThreadInv'
  BY DEF PlaceInv, ThreadInv, LinkInv, Quiet, Handshake, Exiting, FlagsOK, Exit
<1>3. SectionInv'
  BY DEF SectionInv, Exit
<1>4. SpentInv'
  BY DEF SpentInv, Exit
<1>5. ASSUME NEW k \in Link PROVE LinkInv(k)'
  <2>1. (needStart[k] /\ prod[k] # "none" => Quiet(k))'
    BY DEF PlaceInv, ThreadInv, LinkInv, Quiet, Handshake, Tokens, Exiting, FlagsOK, PlacesOK,
        SemsOK, Exit
  <2>2. (~needStart[k] => Handshake(k))'
    BY DEF PlaceInv, ThreadInv, LinkInv, Quiet, Handshake, Exiting, FlagsOK, Exit
  <2>3. (~needStart[k] => Tokens(k))'
    BY DEF PlaceInv, ThreadInv, LinkInv, Quiet, Handshake, Tokens, Exiting, Taken, Posted, Holds,
        Claims, One, FlagsOK, PlacesOK, SemsOK, Exit
  <2>4. (~needStart[k] => Slots(k))'
    BY DEF PlaceInv, ThreadInv, LinkInv, Handshake, Slots, FlagsOK, PlacesOK, CountsOK, Running,
        Ending, counts, Exit
  <2> QED BY <2>1, <2>2, <2>3, <2>4 DEF LinkInv
<1> QED BY <1>1, <1>2, <1>3, <1>4, <1>5

\* The count of the writer takes the place of the reader's.
LEMMA SeeStopStep ==
  ASSUME MtTypeOK, MtInv, NEW l \in Link, SeeStop(l)
  PROVE  MtInv'
<1> USE SizeFact DEF MtTypeOK, MtInv
<1>1. PlaceInv'
  BY DEF PlaceInv, ThreadInv, LinkInv, Quiet, Handshake, Exiting, FlagsOK, PlacesOK, Ending, SeeStop
<1>2. ThreadInv'
  BY DEF PlaceInv, ThreadInv, LinkInv, Quiet, Handshake, Exiting, FlagsOK, SeeStop
<1>3. SectionInv'
  BY DEF SectionInv, PlaceInv, SeeStop
<1>4. SpentInv'
  BY DEF SpentInv, SeeStop
<1>5. ASSUME NEW k \in Link PROVE LinkInv(k)'
  <2>1. (needStart[k] /\ prod[k] # "none" => Quiet(k))'
    BY DEF PlaceInv, ThreadInv, LinkInv, Quiet, Handshake, Tokens, Exiting, FlagsOK, PlacesOK,
        SemsOK, SeeStop
  <2>2. (~needStart[k] => Handshake(k))'
    BY DEF PlaceInv, ThreadInv, LinkInv, Quiet, Handshake, Exiting, FlagsOK, Ending, SeeStop
  <2>3. (~needStart[k] => Tokens(k))'
    BY DEF PlaceInv, ThreadInv, LinkInv, Quiet, Handshake, Tokens, Exiting, Taken, Posted, Holds,
        Claims, One, FlagsOK, PlacesOK, SemsOK, CountsOK, Ending, SeeStop
  <2>4. (~needStart[k] => Slots(k))'
    BY DEF PlaceInv, ThreadInv, LinkInv, Handshake, Slots, FlagsOK, PlacesOK, CountsOK, Running,
        Ending, SeeStop
  <2> QED BY <2>1, <2>2, <2>3, <2>4 DEF LinkInv
<1> QED BY <1>1, <1>2, <1>3, <1>4, <1>5

\* The writer waits again, and its own writer is stopped.
LEMMA TellStoppedStep ==
  ASSUME MtTypeOK, MtInv, NEW l \in Link, TellStopped(l)
  PROVE  MtInv'
<1> USE SizeFact DEF MtTypeOK, MtInv
<1>1. PlaceInv'
  BY DEF PlaceInv, TellStopped
<1>2. ThreadInv'
  BY DEF PlaceInv, ThreadInv, LinkInv, Quiet, Handshake, Exiting, FlagsOK, TellStopped
<1>3. SectionInv'
  BY DEF SectionInv, TellStopped
<1>4. SpentInv'
  BY DEF SpentInv, TellStopped
<1>5. ASSUME NEW k \in Link PROVE LinkInv(k)'
  <2>1. (needStart[k] /\ prod[k] # "none" => Quiet(k))'
    BY DEF PlaceInv, ThreadInv, LinkInv, Quiet, Handshake, Tokens, Exiting, FlagsOK, PlacesOK,
        SemsOK, TellStopped
  <2>2. (~needStart[k] => Handshake(k))'
    BY DEF PlaceInv, ThreadInv, LinkInv, Quiet, Handshake, Exiting, FlagsOK, PlacesOK, Ending,
        TellStopped
  <2>3. (~needStart[k] => Tokens(k))'
    BY DEF PlaceInv, ThreadInv, LinkInv, Quiet, Handshake, Tokens, Exiting, Taken, Posted, Holds,
        Claims, One, FlagsOK, PlacesOK, SemsOK, counts, TellStopped
  <2>4. (~needStart[k] => Slots(k))'
    BY DEF PlaceInv, ThreadInv, LinkInv, Handshake, Slots, FlagsOK, PlacesOK, CountsOK, Running,
        Ending, counts, TellStopped
  <2> QED BY <2>1, <2>2, <2>3, <2>4 DEF LinkInv
<1> QED BY <1>1, <1>2, <1>3, <1>4, <1>5

\* Nothing but the writer's place changes.
LEMMA GoOnStep ==
  ASSUME MtTypeOK, MtInv, NEW l \in Link, GoOn(l)
  PROVE  MtInv'
<1> USE SizeFact DEF MtTypeOK, MtInv
<1>1. PlaceInv'
  BY DEF PlaceInv, GoOn
<1>2. ThreadInv'
  BY DEF PlaceInv, ThreadInv, LinkInv, Quiet, Handshake, Exiting, FlagsOK, GoOn
<1>3. SectionInv'
  BY DEF SectionInv, GoOn
<1>4. SpentInv'
  BY DEF SpentInv, GoOn
<1>5. ASSUME NEW k \in Link PROVE LinkInv(k)'
  <2>1. (needStart[k] /\ prod[k] # "none" => Quiet(k))'
    BY DEF PlaceInv, ThreadInv, LinkInv, Quiet, Handshake, Tokens, Exiting, FlagsOK, PlacesOK,
        SemsOK, GoOn
  <2>2. (~needStart[k] => Handshake(k))'
    BY DEF PlaceInv, ThreadInv, LinkInv, Quiet, Handshake, Exiting, FlagsOK, Running, GoOn
  <2>3. (~needStart[k] => Tokens(k))'
    BY DEF PlaceInv, ThreadInv, LinkInv, Quiet, Handshake, Tokens, Exiting, Taken, Posted, Holds,
        Claims, One, FlagsOK, PlacesOK, SemsOK, counts, GoOn
  <2>4. (~needStart[k] => Slots(k))'
    BY DEF PlaceInv, ThreadInv, LinkInv, Handshake, Slots, FlagsOK, PlacesOK, CountsOK, Running,
        Ending, counts, GoOn
  <2> QED BY <2>1, <2>2, <2>3, <2>4 DEF LinkInv
<1> QED BY <1>1, <1>2, <1>3, <1>4, <1>5

\* A free slot is claimed; what it held is used no more.
LEMMA ClaimStep ==
  ASSUME MtTypeOK, MtInv, NEW l \in Link, Claim(l)
  PROVE  MtInv'
<1> USE SizeFact DEF MtTypeOK, MtInv
<1>1. PlaceInv'
  BY DEF PlaceInv, ThreadInv, LinkInv, Quiet, Handshake, Exiting, FlagsOK, PlacesOK, Ending, Claim
<1>2. ThreadInv'
  BY DEF PlaceInv, ThreadInv, LinkInv, Quiet, Handshake, Exiting, FlagsOK, Claim
<1>3. SectionInv'
  BY DEF SectionInv, PlaceInv, Claim
<1>4. SpentInv'
  BY DEF SpentInv, Claim
<1>5. ASSUME NEW k \in Link PROVE LinkInv(k)'
  <2>1. (needStart[k] /\ prod[k] # "none" => Quiet(k))'
    BY DEF PlaceInv, ThreadInv, LinkInv, Quiet, Handshake, Tokens, Exiting, FlagsOK, PlacesOK,
        SemsOK, Claim
  <2>2. (~needStart[k] => Handshake(k))'
    BY DEF PlaceInv, ThreadInv, LinkInv, Quiet, Handshake, Exiting, FlagsOK, Running, Ending, Claim
  <2>3. (~needStart[k] => Tokens(k))'
    <3>1. CASE k = l
      BY <3>1 DEF Claim, LinkInv, PlaceInv, Tokens, Taken, Posted, Holds, Claims, One, PlacesOK,
          SemsOK, counts
    <3>2. CASE k # l
      BY <3>2 DEF Claim, LinkInv, PlaceInv, Tokens, Taken, Posted, Holds, Claims, One, Ending,
          counts
    <3> QED BY <3>1, <3>2
  <2>4. (~needStart[k] => Slots(k))'
    <3>1. CASE k = l
      <4> SUFFICES ASSUME ~needStart[l], cons'[l] \notin Ending PROVE Slots(l)'
        BY <3>1 DEF Claim, Slots
      <4>1. cons[l] \notin Ending
            /\ cons[l] \notin {"joinHash", "exitBt", "joinBt"}
        BY DEF Claim, PlaceInv
      <4>2. Tokens(l) /\ Slots(l) BY DEF LinkInv
      <4>3. \A i \in (numProcessed[l] - 1)..(made[l] - 1) :
              i \in Nat /\ Slot(l, i) # Slot(l, made[l])
        BY <4>1, <4>2, Room DEF Claim
      <4>4. \A i \in (numProcessed[l] - 1)..(made[l] - 1) : buf'[l][Slot(l, i)] = buf[l][Slot(l, i)]
        BY <4>3, SlotRange DEF Claim
      <4>5. \A i \in (numProcessed[l] - 1)..(made[l] - 1) : buf[l][Slot(l, i)] = Block(epoch, i)
        BY <4>1, <4>2 DEF Claim, Slots
      <4> QED BY <4>4, <4>5 DEF Slots, Claim, counts
    <3>2. CASE k # l
      <4>1. buf'[k] = buf[k] /\ prod'[k] = prod[k] /\ made'[k] = made[k]
            /\ numProcessed'[k] = numProcessed[k] /\ epoch' = epoch /\ needStart'[k] = needStart[k]
        BY <3>2 DEF Claim, counts
      <4>2. cons'[k] = cons[k] \/ (cons[k] = "out" /\ cons'[k] = "fill")
        <5>1. CASE l = "bt"
          <6>1. k = "hash" /\ prod["bt"] = "take" /\ cons' = [cons EXCEPT !["hash"] = "fill"]
            BY <3>2, <5>1 DEF Claim
          <6>2. cons["hash"] = "out" BY <6>1 DEF PlaceInv
          <6> QED BY <6>1, <6>2
        <5>2. CASE l = "hash" BY <3>2, <5>2 DEF Claim
        <5> QED BY <5>1, <5>2
      <4>3. ~needStart[k] => Slots(k) BY DEF LinkInv
      <4> QED BY <4>1, <4>2, <4>3 DEF Slots, Ending
    <3> QED BY <3>1, <3>2
  <2> QED BY <2>1, <2>2, <2>3, <2>4 DEF LinkInv
<1> QED BY <1>1, <1>2, <1>3, <1>4, <1>5

\* The block that was written is counted.
LEMMA PostStep ==
  ASSUME MtTypeOK, MtInv, NEW l \in Link, Post(l)
  PROVE  MtInv'
<1> USE SizeFact DEF MtTypeOK, MtInv
<1>1. PlaceInv'
  BY DEF PlaceInv, Post
<1>2. ThreadInv'
  BY DEF PlaceInv, ThreadInv, LinkInv, Quiet, Handshake, Exiting, FlagsOK, Post
<1>3. SectionInv'
  BY DEF SectionInv, Post
<1>4. SpentInv'
  BY DEF SpentInv, PlaceInv, Post
<1>5. ASSUME NEW k \in Link PROVE LinkInv(k)'
  <2>1. (needStart[k] /\ prod[k] # "none" => Quiet(k))'
    BY DEF PlaceInv, ThreadInv, LinkInv, Quiet, Handshake, Tokens, Exiting, FlagsOK, PlacesOK,
        SemsOK, Post
  <2>2. (~needStart[k] => Handshake(k))'
    BY DEF PlaceInv, ThreadInv, LinkInv, Quiet, Handshake, Exiting, FlagsOK, Running, Post
  <2>3. (~needStart[k] => Tokens(k))'
    BY DEF PlaceInv, ThreadInv, LinkInv, Quiet, Handshake, Tokens, Exiting, Taken, Posted, Holds,
        Claims, One, FlagsOK, PlacesOK, SemsOK, CountsOK, Running, counts, Post, Release
  <2>4. (~needStart[k] => Slots(k))'
    BY DEF PlaceInv, ThreadInv, LinkInv, Handshake, Slots, FlagsOK, PlacesOK, CountsOK, Running,
        Ending, counts, Post
  <2> QED BY <2>1, <2>2, <2>3, <2>4 DEF LinkInv
<1> QED BY <1>1, <1>2, <1>3, <1>4, <1>5

\* Threads, semaphores and events are new.
LEMMA CreateStep ==
  ASSUME MtTypeOK, MtInv, NEW l \in Link, Create(l)
  PROVE  MtInv'
<1> USE SizeFact DEF MtTypeOK, MtInv
<1>1. PlaceInv'
  BY DEF PlaceInv, Create
<1>2. ThreadInv'
  BY DEF PlaceInv, ThreadInv, LinkInv, Quiet, Handshake, Exiting, FlagsOK, Create
<1>3. SectionInv'
  BY DEF SectionInv, PlaceInv, ThreadInv, LinkInv, Quiet, Handshake, Exiting, FlagsOK, Create
<1>4. SpentInv'
  BY DEF SpentInv, PlaceInv, Create
<1>5. ASSUME NEW k \in Link PROVE LinkInv(k)'
  <2>1. (needStart[k] /\ prod[k] # "none" => Quiet(k))'
    BY DEF PlaceInv, ThreadInv, LinkInv, Quiet, Handshake, Tokens, Exiting, FlagsOK, PlacesOK,
        SemsOK, Create
  <2>2. (~needStart[k] => Handshake(k))'
    BY DEF PlaceInv, Create
  <2>3. (~needStart[k] => Tokens(k))'
    BY DEF PlaceInv, Tokens, Taken, Posted, Holds, Claims, One, FlagsOK, Create
  <2>4. (~needStart[k] => Slots(k))'
    BY DEF PlaceInv, Slots, FlagsOK, PlacesOK, CountsOK, Create
  <2> QED BY <2>1, <2>2, <2>3, <2>4 DEF LinkInv
<1> QED BY <1>1, <1>2, <1>3, <1>4, <1>5

\* The client holds its critical section.
LEMMA EnterBtStep ==
  ASSUME MtTypeOK, MtInv, EnterBt
  PROVE  MtInv'
<1> USE SizeFact DEF MtTypeOK, MtInv
<1>1. PlaceInv'
  BY DEF PlaceInv, EnterBt
<1>2. ThreadInv'
  BY DEF PlaceInv, ThreadInv, LinkInv, Quiet, Handshake, Exiting, FlagsOK, EnterBt
<1>3. SectionInv'
  BY DEF SectionInv, PlaceInv, PlacesOK, EnterBt, Enter
<1>4. SpentInv'
  BY DEF SpentInv, EnterBt
<1>5. ASSUME NEW k \in Link PROVE LinkInv(k)'
  <2>1. (needStart[k] /\ prod[k] # "none" => Quiet(k))'
    BY DEF PlaceInv, ThreadInv, LinkInv, Quiet, Handshake, Tokens, Exiting, FlagsOK, PlacesOK,
        SemsOK, EnterBt
  <2>2. (~needStart[k] => Handshake(k))'
    BY DEF PlaceInv, ThreadInv, LinkInv, Quiet, Handshake, Exiting, FlagsOK, Ending, EnterBt
  <2>3. (~needStart[k] => Tokens(k))'
    BY DEF PlaceInv, ThreadInv, LinkInv, Quiet, Handshake, Tokens, Exiting, Taken, Posted, Holds,
        Claims, One, FlagsOK, PlacesOK, SemsOK, Ending, counts, EnterBt
  <2>4. (~needStart[k] => Slots(k))'
    BY DEF PlaceInv, ThreadInv, LinkInv, Handshake, Slots, FlagsOK, PlacesOK, CountsOK, Running,
        Ending, counts, EnterBt
  <2> QED BY <2>1, <2>2, <2>3, <2>4 DEF LinkInv
<1> QED BY <1>1, <1>2, <1>3, <1>4, <1>5

\* The bt thread holds its critical section.
LEMMA EnterHashStep ==
  ASSUME MtTypeOK, MtInv, EnterHash
  PROVE  MtInv'
<1> USE SizeFact DEF MtTypeOK, MtInv
<1>1. PlaceInv'
  BY DEF PlaceInv, ThreadInv, LinkInv, Quiet, Handshake, Exiting, FlagsOK, PlacesOK, Ending,
      EnterHash
<1>2. ThreadInv'
  BY DEF PlaceInv, ThreadInv, LinkInv, Quiet, Handshake, Exiting, FlagsOK, PlacesOK, EnterHash
<1>3. SectionInv'
  BY DEF SectionInv, PlaceInv, PlacesOK, EnterHash, Enter
<1>4. SpentInv'
  BY DEF SpentInv, PlaceInv, PlacesOK, EnterHash
<1>5. ASSUME NEW k \in Link PROVE LinkInv(k)'
  <2>1. (needStart[k] /\ prod[k] # "none" => Quiet(k))'
    BY DEF PlaceInv, Tokens, FlagsOK, EnterHash
  <2>2. (~needStart[k] => Handshake(k))'
    BY DEF PlaceInv, ThreadInv, LinkInv, Quiet, Handshake, Exiting, FlagsOK, PlacesOK, Ending,
        EnterHash
  <2>3. (~needStart[k] => Tokens(k))'
    <3>1. CASE k = "hash"
      BY <3>1 DEF EnterHash, Enter, LinkInv, PlaceInv, Tokens, Taken, Posted, Holds, Claims, One,
          Ending, PlacesOK, counts
    <3>2. CASE k = "bt"
      BY <3>2 DEF EnterHash, Enter, LinkInv, PlaceInv, Tokens, Taken, Posted, Holds, Claims, One,
          PlacesOK, counts
    <3> QED BY <3>1, <3>2
  <2>4. (~needStart[k] => Slots(k))'
    BY DEF PlaceInv, ThreadInv, LinkInv, Handshake, Slots, FlagsOK, PlacesOK, CountsOK, Running,
        Ending, counts, EnterHash
  <2> QED BY <2>1, <2>2, <2>3, <2>4 DEF LinkInv
<1> QED BY <1>1, <1>2, <1>3, <1>4, <1>5

\* The block is in the slot that was claimed.
LEMMA FillHashStep ==
  ASSUME MtTypeOK, MtInv, FillHash
  PROVE  MtInv'
<1> USE SizeFact DEF MtTypeOK, MtInv
<1>1. PlaceInv'
  BY DEF PlaceInv, FillHash, Finish
<1>2. ThreadInv'
  BY DEF PlaceInv, ThreadInv, LinkInv, Quiet, Handshake, Exiting, FlagsOK, PlacesOK, FillHash,
      Finish
<1>3. SectionInv'
  BY DEF SectionInv, PlaceInv, FillHash, Finish
<1>4. SpentInv'
  BY DEF SpentInv, PlaceInv, FillHash, Finish
<1>5. ASSUME NEW k \in Link PROVE LinkInv(k)'
  <2>1. (needStart[k] /\ prod[k] # "none" => Quiet(k))'
    BY DEF PlaceInv, ThreadInv, LinkInv, Quiet, Handshake, Tokens, Exiting, FlagsOK, PlacesOK,
        SemsOK, FillHash
  <2>2. (~needStart[k] => Handshake(k))'
    BY DEF PlaceInv, ThreadInv, LinkInv, Quiet, Handshake, Exiting, FlagsOK, PlacesOK, Running,
        FillHash, Finish
  <2>3. (~needStart[k] => Tokens(k))'
    BY DEF PlaceInv, ThreadInv, LinkInv, Quiet, Handshake, Tokens, Exiting, Taken, Posted, Holds,
        Claims, One, FlagsOK, PlacesOK, SemsOK, CountsOK, FillHash, Finish
  <2>4. (~needStart[k] => Slots(k))'
    <3>1. CASE k = "hash"
      <4> SUFFICES ASSUME ~needStart["hash"], cons'["hash"] \notin Ending PROVE Slots("hash")'
        BY <3>1 DEF FillHash, Slots
      <4>1. cons["hash"] \notin Ending \cup {"joinHash", "exitBt", "joinBt"} /\ prod["hash"] = "fill" /\ "hash" \in Link
        BY DEF FillHash, PlaceInv
      <4>2. Tokens("hash") /\ Slots("hash") BY <4>1 DEF LinkInv
      <4>3. \A i \in (numProcessed["hash"] - 1)..(made["hash"] - 1) :
              i \in Nat /\ Slot("hash", i) # Slot("hash", made["hash"])
        <5>1. prod["hash"] # "wait" /\ cons["hash"] \notin Ending \cup {"joinHash", "exitBt", "joinBt"}
          BY <4>1
        <5> HIDE DEF MtInv
        <5> QED BY <4>1, <4>2, <5>1, Room
      <4> DEFINE m == made["hash"]
      <4>4. \A i \in (numProcessed["hash"] - 1)..(m - 1) : buf["hash"][Slot("hash", i)] = Block(epoch, i)
        BY <4>1, <4>2 DEF Slots
      <4>5. buf'["hash"] = [buf["hash"] EXCEPT ![Slot("hash", m)] = Block(epoch, m)]
        BY <4>1 DEF FillHash, Finish, BufOK
      <4>6. Slot("hash", m) \in 0..(N("hash") - 1) BY <4>1, SlotRange DEF CountsOK
      <4>7. made'["hash"] = m + 1 /\ m \in Nat /\ numProcessed'["hash"] = numProcessed["hash"]
            /\ numProcessed["hash"] \in Nat /\ epoch' = epoch
        BY <4>1 DEF FillHash, Finish, CountsOK
      <4>8. \A i \in (numProcessed["hash"] - 1)..m : buf'["hash"][Slot("hash", i)] = Block(epoch, i)
        <5> HIDE DEF m
        <5> SUFFICES ASSUME NEW i \in (numProcessed["hash"] - 1)..m
                     PROVE buf'["hash"][Slot("hash", i)] = Block(epoch, i)
          OBVIOUS
        <5>1. buf["hash"] \in [0..(N("hash") - 1) -> [epoch : 0..MaxEpoch, at : Nat]]
          BY <4>1 DEF BufOK
        <5>2. CASE i = m BY <4>5, <4>6, <5>1, <5>2
        <5>3. CASE i # m
          <6>1. i \in (numProcessed["hash"] - 1)..(m - 1)
            <7>1. m \in Int /\ numProcessed["hash"] - 1 \in Int BY <4>7
            <7> QED BY <7>1, <5>3
          <6>2. Slot("hash", i) \in 0..(N("hash") - 1) BY <6>1, <4>1, <4>3, SlotRange DEF m
          <6> QED BY <4>3, <4>4, <4>5, <5>1, <6>1, <6>2 DEF m
        <5> QED BY <5>2, <5>3
      <4>9. (made'["hash"] - 1) = m BY <4>7
      <4> QED BY <4>7, <4>8, <4>9 DEF Slots
    <3>2. CASE k = "bt"
      <4>1. cons'[k] = cons[k] \/ (cons'[k] = "out" /\ cons[k] = "full")
        BY <3>2 DEF FillHash
      <4>2. buf'[k] = buf[k] /\ prod'[k] = prod[k] /\ made'[k] = made[k]
            /\ numProcessed'[k] = numProcessed[k] /\ epoch' = epoch /\ needStart'[k] = needStart[k]
        BY <3>2 DEF FillHash, Finish
      <4>3. ~needStart[k] => Slots(k) BY DEF LinkInv
      <4> QED BY <4>1, <4>2, <4>3 DEF Slots, Ending
    <3> QED BY <3>1, <3>2
  <2> QED BY <2>1, <2>2, <2>3, <2>4 DEF LinkInv
<1> QED BY <1>1, <1>2, <1>3, <1>4, <1>5

\* Nothing but the hash thread's place changes.
LEMMA NeedMoveStep ==
  ASSUME MtTypeOK, MtInv, NeedMove
  PROVE  MtInv'
<1> USE SizeFact DEF MtTypeOK, MtInv
<1>1. PlaceInv'
  BY DEF PlaceInv, NeedMove
<1>2. ThreadInv'
  BY DEF PlaceInv, ThreadInv, LinkInv, Quiet, Handshake, Exiting, FlagsOK, NeedMove
<1>3. SectionInv'
  BY DEF SectionInv, NeedMove
<1>4. SpentInv'
  BY DEF SpentInv, NeedMove
<1>5. ASSUME NEW k \in Link PROVE LinkInv(k)'
  <2>1. (needStart[k] /\ prod[k] # "none" => Quiet(k))'
    BY DEF PlaceInv, ThreadInv, LinkInv, Quiet, Handshake, Tokens, Exiting, FlagsOK, PlacesOK,
        SemsOK, NeedMove
  <2>2. (~needStart[k] => Handshake(k))'
    BY DEF PlaceInv, ThreadInv, LinkInv, Quiet, Handshake, Exiting, FlagsOK, Running, NeedMove
  <2>3. (~needStart[k] => Tokens(k))'
    BY DEF PlaceInv, ThreadInv, LinkInv, Quiet, Handshake, Tokens, Exiting, Taken, Posted, Holds,
        Claims, One, FlagsOK, PlacesOK, SemsOK, counts, NeedMove
  <2>4. (~needStart[k] => Slots(k))'
    BY DEF PlaceInv, ThreadInv, LinkInv, Handshake, Slots, FlagsOK, PlacesOK, CountsOK, Running,
        Ending, counts, NeedMove
  <2> QED BY <2>1, <2>2, <2>3, <2>4 DEF LinkInv
<1> QED BY <1>1, <1>2, <1>3, <1>4, <1>5

\* The client is not in its critical section.
LEMMA LockBtStep ==
  ASSUME MtTypeOK, MtInv, LockBt
  PROVE  MtInv'
<1> USE SizeFact DEF MtTypeOK, MtInv
<1>1. PlaceInv'
  BY DEF PlaceInv, LockBt
<1>2. ThreadInv'
  BY DEF PlaceInv, ThreadInv, LinkInv, Quiet, Handshake, Exiting, FlagsOK, LockBt
<1>3. SectionInv'
  BY DEF SectionInv, PlacesOK, LockBt
<1>4. SpentInv'
  BY DEF SpentInv, LockBt
<1>5. ASSUME NEW k \in Link PROVE LinkInv(k)'
  <2>1. (needStart[k] /\ prod[k] # "none" => Quiet(k))'
    BY DEF PlaceInv, ThreadInv, LinkInv, Quiet, Handshake, Tokens, Exiting, FlagsOK, PlacesOK,
        SemsOK, LockBt
  <2>2. (~needStart[k] => Handshake(k))'
    BY DEF PlaceInv, ThreadInv, LinkInv, Quiet, Handshake, Exiting, FlagsOK, Running, LockBt
  <2>3. (~needStart[k] => Tokens(k))'
    BY DEF PlaceInv, ThreadInv, LinkInv, Quiet, Handshake, Tokens, Exiting, Taken, Posted, Holds,
        Claims, One, FlagsOK, PlacesOK, SemsOK, counts, LockBt
  <2>4. (~needStart[k] => Slots(k))'
    BY DEF PlaceInv, ThreadInv, LinkInv, Handshake, Slots, FlagsOK, PlacesOK, CountsOK, Running,
        Ending, counts, LockBt
  <2> QED BY <2>1, <2>2, <2>3, <2>4 DEF LinkInv
<1> QED BY <1>1, <1>2, <1>3, <1>4, <1>5

\* The bt thread is not in its critical section.
LEMMA LockHashStep ==
  ASSUME MtTypeOK, MtInv, LockHash
  PROVE  MtInv'
<1> USE SizeFact DEF MtTypeOK, MtInv
<1>1. PlaceInv'
  BY DEF PlaceInv, LockHash
<1>2. ThreadInv'
  BY DEF PlaceInv, ThreadInv, LinkInv, Quiet, Handshake, Exiting, FlagsOK, LockHash
<1>3. SectionInv'
  BY DEF SectionInv, PlacesOK, LockHash
<1>4. SpentInv'
  BY DEF SpentInv, LockHash
<1>5. ASSUME NEW k \in Link PROVE LinkInv(k)'
  <2>1. (needStart[k] /\ prod[k] # "none" => Quiet(k))'
    BY DEF PlaceInv, ThreadInv, LinkInv, Quiet, Handshake, Tokens, Exiting, FlagsOK, PlacesOK,
        SemsOK, LockHash
  <2>2. (~needStart[k] => Handshake(k))'
    BY DEF PlaceInv, ThreadInv, LinkInv, Quiet, Handshake, Exiting, FlagsOK, Running, LockHash
  <2>3. (~needStart[k] => Tokens(k))'
    BY DEF PlaceInv, ThreadInv, LinkInv, Quiet, Handshake, Tokens, Exiting, Taken, Posted, Holds,
        Claims, One, FlagsOK, PlacesOK, SemsOK, counts, LockHash
  <2>4. (~needStart[k] => Slots(k))'
    BY DEF PlaceInv, ThreadInv, LinkInv, Handshake, Slots, FlagsOK, PlacesOK, CountsOK, Running,
        Ending, counts, LockHash
  <2> QED BY <2>1, <2>2, <2>3, <2>4 DEF LinkInv
<1> QED BY <1>1, <1>2, <1>3, <1>4, <1>5

\* The client may go on.
LEMMA LeaveBtStep ==
  ASSUME MtTypeOK, MtInv, LeaveBt
  PROVE  MtInv'
<1> USE SizeFact DEF MtTypeOK, MtInv
<1>1. PlaceInv'
  BY DEF PlaceInv, LeaveBt
<1>2. ThreadInv'
  BY DEF PlaceInv, ThreadInv, LinkInv, Quiet, Handshake, Exiting, FlagsOK, LeaveBt
<1>3. SectionInv'
  BY DEF SectionInv, PlacesOK, LeaveBt
<1>4. SpentInv'
  BY DEF SpentInv, LeaveBt
<1>5. ASSUME NEW k \in Link PROVE LinkInv(k)'
  <2>1. (needStart[k] /\ prod[k] # "none" => Quiet(k))'
    BY DEF PlaceInv, ThreadInv, LinkInv, Quiet, Handshake, Tokens, Exiting, FlagsOK, PlacesOK,
        SemsOK, LeaveBt
  <2>2. (~needStart[k] => Handshake(k))'
    BY DEF PlaceInv, ThreadInv, LinkInv, Quiet, Handshake, Exiting, FlagsOK, Running, LeaveBt
  <2>3. (~needStart[k] => Tokens(k))'
    BY DEF PlaceInv, ThreadInv, LinkInv, Quiet, Handshake, Tokens, Exiting, Taken, Posted, Holds,
        Claims, One, FlagsOK, PlacesOK, SemsOK, counts, LeaveBt
  <2>4. (~needStart[k] => Slots(k))'
    BY DEF PlaceInv, ThreadInv, LinkInv, Handshake, Slots, FlagsOK, PlacesOK, CountsOK, Running,
        Ending, counts, LeaveBt
  <2> QED BY <2>1, <2>2, <2>3, <2>4 DEF LinkInv
<1> QED BY <1>1, <1>2, <1>3, <1>4, <1>5

\* The bt thread may go on.
LEMMA LeaveHashStep ==
  ASSUME MtTypeOK, MtInv, LeaveHash
  PROVE  MtInv'
<1> USE SizeFact DEF MtTypeOK, MtInv
<1>1. PlaceInv'
  BY DEF PlaceInv, LeaveHash
<1>2. ThreadInv'
  BY DEF PlaceInv, ThreadInv, LinkInv, Quiet, Handshake, Exiting, FlagsOK, LeaveHash
<1>3. SectionInv'
  BY DEF SectionInv, PlacesOK, LeaveHash
<1>4. SpentInv'
  BY DEF SpentInv, LeaveHash
<1>5. ASSUME NEW k \in Link PROVE LinkInv(k)'
  <2>1. (needStart[k] /\ prod[k] # "none" => Quiet(k))'
    BY DEF PlaceInv, ThreadInv, LinkInv, Quiet, Handshake, Tokens, Exiting, FlagsOK, PlacesOK,
        SemsOK, LeaveHash
  <2>2. (~needStart[k] => Handshake(k))'
    BY DEF PlaceInv, ThreadInv, LinkInv, Quiet, Handshake, Exiting, FlagsOK, Running, LeaveHash
  <2>3. (~needStart[k] => Tokens(k))'
    BY DEF PlaceInv, ThreadInv, LinkInv, Quiet, Handshake, Tokens, Exiting, Taken, Posted, Holds,
        Claims, One, FlagsOK, PlacesOK, SemsOK, counts, LeaveHash
  <2>4. (~needStart[k] => Slots(k))'
    BY DEF PlaceInv, ThreadInv, LinkInv, Handshake, Slots, FlagsOK, PlacesOK, CountsOK, Running,
        Ending, counts, LeaveHash
  <2> QED BY <2>1, <2>2, <2>3, <2>4 DEF LinkInv
<1> QED BY <1>1, <1>2, <1>3, <1>4, <1>5

\* The bt thread's first block of a stream has no critical section, and starts with no heads.
LEMMA FillBlockStep ==
  ASSUME MtTypeOK, MtInv, FillBlock
  PROVE  MtInv'
<1> USE SizeFact DEF MtTypeOK, MtInv
<1>1. PlaceInv'
  BY DEF PlaceInv, ThreadInv, LinkInv, Quiet, Handshake, Exiting, FlagsOK, Ending, FillBlock
<1>2. ThreadInv'
  BY DEF PlaceInv, ThreadInv, LinkInv, Quiet, Handshake, Exiting, FlagsOK, FillBlock
<1>3. SectionInv'
  BY DEF SectionInv, PlaceInv, PlacesOK, FillBlock, Enter
<1>4. SpentInv'
  BY DEF SpentInv, FillBlock
<1>5. ASSUME NEW k \in Link PROVE LinkInv(k)'
  <2>1. (needStart[k] /\ prod[k] # "none" => Quiet(k))'
    BY DEF PlaceInv, ThreadInv, LinkInv, Quiet, Handshake, Tokens, Exiting, FlagsOK, PlacesOK,
        SemsOK, FillBlock
  <2>2. (~needStart[k] => Handshake(k))'
    BY DEF PlaceInv, ThreadInv, LinkInv, Quiet, Handshake, Exiting, FlagsOK, Ending, FillBlock
  <2>3. (~needStart[k] => Tokens(k))'
    BY DEF PlaceInv, ThreadInv, LinkInv, Quiet, Handshake, Tokens, Exiting, Taken, Posted, Holds,
        Claims, One, FlagsOK, PlacesOK, SemsOK, Ending, counts, FillBlock
  <2>4. (~needStart[k] => Slots(k))'
    BY DEF PlaceInv, ThreadInv, LinkInv, Handshake, Slots, FlagsOK, PlacesOK, CountsOK, Running,
        Ending, counts, FillBlock
  <2> QED BY <2>1, <2>2, <2>3, <2>4 DEF LinkInv
<1> QED BY <1>1, <1>2, <1>3, <1>4, <1>5

\* Heads are left over only where the hash link runs.
LEMMA MatchStep ==
  ASSUME MtTypeOK, MtInv, Match
  PROVE  MtInv'
<1> USE SizeFact DEF MtTypeOK, MtInv
<1>1. PlaceInv'
  <2>1. prod' = prod /\ needStart' = needStart
    <3>1. flags' = flags BY DEF Match
    <3>2. prod' = prod BY DEF Match
    <3> QED BY <3>1, <3>2
  <2>2. cons["hash"] = "match" /\ prod["bt"] = "fill" BY DEF Match, PlaceInv, Ending
  <2>3. cons' = [cons EXCEPT !["hash"] = "match"] \/ cons' = [cons EXCEPT !["hash"] = "full"]
    BY DEF Match
  <2>4. ~needStart["hash"]
    BY <2>2 DEF Match, SpentInv, LinkInv, Quiet
  <2> QED BY <2>1, <2>2, <2>3, <2>4 DEF PlaceInv, PlacesOK
<1>2. ThreadInv'
  BY DEF PlaceInv, ThreadInv, LinkInv, Quiet, Handshake, Exiting, FlagsOK, PlacesOK, Match
<1>3. SectionInv'
  BY DEF SectionInv, PlacesOK, Match
<1>4. SpentInv'
  BY DEF SpentInv, PlacesOK, Match
<1>5. ASSUME NEW k \in Link PROVE LinkInv(k)'
  <2>1. (needStart[k] /\ prod[k] # "none" => Quiet(k))'
    BY DEF PlaceInv, ThreadInv, LinkInv, Quiet, Handshake, Tokens, Exiting, FlagsOK, PlacesOK,
        SemsOK, Match
  <2>2. (~needStart[k] => Handshake(k))'
    BY DEF PlaceInv, ThreadInv, LinkInv, Quiet, Handshake, Exiting, FlagsOK, PlacesOK, Ending, Match
  <2>3. (~needStart[k] => Tokens(k))'
    BY DEF PlaceInv, ThreadInv, LinkInv, Quiet, Handshake, Tokens, Exiting, Taken, Posted, Holds,
        Claims, One, FlagsOK, PlacesOK, SemsOK, Ending, counts, Match
  <2>4. (~needStart[k] => Slots(k))'
    BY DEF PlaceInv, ThreadInv, LinkInv, Handshake, Slots, FlagsOK, PlacesOK, CountsOK, Running,
        Ending, counts, Match
  <2> QED BY <2>1, <2>2, <2>3, <2>4 DEF LinkInv
<1> QED BY <1>1, <1>2, <1>3, <1>4, <1>5

\* The bt thread asks for its next block, or starts the hash link.
LEMMA NextHashStep ==
  ASSUME MtTypeOK, MtInv, NextHash
  PROVE  MtInv'
<1> USE SizeFact DEF MtTypeOK, MtInv
<1>1. PlaceInv'
  BY DEF PlaceInv, ThreadInv, LinkInv, Quiet, Handshake, Exiting, FlagsOK, Ending, NextHash
<1>2. ThreadInv'
  BY DEF PlaceInv, ThreadInv, LinkInv, Quiet, Handshake, Exiting, FlagsOK, NextHash
<1>3. SectionInv'
  BY DEF SectionInv, NextHash
<1>4. SpentInv'
  BY DEF SpentInv, NextHash
<1>5. ASSUME NEW k \in Link PROVE LinkInv(k)'
  <2>1. (needStart[k] /\ prod[k] # "none" => Quiet(k))'
    BY DEF PlaceInv, ThreadInv, LinkInv, Quiet, Handshake, Tokens, Exiting, FlagsOK, PlacesOK,
        SemsOK, NextHash
  <2>2. (~needStart[k] => Handshake(k))'
    BY DEF PlaceInv, ThreadInv, LinkInv, Quiet, Handshake, Exiting, FlagsOK, Ending, NextHash
  <2>3. (~needStart[k] => Tokens(k))'
    BY DEF PlaceInv, ThreadInv, LinkInv, Quiet, Handshake, Tokens, Exiting, Taken, Posted, Holds,
        Claims, One, FlagsOK, PlacesOK, SemsOK, Ending, counts, NextHash
  <2>4. (~needStart[k] => Slots(k))'
    BY DEF PlaceInv, ThreadInv, LinkInv, Handshake, Slots, FlagsOK, PlacesOK, CountsOK, Running,
        Ending, counts, NextHash
  <2> QED BY <2>1, <2>2, <2>3, <2>4 DEF LinkInv
<1> QED BY <1>1, <1>2, <1>3, <1>4, <1>5

\* The block is in the slot that was claimed.
LEMMA FilledBlockStep ==
  ASSUME MtTypeOK, MtInv, FilledBlock
  PROVE  MtInv'
<1> USE SizeFact DEF MtTypeOK, MtInv
<1>1. PlaceInv'
  BY DEF PlaceInv, PlacesOK, FilledBlock, Finish
<1>2. ThreadInv'
  BY DEF PlaceInv, ThreadInv, LinkInv, Quiet, Handshake, Exiting, FlagsOK, PlacesOK, FilledBlock,
      Finish
<1>3. SectionInv'
  BY DEF SectionInv, PlaceInv, PlacesOK, FilledBlock, Finish
<1>4. SpentInv'
  BY DEF SpentInv, PlaceInv, FilledBlock
<1>5. ASSUME NEW k \in Link PROVE LinkInv(k)'
  <2>1. (needStart[k] /\ prod[k] # "none" => Quiet(k))'
    BY DEF PlaceInv, Tokens, FlagsOK, FilledBlock
  <2>2. (~needStart[k] => Handshake(k))'
    BY DEF PlaceInv, ThreadInv, LinkInv, Quiet, Handshake, Exiting, FlagsOK, PlacesOK, Running,
        Ending, FilledBlock, Finish
  <2>3. (~needStart[k] => Tokens(k))'
    BY DEF PlaceInv, ThreadInv, LinkInv, Quiet, Handshake, Tokens, Exiting, Taken, Posted, Holds,
        Claims, One, FlagsOK, PlacesOK, SemsOK, CountsOK, Ending, FilledBlock, Finish
  <2>4. (~needStart[k] => Slots(k))'
    <3>1. CASE k = "bt"
      <4> SUFFICES ASSUME ~needStart["bt"], cons'["bt"] \notin Ending PROVE Slots("bt")'
        BY <3>1 DEF FilledBlock, Slots
      <4>1. cons["bt"] \notin Ending \cup {"joinHash", "exitBt", "joinBt"} /\ prod["bt"] = "fill" /\ "bt" \in Link
        BY DEF FilledBlock, PlaceInv, Ending
      <4>2. Tokens("bt") /\ Slots("bt") BY <4>1 DEF LinkInv
      <4>3. \A i \in (numProcessed["bt"] - 1)..(made["bt"] - 1) :
              i \in Nat /\ Slot("bt", i) # Slot("bt", made["bt"])
        <5>1. prod["bt"] # "wait" /\ cons["bt"] \notin Ending \cup {"joinHash", "exitBt", "joinBt"}
          BY <4>1
        <5> HIDE DEF MtInv
        <5> QED BY <4>1, <4>2, <5>1, Room
      <4> DEFINE m == made["bt"]
      <4>4. \A i \in (numProcessed["bt"] - 1)..(m - 1) : buf["bt"][Slot("bt", i)] = Block(epoch, i)
        BY <4>1, <4>2 DEF Slots
      <4>5. buf'["bt"] = [buf["bt"] EXCEPT ![Slot("bt", m)] = Block(epoch, m)]
        BY <4>1 DEF FilledBlock, Finish, BufOK
      <4>6. Slot("bt", m) \in 0..(N("bt") - 1) BY <4>1, SlotRange DEF CountsOK
      <4>7. made'["bt"] = m + 1 /\ m \in Nat /\ numProcessed'["bt"] = numProcessed["bt"]
            /\ numProcessed["bt"] \in Nat /\ epoch' = epoch
        BY <4>1 DEF FilledBlock, Finish, CountsOK
      <4>8. \A i \in (numProcessed["bt"] - 1)..m : buf'["bt"][Slot("bt", i)] = Block(epoch, i)
        <5> HIDE DEF m
        <5> SUFFICES ASSUME NEW i \in (numProcessed["bt"] - 1)..m
                     PROVE buf'["bt"][Slot("bt", i)] = Block(epoch, i)
          OBVIOUS
        <5>1. buf["bt"] \in [0..(N("bt") - 1) -> [epoch : 0..MaxEpoch, at : Nat]]
          BY <4>1 DEF BufOK
        <5>2. CASE i = m BY <4>5, <4>6, <5>1, <5>2
        <5>3. CASE i # m
          <6>1. i \in (numProcessed["bt"] - 1)..(m - 1)
            <7>1. m \in Int /\ numProcessed["bt"] - 1 \in Int BY <4>7
            <7> QED BY <7>1, <5>3
          <6>2. Slot("bt", i) \in 0..(N("bt") - 1) BY <6>1, <4>1, <4>3, SlotRange DEF m
          <6> QED BY <4>3, <4>4, <4>5, <5>1, <6>1, <6>2 DEF m
        <5> QED BY <5>2, <5>3
      <4>9. (made'["bt"] - 1) = m BY <4>7
      <4> QED BY <4>7, <4>8, <4>9 DEF Slots
    <3>2. CASE k = "hash"
      <4>1. cons'[k] = cons[k] \/ (cons'[k] = "out" /\ cons[k] = "full")
        BY <3>2 DEF FilledBlock
      <4>2. buf'[k] = buf[k] /\ prod'[k] = prod[k] /\ made'[k] = made[k]
            /\ numProcessed'[k] = numProcessed[k] /\ epoch' = epoch /\ needStart'[k] = needStart[k]
        BY <3>2 DEF FilledBlock, Finish
      <4>3. ~needStart[k] => Slots(k) BY DEF LinkInv
      <4> QED BY <4>1, <4>2, <4>3 DEF Slots, Ending
    <3> QED BY <3>1, <3>2
  <2> QED BY <2>1, <2>2, <2>3, <2>4 DEF LinkInv
<1> QED BY <1>1, <1>2, <1>3, <1>4, <1>5

\* Both links are stopped: no slot is of use and no hash block is left.
LEMMA InitStreamStep ==
  ASSUME MtTypeOK, MtInv, InitStream
  PROVE  MtInv'
<1> USE SizeFact DEF MtTypeOK, MtInv
<1>1. PlaceInv'
  BY DEF PlaceInv, InitStream
<1>2. ThreadInv'
  BY DEF PlaceInv, ThreadInv, LinkInv, Quiet, Handshake, Exiting, FlagsOK, PlacesOK, InitStream,
      Created
<1>3. SectionInv'
  BY DEF SectionInv, InitStream
<1>4. SpentInv'
  BY DEF SpentInv, InitStream
<1>5. ASSUME NEW k \in Link PROVE LinkInv(k)'
  <2>1. (needStart[k] /\ prod[k] # "none" => Quiet(k))'
    BY DEF PlaceInv, ThreadInv, LinkInv, Quiet, Handshake, Tokens, Exiting, FlagsOK, PlacesOK,
        SemsOK, InitStream
  <2>2. (~needStart[k] => Handshake(k))'
    BY DEF PlaceInv, InitStream
  <2>3. (~needStart[k] => Tokens(k))'
    BY DEF PlaceInv, Tokens, Taken, Posted, Holds, Claims, One, FlagsOK, InitStream
  <2>4. (~needStart[k] => Slots(k))'
    BY DEF PlaceInv, Slots, FlagsOK, PlacesOK, CountsOK, InitStream
  <2> QED BY <2>1, <2>2, <2>3, <2>4 DEF LinkInv
<1> QED BY <1>1, <1>2, <1>3, <1>4, <1>5

\* Nothing but the client's place changes.
LEMMA GetNextBlockStep ==
  ASSUME MtTypeOK, MtInv, GetNextBlock
  PROVE  MtInv'
<1> USE SizeFact DEF MtTypeOK, MtInv
<1>1. PlaceInv'
  BY DEF PlaceInv, ThreadInv, LinkInv, Quiet, Handshake, Exiting, FlagsOK, Ending, GetNextBlock
<1>2. ThreadInv'
  BY DEF PlaceInv, ThreadInv, LinkInv, Quiet, Handshake, Exiting, FlagsOK, GetNextBlock
<1>3. SectionInv'
  BY DEF SectionInv, PlaceInv, GetNextBlock
<1>4. SpentInv'
  BY DEF SpentInv, GetNextBlock
<1>5. ASSUME NEW k \in Link PROVE LinkInv(k)'
  <2>1. (needStart[k] /\ prod[k] # "none" => Quiet(k))'
    BY DEF PlaceInv, ThreadInv, LinkInv, Quiet, Handshake, Tokens, Exiting, FlagsOK, PlacesOK,
        SemsOK, GetNextBlock
  <2>2. (~needStart[k] => Handshake(k))'
    BY DEF PlaceInv, ThreadInv, LinkInv, Quiet, Handshake, Exiting, FlagsOK, Ending, GetNextBlock
  <2>3. (~needStart[k] => Tokens(k))'
    BY DEF PlaceInv, ThreadInv, LinkInv, Quiet, Handshake, Tokens, Exiting, Taken, Posted, Holds,
        Claims, One, FlagsOK, PlacesOK, SemsOK, Ending, counts, GetNextBlock
  <2>4. (~needStart[k] => Slots(k))'
    BY DEF PlaceInv, ThreadInv, LinkInv, Handshake, Slots, FlagsOK, PlacesOK, CountsOK, Running,
        Ending, counts, GetNextBlock
  <2> QED BY <2>1, <2>2, <2>3, <2>4 DEF LinkInv
<1> QED BY <1>1, <1>2, <1>3, <1>4, <1>5

\* Nothing but the client's place changes.
LEMMA ReleaseStreamStep ==
  ASSUME MtTypeOK, MtInv, ReleaseStream
  PROVE  MtInv'
<1> USE SizeFact DEF MtTypeOK, MtInv
<1>1. PlaceInv'
  BY DEF PlaceInv, ThreadInv, LinkInv, Quiet, Handshake, Exiting, FlagsOK, Ending, ReleaseStream
<1>2. ThreadInv'
  BY DEF PlaceInv, ThreadInv, LinkInv, Quiet, Handshake, Exiting, FlagsOK, PlacesOK, ReleaseStream,
      Created
<1>3. SectionInv'
  BY DEF SectionInv, PlaceInv, ReleaseStream
<1>4. SpentInv'
  BY DEF SpentInv, ReleaseStream
<1>5. ASSUME NEW k \in Link PROVE LinkInv(k)'
  <2>1. (needStart[k] /\ prod[k] # "none" => Quiet(k))'
    BY DEF PlaceInv, ThreadInv, LinkInv, Quiet, Handshake, Tokens, Exiting, FlagsOK, PlacesOK,
        SemsOK, ReleaseStream
  <2>2. (~needStart[k] => Handshake(k))'
    BY DEF PlaceInv, ThreadInv, LinkInv, Quiet, Handshake, Exiting, FlagsOK, Ending, ReleaseStream
  <2>3. (~needStart[k] => Tokens(k))'
    BY DEF PlaceInv, ThreadInv, LinkInv, Quiet, Handshake, Tokens, Exiting, Taken, Posted, Holds,
        Claims, One, FlagsOK, PlacesOK, SemsOK, Ending, counts, ReleaseStream
  <2>4. (~needStart[k] => Slots(k))'
    BY DEF PlaceInv, ThreadInv, LinkInv, Handshake, Slots, FlagsOK, PlacesOK, CountsOK, Running,
        Ending, counts, ReleaseStream
  <2> QED BY <2>1, <2>2, <2>3, <2>4 DEF LinkInv
<1> QED BY <1>1, <1>2, <1>3, <1>4, <1>5

\* The hash link is stopped.
LEMMA DestructHashStep ==
  ASSUME MtTypeOK, MtInv, DestructHash
  PROVE  MtInv'
<1> USE SizeFact DEF MtTypeOK, MtInv
<1>1. PlaceInv'
  BY DEF PlaceInv, ThreadInv, LinkInv, Quiet, Handshake, Exiting, FlagsOK, PlacesOK, Ending,
      DestructHash, TellExit
<1>2. ThreadInv'
  BY DEF PlaceInv, ThreadInv, LinkInv, Quiet, Handshake, Exiting, FlagsOK, PlacesOK, DestructHash,
      TellExit
<1>3. SectionInv'
  BY DEF SectionInv, PlaceInv, DestructHash, TellExit
<1>4. SpentInv'
  BY DEF SpentInv, PlaceInv, DestructHash, TellExit
<1>5. ASSUME NEW k \in Link PROVE LinkInv(k)'
  <2>1. (needStart[k] /\ prod[k] # "none" => Quiet(k))'
    BY DEF PlaceInv, ThreadInv, LinkInv, Quiet, Handshake, Tokens, Exiting, FlagsOK, PlacesOK,
        SemsOK, CountsOK, DestructHash, TellExit
  <2>2. (~needStart[k] => Handshake(k))'
    BY DEF PlaceInv, DestructHash, TellExit
  <2>3. (~needStart[k] => Tokens(k))'
    BY DEF PlaceInv, Tokens, Taken, Posted, Holds, Claims, One, FlagsOK, PlacesOK, DestructHash,
        TellExit
  <2>4. (~needStart[k] => Slots(k))'
    BY DEF PlaceInv, Slots, FlagsOK, PlacesOK, CountsOK, Slot, DestructHash, TellExit
  <2> QED BY <2>1, <2>2, <2>3, <2>4 DEF LinkInv
<1> QED BY <1>1, <1>2, <1>3, <1>4, <1>5

\* The hash thread has ended.
LEMMA JoinHashStep ==
  ASSUME MtTypeOK, MtInv, JoinHash
  PROVE  MtInv'
<1> USE SizeFact DEF MtTypeOK, MtInv
<1>1. PlaceInv'
  BY DEF PlaceInv, ThreadInv, LinkInv, Quiet, Handshake, Exiting, FlagsOK, PlacesOK, Ending,
      JoinHash, Joined
<1>2. ThreadInv'
  BY DEF PlaceInv, ThreadInv, LinkInv, Quiet, Handshake, Exiting, FlagsOK, PlacesOK, JoinHash,
      Joined
<1>3. SectionInv'
  BY DEF SectionInv, PlaceInv, JoinHash, Joined
<1>4. SpentInv'
  BY DEF SpentInv, PlaceInv, JoinHash, Joined
<1>5. ASSUME NEW k \in Link PROVE LinkInv(k)'
  <2>1. (needStart[k] /\ prod[k] # "none" => Quiet(k))'
    BY DEF PlaceInv, ThreadInv, LinkInv, Quiet, Handshake, Tokens, Exiting, FlagsOK, PlacesOK,
        SemsOK, CountsOK, JoinHash, Joined
  <2>2. (~needStart[k] => Handshake(k))'
    BY DEF PlaceInv, JoinHash, Joined
  <2>3. (~needStart[k] => Tokens(k))'
    BY DEF PlaceInv, Tokens, Taken, Posted, Holds, Claims, One, FlagsOK, PlacesOK, JoinHash, Joined
  <2>4. (~needStart[k] => Slots(k))'
    BY DEF PlaceInv, Slots, FlagsOK, PlacesOK, CountsOK, Slot, JoinHash, Joined
  <2> QED BY <2>1, <2>2, <2>3, <2>4 DEF LinkInv
<1> QED BY <1>1, <1>2, <1>3, <1>4, <1>5

\* The bt link is stopped.
LEMMA DestructBtStep ==
  ASSUME MtTypeOK, MtInv, DestructBt
  PROVE  MtInv'
<1> USE SizeFact DEF MtTypeOK, MtInv
<1>1. PlaceInv'
  BY DEF PlaceInv, ThreadInv, LinkInv, Quiet, Handshake, Exiting, FlagsOK, PlacesOK, Ending,
      DestructBt, TellExit
<1>2. ThreadInv'
  BY DEF PlaceInv, ThreadInv, LinkInv, Quiet, Handshake, Exiting, FlagsOK, PlacesOK, DestructBt,
      TellExit
<1>3. SectionInv'
  BY DEF SectionInv, PlaceInv, DestructBt, TellExit
<1>4. SpentInv'
  BY DEF SpentInv, PlaceInv, DestructBt, TellExit
<1>5. ASSUME NEW k \in Link PROVE LinkInv(k)'
  <2>1. (needStart[k] /\ prod[k] # "none" => Quiet(k))'
    BY DEF PlaceInv, ThreadInv, LinkInv, Quiet, Handshake, Tokens, Exiting, FlagsOK, PlacesOK,
        SemsOK, CountsOK, DestructBt, TellExit
  <2>2. (~needStart[k] => Handshake(k))'
    BY DEF PlaceInv, DestructBt, TellExit
  <2>3. (~needStart[k] => Tokens(k))'
    BY DEF PlaceInv, Tokens, Taken, Posted, Holds, Claims, One, FlagsOK, PlacesOK, DestructBt,
        TellExit
  <2>4. (~needStart[k] => Slots(k))'
    BY DEF PlaceInv, Slots, FlagsOK, PlacesOK, CountsOK, Slot, DestructBt, TellExit
  <2> QED BY <2>1, <2>2, <2>3, <2>4 DEF LinkInv
<1> QED BY <1>1, <1>2, <1>3, <1>4, <1>5

\* The bt thread has ended.
LEMMA JoinBtStep ==
  ASSUME MtTypeOK, MtInv, JoinBt
  PROVE  MtInv'
<1> USE SizeFact DEF MtTypeOK, MtInv
<1>1. PlaceInv'
  BY DEF PlaceInv, JoinBt, Joined
<1>2. ThreadInv'
  BY DEF PlaceInv, ThreadInv, LinkInv, Quiet, Handshake, Exiting, FlagsOK, PlacesOK, JoinBt, Joined
<1>3. SectionInv'
  BY DEF SectionInv, PlaceInv, JoinBt, Joined
<1>4. SpentInv'
  BY DEF SpentInv, PlaceInv, JoinBt, Joined
<1>5. ASSUME NEW k \in Link PROVE LinkInv(k)'
  <2>1. (needStart[k] /\ prod[k] # "none" => Quiet(k))'
    BY DEF PlaceInv, ThreadInv, LinkInv, Quiet, Handshake, Tokens, Exiting, FlagsOK, PlacesOK,
        SemsOK, CountsOK, JoinBt, Joined
  <2>2. (~needStart[k] => Handshake(k))'
    BY DEF PlaceInv, JoinBt, Joined
  <2>3. (~needStart[k] => Tokens(k))'
    BY DEF PlaceInv, Tokens, Taken, Posted, Holds, Claims, One, FlagsOK, PlacesOK, JoinBt, Joined
  <2>4. (~needStart[k] => Slots(k))'
    BY DEF PlaceInv, Slots, FlagsOK, PlacesOK, CountsOK, Slot, JoinBt, Joined
  <2> QED BY <2>1, <2>2, <2>3, <2>4 DEF LinkInv
<1> QED BY <1>1, <1>2, <1>3, <1>4, <1>5

\* Every step keeps the invariant.
LEMMA InvStep == MtTypeOK /\ MtInv /\ [MtNext]_vars => MtInv'
<1> SUFFICES ASSUME MtTypeOK, MtInv, [MtNext]_vars PROVE MtInv' OBVIOUS
<1>1. CASE UNCHANGED vars
  BY <1>1 DEF vars, counts, MtInv, PlaceInv, ThreadInv, LinkInv, Quiet, Exiting, Handshake, Tokens,
      Taken, Posted, Holds, Claims, Slots, SectionInv, SpentInv
<1>2. ASSUME NEW l \in Link, Start(l) PROVE MtInv' BY <1>2, StartStep
<1>3. ASSUME NEW l \in Link, Started(l) PROVE MtInv' BY <1>3, StartedStep
<1>4. ASSUME NEW l \in Link, Next(l) PROVE MtInv' BY <1>4, NextStep
<1>5. ASSUME NEW l \in Link, GiveBack(l) PROVE MtInv' BY <1>5, GiveBackStep
<1>6. ASSUME NEW l \in Link, Take(l) PROVE MtInv' BY <1>6, TakeStep
<1>7. ASSUME NEW l \in Link, Stop(l) PROVE MtInv' BY <1>7, StopStep
<1>8. ASSUME NEW l \in Link, Leave(l) PROVE MtInv' BY <1>8, LeaveStep
<1>9. ASSUME NEW l \in Link, Wake(l) PROVE MtInv' BY <1>9, WakeStep
<1>10. ASSUME NEW l \in Link, Await(l) PROVE MtInv' BY <1>10, AwaitStep
<1>11. ASSUME NEW l \in Link, Drain(l) PROVE MtInv' BY <1>11, DrainStep
<1>12. ASSUME NEW l \in Link, Drained(l) PROVE MtInv' BY <1>12, DrainedStep
<1>13. ASSUME NEW l \in Link, Stopped(l) PROVE MtInv' BY <1>13, StoppedStep
<1>14. ASSUME NEW l \in Link, CanStart(l) PROVE MtInv' BY <1>14, CanStartStep
<1>15. ASSUME NEW l \in Link, Signal(l) PROVE MtInv' BY <1>15, SignalStep
<1>16. ASSUME NEW l \in Link, Exit(l) PROVE MtInv' BY <1>16, ExitStep
<1>17. ASSUME NEW l \in Link, SeeStop(l) PROVE MtInv' BY <1>17, SeeStopStep
<1>18. ASSUME NEW l \in Link, TellStopped(l) PROVE MtInv' BY <1>18, TellStoppedStep
<1>19. ASSUME NEW l \in Link, GoOn(l) PROVE MtInv' BY <1>19, GoOnStep
<1>20. ASSUME NEW l \in Link, Claim(l) PROVE MtInv' BY <1>20, ClaimStep
<1>21. ASSUME NEW l \in Link, Post(l) PROVE MtInv' BY <1>21, PostStep
<1>22. ASSUME NEW l \in Link, Create(l) PROVE MtInv' BY <1>22, CreateStep
<1>23. CASE EnterBt BY <1>23, EnterBtStep
<1>24. CASE EnterHash BY <1>24, EnterHashStep
<1>25. CASE FillHash BY <1>25, FillHashStep
<1>26. CASE NeedMove BY <1>26, NeedMoveStep
<1>27. CASE LockBt BY <1>27, LockBtStep
<1>28. CASE LockHash BY <1>28, LockHashStep
<1>29. CASE LeaveBt BY <1>29, LeaveBtStep
<1>30. CASE LeaveHash BY <1>30, LeaveHashStep
<1>31. CASE FillBlock BY <1>31, FillBlockStep
<1>32. CASE Match BY <1>32, MatchStep
<1>33. CASE NextHash BY <1>33, NextHashStep
<1>34. CASE FilledBlock BY <1>34, FilledBlockStep
<1>35. CASE InitStream BY <1>35, InitStreamStep
<1>36. CASE GetNextBlock BY <1>36, GetNextBlockStep
<1>37. CASE ReleaseStream BY <1>37, ReleaseStreamStep
<1>38. CASE DestructHash BY <1>38, DestructHashStep
<1>39. CASE JoinHash BY <1>39, JoinHashStep
<1>40. CASE DestructBt BY <1>40, DestructBtStep
<1>41. CASE JoinBt BY <1>41, JoinBtStep
<1> QED
  BY <1>1, <1>2, <1>3, <1>4, <1>5, <1>6, <1>7, <1>8, <1>9, <1>10, <1>11, <1>12, <1>13, <1>14, <1>15,
      <1>16, <1>17, <1>18, <1>19, <1>20, <1>21, <1>22, <1>23, <1>24, <1>25, <1>26, <1>27, <1>28,
      <1>29, <1>30, <1>31, <1>32, <1>33, <1>34, <1>35, <1>36, <1>37, <1>38, <1>39, <1>40, <1>41 DEF
      MtNext, HashThread, BtThread, Client, ClientCall, Reader, Writer

\* Whatever the sizes of the buffers and the number of streams: the variables have their
\* types, and no semaphore passes its maximum (MatchFinderMt, ReleaseSemaphore).
THEOREM MtTypes == MtSpec => []MtTypeOK
  BY InitTypes, TypeStep, PTL DEF MtSpec

\* Where each thread is, what it has told the others and how many blocks and slots each
\* holds fit together, at every step of the three threads.
THEOREM MtInvariant == MtSpec => []MtInv
  BY InitTypes, TypeStep, InitInv, InvStep, PTL DEF MtSpec

\* A link that is at work is not to be started, and its tokens are all there.
LEMMA AtWork ==
  ASSUME MtTypeOK, MtInv, NEW l \in Link,
         cons[l] \in {"using", "free", "wake", "drained"} \/ prod[l] \in {"post", "moving"}
         \/ (l = "hash" /\ cons[l] = "match" /\ ~spent)
  PROVE  ~needStart[l] /\ Handshake(l) /\ Tokens(l) /\ Slots(l)
<1> USE DEF MtInv
<1>1. CASE prod[l] \in {"post", "moving"} BY <1>1 DEF LinkInv, Quiet
<1>2. CASE cons[l] \in {"using", "free", "wake", "drained"}
  <2>1. l = "hash" => cons[l] # "using" BY <1>2 DEF PlaceInv, Ending
  <2> QED BY <1>2, <2>1 DEF LinkInv, PlaceInv, Ending
<1>3. CASE l = "hash" /\ cons[l] = "match" /\ ~spent
  <2>1. l = "hash" /\ prod["bt"] = "fill" BY <1>3 DEF PlaceInv, Ending
  <2>2. ~needStart["bt"] BY <2>1 DEF LinkInv, Quiet
  <2> QED BY <1>3, <2>1, <2>2 DEF SpentInv, LinkInv
<1> QED BY <1>1, <1>2, <1>3

\* The block a reader uses is the one it asked for, of this stream.
LEMMA UsesTheBlock == MtTypeOK /\ MtInv => InOrder
<1> SUFFICES ASSUME MtTypeOK, MtInv, NEW l \in Link, Using(l)
             PROVE buf[l][Slot(l, numProcessed[l] - 1)] = Block(epoch, numProcessed[l] - 1)
  BY DEF InOrder
<1>1. cons[l] = "using" \/ (l = "hash" /\ cons[l] = "match" /\ ~spent) BY DEF Using
<1>2. Tokens(l) /\ Slots(l) BY <1>1, AtWork
<1>3. filledSem[l] = Posted(l) - Taken(l) /\ Taken(l) = numProcessed[l]
  BY <1>1, <1>2 DEF Tokens, Taken, Ending
<1>4. made[l] \in Nat /\ numProcessed[l] \in Nat /\ filledSem[l] \in Nat
  BY DEF MtTypeOK, CountsOK, SemsOK
<1>5. made[l] >= numProcessed[l] BY <1>3, <1>4 DEF Posted, One
<1>6. numProcessed[l] - 1 \in (numProcessed[l] - 1)..(made[l] - 1) BY <1>4, <1>5
<1>7. cons[l] \notin Ending /\ cons[l] # "starting" BY <1>1 DEF Ending
<1> QED BY <1>2, <1>6, <1>7 DEF Slots

\* Each block a thread uses is the next of its stream, however far the threads are ahead
\* of one another and wherever the last stream was broken off (MtSync_GetNextBlock).
THEOREM BlocksInOrder == MtSpec => []InOrder
  BY MtTypes, MtInvariant, UsesTheBlock, PTL

\* No thread is in the window while the hash thread moves it.
LEMMA NobodyLooks == MtTypeOK /\ MtInv => WindowStill
<1> SUFFICES ASSUME MtTypeOK, MtInv, prod["hash"] = "moving"
             PROVE ~Using("bt") /\ cons["hash"] # "match"
  BY DEF WindowStill
<1>1. cs["bt"] = "mover" /\ cs["hash"] = "mover" BY DEF MtInv, SectionInv
<1>2. ~needStart["hash"] BY AtWork
<1>3. cons["hash"] # "match" BY <1>1, <1>2 DEF MtInv, SectionInv
<1>4. Using("bt") => ~needStart["bt"] /\ cons["bt"] = "using" BY AtWork DEF Using
<1> QED BY <1>1, <1>3, <1>4 DEF MtInv, SectionInv

\* The window is moved only while neither reader looks into it (HashThreadFunc).
THEOREM WindowProtected == MtSpec => []WindowStill
  BY MtTypes, MtInvariant, NobodyLooks, PTL

\* There is room for the token where one is released.
LEMMA RoomForTokens == MtTypeOK /\ MtInv => NoReleaseLost
<1> SUFFICES ASSUME MtTypeOK, MtInv, NEW l \in Link
             PROVE /\ cons[l] \in {"free", "wake", "drained"} => freeSem[l] < N(l)
                   /\ prod[l] = "post" => filledSem[l] < N(l)
  BY DEF NoReleaseLost
<1>1. freeSem[l] \in Nat /\ filledSem[l] \in Nat /\ N(l) \in Nat
  BY SizeFact DEF MtTypeOK, SemsOK
<1>2. CASE cons[l] \in {"free", "wake", "drained"}
  <2>1. freeSem[l] + filledSem[l] + One(Holds(l)) + One(Claims(l)) = N(l)
    BY <1>2, AtWork DEF Tokens
  <2>2. One(Holds(l)) = 1 /\ One(Claims(l)) \in {0, 1} BY <1>2 DEF Holds, One
  <2>3. freeSem[l] < N(l) BY <1>1, <2>1, <2>2
  <2>4. prod[l] = "post" => One(Claims(l)) = 1 BY DEF Claims, One
  <2> QED BY <1>1, <2>1, <2>2, <2>3, <2>4
<1>3. CASE prod[l] = "post" /\ cons[l] \notin {"free", "wake", "drained"}
  <2>1. freeSem[l] + filledSem[l] + One(Holds(l)) + One(Claims(l)) = N(l)
    BY <1>3, AtWork DEF Tokens
  <2>2. One(Claims(l)) = 1 /\ One(Holds(l)) \in {0, 1} BY <1>3 DEF Claims, One
  <2> QED BY <1>1, <1>3, <2>1, <2>2
<1> QED BY <1>2, <1>3

\* No token is lost: ReleaseSemaphore never fails, although the code would not notice.
THEOREM TokensKept == MtSpec => []NoReleaseLost
  BY MtTypes, MtInvariant, RoomForTokens, PTL

\* Between two streams both links are as at first.
LEMMA BothStopped == MtTypeOK /\ MtInv => AtRest
<1> SUFFICES ASSUME MtTypeOK, MtInv, cons["bt"] = "out", NEW l \in Link, prod[l] # "none"
             PROVE /\ needStart[l] /\ prod[l] = "wait" /\ cons["hash"] = "out"
                   /\ freeSem[l] = N(l) /\ filledSem[l] = 0 /\ cs[l] = "nobody"
                   /\ ~canStart[l] /\ ~wasStarted[l] /\ ~wasStopped[l]
  BY DEF AtRest
<1> USE DEF MtInv
<1>1. needStart["bt"] /\ needStart["hash"] BY DEF PlaceInv
<1>2. prod["bt"] \in {"none", "wait"} /\ prod["hash"] \in {"none", "wait"} BY DEF ThreadInv
<1>3. cons["hash"] = "out" BY <1>2 DEF PlaceInv
<1>4. Quiet(l) /\ ~Exiting(l) BY <1>1 DEF LinkInv, Exiting
<1>5. cs[l] = "nobody"
  <2>1. cs[l] # "reader" /\ cs[l] # "mover" BY <1>1, <1>2 DEF SectionInv
  <2> QED BY <2>1 DEF MtTypeOK, PlacesOK
<1> QED BY <1>1, <1>2, <1>3, <1>4, <1>5 DEF Quiet

\* When the client is back from stopping the finder, both threads wait and every
\* semaphore and event is as at first (MtSync_StopWriting).
THEOREM StoppedAtRest == MtSpec => []AtRest
  BY MtTypes, MtInvariant, BothStopped, PTL

=============================================================================
