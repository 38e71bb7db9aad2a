--------------------------- MODULE RecvLaneProofs ---------------------------
(***************************************************************************)
(* Proofs about a receiving lane for any number of slots and frames, any   *)
(* of them arriving whole or refused, against any sender.                  *)
(*                                                                         *)
(* The frames matched with a receive are 1 .. Matched; those after them    *)
(* wait in order (QueueInOrder).  A matched frame is in one slot or has    *)
(* been processed (Apart, NoneLost), and posted counts the receives that   *)
(* have been matched and those that have not (Counters).  So when          *)
(* completed reaches the number of frames nothing can be pending.          *)
(***************************************************************************)
EXTENDS RecvLane, SequenceTheorems, FiniteSetTheorems, TLAPS

\* The frames a receive has been found for.
Matched == arrived - Len(unexpected)

\* The slots a frame is in or on its way to.
Holding == {s \in Slot : request[s] \in {"fetching", "complete"}}

\* Of the first n frames those in `done' and those in the slots `held', where
\* `at' says which, are different ones.
Apart(done, held, at, n) ==
    /\ done \subseteq 1..n
    /\ \A s \in held : at[s] \in (1..n) \ done
    /\ \A s, t \in held : at[s] = at[t] => s = t

\* Every one of the first n frames is in `done' or in a slot of `held'.
Covered(done, held, at, n) ==
    \A f \in 1..n : f \in done \/ \E s \in held : at[s] = f

\* The receives UCX holds are those of different slots that wait for them.
ReceivesPosted ==
    /\ \A i \in 1..Len(receives) : request[receives[i]] = "posted"
    /\ \A i, j \in 1..Len(receives) : receives[i] = receives[j] => i = j

\* Frames wait in order, and only while UCX has no receive for them.
QueueInOrder ==
    /\ \A i \in 1..Len(unexpected) : unexpected[i] = Matched + i
    /\ receives = <<>> \/ unexpected = <<>>

NoneLost == pc # "failed" => Covered(processed, Holding, frame, Matched)

Counters ==
    /\ completed = Cardinality(processed)
    /\ pc # "failed" => /\ posted = completed + Cardinality(Pending)
                        /\ posted = Matched + Len(receives)

\* The first loop over the slots finds them without a request.
Fresh ==
    /\ pc = "meta" => slot = 1
    /\ pc \in {"meta", "prepost"} => \A s \in Slot : s >= slot => request[s] = "null"

Ending == pc \in {"done", "finished"} => completed = Expected

Inv ==
    /\ TypeOK
    /\ ReceivesPosted
    /\ QueueInOrder
    /\ Apart(processed, Holding, frame, Matched)
    /\ NoneLost
    /\ Counters
    /\ Fresh
    /\ Ending

USE DepthAssumption, SendDepthAssumption, ExpectedAssumption, FramesAssumption
----------------------------------------------------------------------------

(* Facts about the three parts of the frames.                              *)

LEMMA Relabel ==
    ASSUME NEW done, NEW held, NEW at, NEW at2, NEW n, \A t \in held : at2[t] = at[t]
    PROVE  /\ Apart(done, held, at, n) => Apart(done, held, at2, n)
           /\ Covered(done, held, at, n) => Covered(done, held, at2, n)
BY DEF Apart, Covered

\* The next frame goes to a slot that had none.
LEMMA NextHeld ==
    ASSUME NEW done, NEW held, NEW at, NEW at2, NEW n \in Nat, NEW s,
           s \notin held, at2[s] = n + 1, \A t \in held : at2[t] = at[t]
    PROVE  /\ Apart(done, held, at, n) => Apart(done, held \cup {s}, at2, n + 1)
           /\ Covered(done, held, at, n) => Covered(done, held \cup {s}, at2, n + 1)
<1>1. 1..n+1 = 1..n \cup {n+1} /\ n + 1 \notin 1..n
  OBVIOUS
<1>2. Apart(done, held, at, n) => Apart(done, held \cup {s}, at2, n + 1)
  BY <1>1 DEF Apart
<1>3. Covered(done, held, at, n) => Covered(done, held \cup {s}, at2, n + 1)
  BY <1>1 DEF Covered
<1> QED BY <1>2, <1>3

\* The next frame is processed.
LEMMA NextDone ==
    ASSUME NEW done, NEW held, NEW at, NEW at2, NEW n \in Nat,
           \A t \in held : at2[t] = at[t]
    PROVE  /\ Apart(done, held, at, n) => Apart(done \cup {n + 1}, held, at2, n + 1)
           /\ Covered(done, held, at, n) => Covered(done \cup {n + 1}, held, at2, n + 1)
<1>1. 1..n+1 = 1..n \cup {n+1} /\ n + 1 \notin 1..n
  OBVIOUS
<1>2. Apart(done, held, at, n) => Apart(done \cup {n + 1}, held, at2, n + 1)
  BY <1>1 DEF Apart
<1>3. Covered(done, held, at, n) => Covered(done \cup {n + 1}, held, at2, n + 1)
  BY <1>1 DEF Covered
<1> QED BY <1>2, <1>3

\* A set of frames is finite and no larger than their number.
LEMMA FramesFinite ==
    ASSUME NEW F, F \subseteq Frame
    PROVE  /\ IsFiniteSet(F) /\ Cardinality(F) \in 0..Expected
           /\ Cardinality(F) = Expected => F = Frame
<1>1. IsFiniteSet(Frame) /\ Cardinality(Frame) = Expected
  BY FS_Interval DEF Frame
<1>2. /\ IsFiniteSet(F) /\ Cardinality(F) <= Cardinality(Frame)
      /\ Cardinality(Frame) = Cardinality(F) => Frame = F
  BY <1>1, FS_Subset
<1>3. Cardinality(F) \in Nat
  BY <1>2, FS_CardinalityType
<1> QED BY <1>1, <1>2, <1>3

\* So is a set of slots.
LEMMA SlotsFinite ==
    ASSUME NEW P, P \subseteq Slot
    PROVE  IsFiniteSet(P) /\ Cardinality(P) \in 0..Depth
<1>1. IsFiniteSet(Slot) /\ Cardinality(Slot) = Depth
  BY FS_Interval DEF Slot
<1>2. IsFiniteSet(P) /\ Cardinality(P) <= Cardinality(Slot)
  BY <1>1, FS_Subset
<1>3. Cardinality(P) \in Nat
  BY <1>2, FS_CardinalityType
<1> QED BY <1>1, <1>2, <1>3
----------------------------------------------------------------------------
(* The invariant.                                                          *)

LEMMA Basics ==
    ASSUME Inv
    PROVE  /\ Len(receives) \in Nat /\ Len(unexpected) \in Nat
           /\ \A i \in 1..Len(receives) : receives[i] \in Slot
           /\ \A i \in 1..Len(unexpected) : unexpected[i] \in Frame
           /\ Matched \in 0..Expected
           /\ arrived = Matched + Len(unexpected)
<1>1. receives \in Seq(Slot) /\ unexpected \in Seq(Frame) /\ arrived \in 0..Expected
  BY DEF Inv, TypeOK
<1>2. Len(receives) \in Nat /\ Len(unexpected) \in Nat
  BY <1>1, LenProperties
<1>3. /\ \A i \in 1..Len(receives) : receives[i] \in Slot
      /\ \A i \in 1..Len(unexpected) : unexpected[i] \in Frame
  BY <1>1, ElementOfSeq
<1>4. Matched \in Int /\ arrived = Matched + Len(unexpected)
  BY <1>1, <1>2 DEF Matched
<1>5. Matched >= 0
  <2>1. CASE Len(unexpected) = 0
    BY <2>1, <1>1, <1>4
  <2>2. CASE Len(unexpected) # 0
    <3>1. 1 \in 1..Len(unexpected)
      BY <2>2, <1>2
    <3>2. unexpected[1] = Matched + 1 /\ unexpected[1] \in Frame
      BY <3>1, <1>3 DEF Inv, QueueInOrder
    <3> QED BY <3>2, <1>4 DEF Frame
  <2> QED BY <2>1, <2>2
<1> QED BY <1>1, <1>2, <1>3, <1>4, <1>5

LEMMA InvInit == Init => Inv
<1> SUFFICES ASSUME Init PROVE Inv
  OBVIOUS
<1>1. receives \in Seq(Slot) /\ unexpected \in Seq(Frame)
  BY EmptySeq DEF Init
<1>2. TypeOK
  <2>1. request \in [Slot -> Request] /\ frame \in [Slot -> 0..Expected]
    BY DEF Init, Request
  <2>2. slot \in 1..Depth+1 /\ posted \in 0..Expected /\ completed \in 0..Expected
        /\ arrived \in 0..Expected
    BY DEF Init
  <2>3. processed \subseteq Frame /\ madeProgress \in BOOLEAN
    BY DEF Init
  <2> QED BY <1>1, <2>1, <2>2, <2>3 DEF Init, TypeOK
<1>3. Len(receives) = 0 /\ Len(unexpected) = 0 /\ Matched = 0
  <2>1. receives = <<>> /\ unexpected = <<>> /\ arrived = 0
    BY DEF Init
  <2>2. Len(receives) = 0 /\ Len(unexpected) = 0
    BY <2>1, EmptySeq
  <2>3. Matched = 0 - 0
    BY <2>1, <2>2 DEF Matched
  <2> QED BY <2>2, <2>3
<1>4. ReceivesPosted /\ QueueInOrder
  BY <1>3 DEF Init, ReceivesPosted, QueueInOrder
<1>5. Holding = {} /\ Pending = {} /\ processed = {}
  BY DEF Init, Holding, Pending
<1>6. Apart(processed, Holding, frame, Matched) /\ NoneLost
  BY <1>3, <1>5 DEF Apart, NoneLost, Covered
<1>7. Counters
  BY <1>3, <1>5, FS_EmptySet DEF Init, Counters
<1>8. Fresh /\ Ending
  BY DEF Init, Fresh, Ending
<1> QED BY <1>2, <1>4, <1>6, <1>7, <1>8 DEF Inv

\* A frame reaches the worker.
LEMMA TakeKeeps ==
    ASSUME Inv, Take, arrived < Expected
    PROVE  Inv'
<1>1. /\ arrived' = arrived + 1 /\ arrived' \in 0..Expected /\ arrived' \in Frame
      /\ UNCHANGED <<pc, slot, posted, completed, madeProgress, processed>>
  BY DEF Take, NextFrame, thread, Inv, TypeOK, Frame
<1>2. CASE /\ receives = <<>>
           /\ unexpected' = Append(unexpected, arrived')
           /\ UNCHANGED <<request, frame, receives>>
  <2>1. /\ unexpected' \in Seq(Frame)
        /\ Len(unexpected') = Len(unexpected) + 1
        /\ \A i \in 1..Len(unexpected) : unexpected'[i] = unexpected[i]
        /\ unexpected'[Len(unexpected) + 1] = arrived'
    BY <1>1, <1>2, AppendProperties DEF Inv, TypeOK
  <2>2. Matched' = Matched
    BY <1>1, <2>1, Basics DEF Matched, Inv, TypeOK
  <2>3. TypeOK'
    BY <1>1, <1>2, <2>1 DEF Inv, TypeOK
  <2>4. QueueInOrder'
    <3> SUFFICES ASSUME NEW i \in 1..Len(unexpected')
                 PROVE  unexpected'[i] = Matched + i
      BY <1>2, <2>2 DEF QueueInOrder
    <3>1. CASE i \in 1..Len(unexpected)
      BY <2>1, <3>1 DEF Inv, QueueInOrder
    <3>2. CASE i = Len(unexpected) + 1
      BY <1>1, <2>1, <3>2, Basics
    <3> QED BY <2>1, <3>1, <3>2, Basics
  <2>5. ReceivesPosted' /\ Holding' = Holding /\ Pending' = Pending
    BY <1>2 DEF Inv, ReceivesPosted, Holding, Pending
  <2>6. Apart(processed, Holding, frame, Matched)' /\ NoneLost'
    BY <1>1, <1>2, <2>2, <2>5 DEF Inv, NoneLost, Apart, Covered
  <2>7. Counters' /\ Fresh' /\ Ending'
    BY <1>1, <1>2, <2>2, <2>5 DEF Inv, Counters, Fresh, Ending
  <2> QED BY <2>3, <2>4, <2>5, <2>6, <2>7 DEF Inv
<1>3. CASE /\ receives # <<>>
           /\ frame' = [frame EXCEPT ![Head(receives)] = arrived']
           /\ request' = [request EXCEPT ![Head(receives)] =
                            IF arrived' \in Whole THEN "complete" ELSE "fetching"]
           /\ receives' = Tail(receives)
           /\ UNCHANGED unexpected
  <2> DEFINE h == Head(receives)
  <2>1. /\ receives' \in Seq(Slot) /\ Len(receives') = Len(receives) - 1
        /\ Len(receives) \in Nat \ {0}
        /\ \A i \in 1..Len(receives') : receives'[i] = receives[i+1]
        /\ h \in Slot /\ h = receives[1]
    BY <1>3, HeadTailProperties, EmptySeq DEF Inv, TypeOK
  <2>2. request[h] = "posted"
    BY <2>1 DEF Inv, ReceivesPosted
  <2>3. unexpected = <<>> /\ Len(unexpected) = 0
    BY <1>3, EmptySeq DEF Inv, QueueInOrder
  <2>4. Matched' = Matched + 1 /\ arrived' = Matched + 1
    <3>1. arrived \in Int /\ Len(unexpected') = 0
      BY <1>3, <2>3 DEF Inv, TypeOK
    <3> QED BY <1>1, <2>3, <3>1 DEF Matched
  <2> HIDE DEF h
  <2>5. /\ request' \in [Slot -> Request] /\ request'[h] \in {"complete", "fetching"}
        /\ \A t \in Slot : t # h => request'[t] = request[t]
        /\ frame' \in [Slot -> 0..Expected] /\ frame'[h] = Matched + 1
        /\ \A t \in Slot : t # h => frame'[t] = frame[t]
    BY <1>1, <1>3, <2>1, <2>4 DEF Inv, TypeOK, Request, h
  <2>6. TypeOK'
    BY <1>1, <1>3, <2>1, <2>5 DEF Inv, TypeOK
  <2>7. QueueInOrder'
    BY <1>3, <2>3 DEF QueueInOrder
  <2>8. Holding' = Holding \cup {h} /\ h \notin Holding /\ Pending' = Pending
    BY <2>1, <2>2, <2>5 DEF Holding, Pending
  <2>9. ReceivesPosted'
    <3>1. \A i \in 1..Len(receives') : i + 1 \in 1..Len(receives) /\ i + 1 # 1
      BY <2>1
    <3>2. \A i \in 1..Len(receives') : receives'[i] \in Slot /\ receives'[i] # h
      BY <2>1, <3>1 DEF Inv, ReceivesPosted
    <3>3. \A i \in 1..Len(receives') : request[receives'[i]] = "posted"
      BY <2>1, <3>1 DEF Inv, ReceivesPosted
    <3>4. \A i \in 1..Len(receives') : request'[receives'[i]] = "posted"
      BY <2>5, <3>2, <3>3
    <3>5. ASSUME NEW i \in 1..Len(receives'), NEW j \in 1..Len(receives'),
                 receives'[i] = receives'[j]
          PROVE  i = j
      <4>1. i + 1 = j + 1
        BY <2>1, <3>1, <3>5 DEF Inv, ReceivesPosted
      <4> QED BY <4>1
    <3> QED BY <3>4, <3>5 DEF ReceivesPosted
  <2>10. \A t \in Holding : frame'[t] = frame[t]
    BY <2>5, <2>8 DEF Holding
  <2>11. Apart(processed, Holding, frame, Matched)'
    <3>1. Apart(processed, Holding, frame, Matched) /\ Matched \in Nat
      BY Basics DEF Inv
    <3>2. Apart(processed, Holding \cup {h}, frame', Matched + 1)
      BY <2>5, <2>8, <2>10, <3>1, NextHeld
    <3> QED BY <1>1, <2>4, <2>8, <3>2 DEF Apart
  <2>12. NoneLost'
    <3> SUFFICES ASSUME pc # "failed"
                 PROVE  Covered(processed, Holding \cup {h}, frame', Matched + 1)
      BY <1>1, <2>4, <2>8 DEF NoneLost, Covered
    <3>1. Covered(processed, Holding, frame, Matched) /\ Matched \in Nat
      BY Basics DEF Inv, NoneLost
    <3> QED BY <2>5, <2>8, <2>10, <3>1, NextHeld
  <2>13. Counters'
    <3> Matched \in Int
      BY Basics
    <3>1. Matched' + Len(receives') = Matched + Len(receives)
      BY <2>1, <2>4
    <3> QED BY <1>1, <2>8, <3>1 DEF Inv, Counters
  <2>14. Fresh' /\ Ending'
    BY <1>1, <2>1, <2>2, <2>5 DEF Inv, Fresh, Ending
  <2> QED BY <2>6, <2>7, <2>9, <2>11, <2>12, <2>13, <2>14 DEF Inv
<1> QED BY <1>1, <1>2, <1>3 DEF Take, NextFrame

\* Slot s has no request, or its frame is being processed: what is left when
\* the thread has let go of it.
LEMMA Released ==
    ASSUME Inv, pc # "failed", NEW s \in Slot, NEW before,
           \/ request[s] = "null" /\ before = {}
           \/ request[s] = "complete" /\ before = {frame[s]}
    PROVE  /\ Apart(processed \cup before, Holding \ {s}, frame, Matched)
           /\ Covered(processed \cup before, Holding \ {s}, frame, Matched)
           /\ before \subseteq Frame /\ processed \cup before \subseteq Frame
           /\ Cardinality(processed \cup before) = completed + Cardinality(before)
           /\ posted = Cardinality(processed \cup before) + Cardinality(Pending \ {s})
<1>1. /\ Apart(processed, Holding, frame, Matched)
      /\ Covered(processed, Holding, frame, Matched)
      /\ completed = Cardinality(processed) /\ completed \in 0..Expected
      /\ posted = completed + Cardinality(Pending)
      /\ processed \subseteq Frame
  BY DEF Inv, NoneLost, Counters, TypeOK
<1>2. Matched \in 0..Expected
  BY Basics
<1>3. IsFiniteSet(processed) /\ IsFiniteSet(Pending) /\ Cardinality(Pending) \in Int
  BY <1>1, FramesFinite, SlotsFinite DEF Pending
<1>4. CASE request[s] = "null" /\ before = {}
  <2>1. /\ Pending \ {s} = Pending /\ Holding \ {s} = Holding
        /\ processed \cup before = processed
    BY <1>4 DEF Pending, Holding
  <2>2. Cardinality(before) = 0
    BY <1>4, FS_EmptySet
  <2>3. Cardinality(processed \cup before) = completed + Cardinality(before)
    BY <1>1, <2>1, <2>2
  <2>4. posted = Cardinality(processed \cup before) + Cardinality(Pending \ {s})
    BY <1>1, <2>1
  <2>5. before \subseteq Frame /\ processed \cup before \subseteq Frame
    BY <1>1, <1>4
  <2> QED BY <1>1, <2>1, <2>3, <2>4, <2>5
<1>5. CASE request[s] = "complete" /\ before = {frame[s]}
  <2>1. s \in Holding /\ s \in Pending
    BY <1>5 DEF Pending, Holding
  <2>2. frame[s] \in 1..Matched /\ frame[s] \notin processed /\ frame[s] \in Frame
    BY <1>1, <1>2, <2>1 DEF Apart, Frame
  <2>3. Cardinality(before) = 1
    BY <1>5, FS_Singleton
  <2>4. Cardinality(processed \cup before) = completed + 1
    BY <1>1, <1>3, <1>5, <2>2, FS_AddElement
  <2>5. Cardinality(Pending \ {s}) = Cardinality(Pending) - 1
    BY <1>3, <2>1, FS_RemoveElement
  <2>6. Apart(processed \cup before, Holding \ {s}, frame, Matched)
    BY <1>1, <1>5, <2>1, <2>2 DEF Apart
  <2>7. Covered(processed \cup before, Holding \ {s}, frame, Matched)
    BY <1>1, <1>5 DEF Covered
  <2> QED BY <1>1, <1>3, <1>5, <2>2, <2>3, <2>4, <2>5, <2>6, <2>7
<1> QED BY <1>4, <1>5

\* The processing of a complete slot's frame, with no receive posted after it.
LEMMA ProcessKeeps ==
    ASSUME Inv, slot \in Slot, pc = "poll", request[slot] = "complete",
           Accept({frame[slot]}), ForgetsRequest(slot), slot' = slot + 1,
           madeProgress' = TRUE,
           UNCHANGED <<pc, frame, posted, receives, unexpected, arrived>>
    PROVE  Inv'
<1> DEFINE done == processed \cup {frame[slot]}
<1>1. /\ Apart(done, Holding \ {slot}, frame, Matched)
      /\ Covered(done, Holding \ {slot}, frame, Matched)
      /\ done \subseteq Frame
      /\ Cardinality(done) = completed + Cardinality({frame[slot]})
      /\ posted = Cardinality(done) + Cardinality(Pending \ {slot})
  BY Released
<1>2. processed' = done /\ completed' = Cardinality(done)
  BY <1>1 DEF Accept
<1>3. completed' \in 0..Expected
  BY <1>1, <1>2, FramesFinite
<1> HIDE DEF done
<1>4. /\ request' \in [Slot -> Request] /\ request'[slot] = "null"
      /\ \A t \in Slot : t # slot => request'[t] = request[t]
  BY DEF ForgetsRequest, Inv, TypeOK, Request
<1>5. TypeOK'
  <2>1. slot' \in 1..Depth+1
    BY DEF Slot
  <2> QED BY <1>1, <1>2, <1>3, <1>4, <2>1 DEF Inv, TypeOK
<1>6. Holding' = Holding \ {slot} /\ Pending' = Pending \ {slot} /\ Matched' = Matched
  BY <1>4 DEF Holding, Pending, Matched
<1>7. ReceivesPosted' /\ QueueInOrder'
  BY <1>4, <1>6, Basics DEF Inv, ReceivesPosted, QueueInOrder
<1>8. Apart(processed, Holding, frame, Matched)' /\ NoneLost'
  BY <1>1, <1>2, <1>6 DEF Apart, NoneLost, Covered
<1>9. Counters'
  BY <1>1, <1>2, <1>6 DEF Inv, Counters
<1>10. Fresh' /\ Ending'
  BY DEF Fresh, Ending
<1> QED BY <1>5, <1>7, <1>8, <1>9, <1>10 DEF Inv

\* Posting a receive into a slot the thread has let go of.
LEMMA PostKeeps ==
    ASSUME Inv, slot \in Slot, pc \in {"prepost", "poll"}, MoreToPost, NEW before,
           \/ request[slot] = "null" /\ before = {}
           \/ request[slot] = "complete" /\ before = {frame[slot]},
           Post(slot, before), madeProgress' \in BOOLEAN, arrived' = arrived
    PROVE  Inv'
<1> DEFINE done == processed \cup before
           held == Holding \ {slot}
           left == Pending \ {slot}
<1>1. /\ Apart(done, held, frame, Matched)
      /\ Covered(done, held, frame, Matched)
      /\ before \subseteq Frame /\ done \subseteq Frame
      /\ Cardinality(done) = completed + Cardinality(before)
      /\ posted = Cardinality(done) + Cardinality(left)
  BY Released
<1>2. /\ Matched \in 0..Expected /\ Len(receives) \in Nat /\ Len(unexpected) \in Nat
      /\ arrived = Matched + Len(unexpected)
      /\ \A i \in 1..Len(receives) : receives[i] \in Slot
      /\ \A i \in 1..Len(unexpected) : unexpected[i] \in Frame
  BY Basics
<1>3. /\ IsFiniteSet(done) /\ Cardinality(done) \in 0..Expected
      /\ IsFiniteSet(before) /\ Cardinality(before) \in Nat
      /\ IsFiniteSet(left) /\ Cardinality(left) \in Nat /\ slot \notin left
      /\ Cardinality(left \cup {slot}) = Cardinality(left) + 1
  <2>1. left \subseteq Slot /\ slot \notin left
    BY DEF Pending
  <2>2. IsFiniteSet(left) /\ Cardinality(left) \in Nat
    BY <2>1, SlotsFinite
  <2>3. Cardinality(left \cup {slot}) = Cardinality(left) + 1
    BY <2>1, <2>2, FS_AddElement
  <2>4. /\ IsFiniteSet(done) /\ Cardinality(done) \in 0..Expected
        /\ IsFiniteSet(before) /\ Cardinality(before) \in Nat
    BY <1>1, FramesFinite
  <2> QED BY <2>1, <2>2, <2>3, <2>4
<1>4. /\ slot \notin held /\ held \subseteq Slot
      /\ request[slot] # "posted"
      /\ posted + 1 \in 0..Expected /\ posted = Matched + Len(receives)
      /\ slot + 1 \in 1..Depth+1
  BY DEF Holding, MoreToPost, Inv, TypeOK, Counters, Slot
<1>5. \A i \in 1..Len(receives) : receives[i] # slot
  BY <1>4 DEF Inv, ReceivesPosted
<1> HIDE DEF done, held, left
<1>6. CASE PostWaits(slot, before)
  <2>1. /\ unexpected = <<>> /\ unexpected' = unexpected
        /\ request' = [request EXCEPT ![slot] = "posted"]
        /\ receives' = Append(receives, slot)
        /\ processed' = done /\ completed' = Cardinality(done)
        /\ posted' = posted + 1 /\ slot' = slot + 1
        /\ UNCHANGED <<pc, frame>>
    BY <1>1, <1>6 DEF PostWaits, Accept, done
  <2>2. /\ receives' \in Seq(Slot)
        /\ Len(receives') = Len(receives) + 1
        /\ \A i \in 1..Len(receives) : receives'[i] = receives[i]
        /\ receives'[Len(receives) + 1] = slot
    BY <2>1, AppendProperties DEF Inv, TypeOK
  <2>3. /\ request' \in [Slot -> Request] /\ request'[slot] = "posted"
        /\ \A t \in Slot : t # slot => request'[t] = request[t]
    BY <2>1 DEF Inv, TypeOK, Request
  <2>4. TypeOK'
    BY <1>1, <1>3, <1>4, <2>1, <2>2, <2>3 DEF Inv, TypeOK
  <2>5. Holding' = held /\ Pending' = left \cup {slot} /\ Matched' = Matched
    BY <2>1, <2>3 DEF Holding, Pending, Matched, held, left
  <2>6. ReceivesPosted'
    <3>1. \A i \in 1..Len(receives') : i \in 1..Len(receives) \/ i = Len(receives) + 1
      BY <1>2, <2>2
    <3>2. \A i \in 1..Len(receives) : request'[receives[i]] = "posted"
      BY <1>2, <1>5, <2>3 DEF Inv, ReceivesPosted
    <3>3. \A i \in 1..Len(receives') : request'[receives'[i]] = "posted"
      BY <2>2, <2>3, <3>1, <3>2
    <3>4. \A i, j \in 1..Len(receives') : receives'[i] = receives'[j] => i = j
      BY <1>5, <2>2, <3>1 DEF Inv, ReceivesPosted
    <3> QED BY <3>3, <3>4 DEF ReceivesPosted
  <2>7. QueueInOrder'
    BY <2>1, <2>5 DEF Inv, QueueInOrder
  <2>8. Apart(processed, Holding, frame, Matched)' /\ NoneLost'
    BY <1>1, <2>1, <2>5 DEF Apart, NoneLost, Covered
  <2>9. Counters'
    <3>1. completed' = Cardinality(processed')
      BY <2>1
    <3>2. posted' = completed' + Cardinality(Pending')
      BY <1>1, <1>3, <2>1, <2>5
    <3>3. posted' = Matched' + Len(receives')
      BY <1>2, <1>4, <2>1, <2>2, <2>5
    <3> QED BY <3>1, <3>2, <3>3 DEF Counters
  <2>10. Fresh' /\ Ending'
    BY <1>4, <2>1, <2>3 DEF Inv, Fresh, Ending, Slot
  <2> QED BY <2>4, <2>6, <2>7, <2>8, <2>9, <2>10 DEF Inv
<1>7. CASE PostMatches(slot) /\ (PostFetches(slot, before) \/ PostCompletes(slot, before))
  <2>1. /\ unexpected # <<>> /\ unexpected' = Tail(unexpected)
        /\ frame' = [frame EXCEPT ![slot] = Head(unexpected)]
        /\ receives' = receives
    BY <1>7 DEF PostMatches
  <2>2. /\ Head(unexpected) \in Frame /\ Head(unexpected) = unexpected[1]
        /\ unexpected' \in Seq(Frame) /\ Len(unexpected') = Len(unexpected) - 1
        /\ Len(unexpected) \in Nat \ {0}
        /\ \A i \in 1..Len(unexpected') : unexpected'[i] = unexpected[i+1]
    BY <2>1, HeadTailProperties, EmptySeq DEF Inv, TypeOK
  <2>3. Matched' = Matched + 1 /\ Head(unexpected) = Matched + 1 /\ Matched + 1 \in Frame
    <3>1. Head(unexpected) = Matched + 1
      BY <2>2 DEF Inv, QueueInOrder
    <3>2. Matched' = Matched + 1
      BY <1>2, <2>2 DEF Matched, Inv, TypeOK
    <3> QED BY <2>2, <3>1, <3>2
  <2>4. receives = <<>> /\ QueueInOrder'
    <3>1. receives = <<>>
      BY <2>1 DEF Inv, QueueInOrder
    <3>2. ASSUME NEW i \in 1..Len(unexpected') PROVE unexpected'[i] = Matched' + i
      <4>1. i + 1 \in 1..Len(unexpected)
        BY <2>2
      <4>2. unexpected'[i] = Matched + (i + 1)
        BY <2>2, <4>1 DEF Inv, QueueInOrder
      <4> QED BY <1>2, <2>3, <4>2
    <3> QED BY <2>1, <3>1, <3>2 DEF QueueInOrder
  <2>5. /\ frame' \in [Slot -> 0..Expected] /\ frame'[slot] = Matched + 1
        /\ \A t \in held : frame'[t] = frame[t]
    BY <1>4, <2>1, <2>3 DEF Inv, TypeOK, Frame
  <2>6. CASE PostFetches(slot, before)
    <3>1. /\ request' = [request EXCEPT ![slot] = "fetching"]
          /\ processed' = done /\ completed' = Cardinality(done)
          /\ posted' = posted + 1 /\ slot' = slot + 1 /\ pc' = pc
      BY <1>1, <2>6 DEF PostFetches, Accept, done
    <3>2. /\ request' \in [Slot -> Request] /\ request'[slot] = "fetching"
          /\ \A t \in Slot : t # slot => request'[t] = request[t]
      BY <3>1 DEF Inv, TypeOK, Request
    <3>3. TypeOK'
      BY <1>1, <1>3, <1>4, <2>1, <2>2, <2>5, <3>1, <3>2 DEF Inv, TypeOK
    <3>4. Holding' = held \cup {slot} /\ Pending' = left \cup {slot}
      BY <3>2 DEF Holding, Pending, held, left
    <3>5. ReceivesPosted'
      BY <1>2, <1>5, <2>1, <3>2 DEF Inv, ReceivesPosted
    <3>6. /\ Apart(done, held \cup {slot}, frame', Matched + 1)
          /\ Covered(done, held \cup {slot}, frame', Matched + 1)
      <4>1. Matched \in Nat
        BY <1>2
      <4> QED BY <1>1, <1>4, <2>5, <4>1, NextHeld
    <3>7. Apart(processed, Holding, frame, Matched)' /\ NoneLost'
      BY <2>3, <3>1, <3>4, <3>6 DEF Apart, NoneLost, Covered
    <3>8. Counters'
      <4>1. completed' = Cardinality(processed')
        BY <3>1
      <4>2. posted' = completed' + Cardinality(Pending')
        BY <1>1, <1>3, <3>1, <3>4
      <4>3. posted' = Matched' + Len(receives')
        BY <1>2, <1>4, <2>1, <2>3, <3>1
      <4> QED BY <4>1, <4>2, <4>3 DEF Counters
    <3>9. Fresh' /\ Ending'
      BY <1>4, <3>1, <3>2 DEF Inv, Fresh, Ending, Slot
    <3> QED BY <2>4, <3>3, <3>5, <3>7, <3>8, <3>9 DEF Inv
  <2>7. CASE PostCompletes(slot, before)
    <3>1. request' = [request EXCEPT ![slot] = "null"]
      BY <2>7 DEF PostCompletes
    <3>2. /\ request' \in [Slot -> Request] /\ request'[slot] = "null"
          /\ \A t \in Slot : t # slot => request'[t] = request[t]
      BY <3>1 DEF Inv, TypeOK, Request
    <3>3. Holding' = held /\ Pending' = left
      BY <3>2 DEF Holding, Pending, held, left
    <3>4. ReceivesPosted'
      BY <1>2, <1>5, <2>1, <3>2 DEF Inv, ReceivesPosted
    <3>5. Matched \in Nat /\ Matched + 1 \notin 1..Matched
      BY <1>2
    <3>6. CASE /\ Accept(before \cup {Head(unexpected)})
               /\ posted' = posted + 1 /\ slot' = slot + 1 /\ pc' = pc
      <4>1. processed' = done \cup {Matched + 1}
        BY <2>3, <3>6 DEF Accept, done
      <4>2. /\ Apart(done \cup {Matched + 1}, held, frame', Matched + 1)
            /\ Covered(done \cup {Matched + 1}, held, frame', Matched + 1)
        BY <1>1, <2>5, <3>5, NextDone
      <4>3. done \cup {Matched + 1} \subseteq Frame
        BY <1>1, <2>3
      <4>4. Matched + 1 \notin done /\ Matched + 1 \notin before
        BY <1>1, <3>5 DEF Apart, done
      <4>5. Cardinality(done \cup {Matched + 1}) = Cardinality(done) + 1
        BY <1>3, <4>4, FS_AddElement
      <4>6. Cardinality(before \cup {Matched + 1}) = Cardinality(before) + 1
        BY <1>3, <4>4, FS_AddElement
      <4>7. completed' = Cardinality(done) + 1
        <5>1. completed' = completed + Cardinality(before \cup {Matched + 1})
          BY <2>3, <3>6 DEF Accept
        <5>2. completed \in Int
          BY DEF Inv, TypeOK
        <5> QED BY <1>1, <1>3, <4>6, <5>1, <5>2
      <4>8. completed' \in 0..Expected
        BY <4>3, <4>5, <4>7, FramesFinite
      <4>9. TypeOK'
        BY <1>4, <2>1, <2>2, <2>5, <3>2, <3>6, <4>1, <4>3, <4>8 DEF Inv, TypeOK
      <4>10. Apart(processed, Holding, frame, Matched)' /\ NoneLost'
        BY <2>3, <3>3, <4>1, <4>2 DEF Apart, NoneLost, Covered
      <4>11. Counters'
        <5>1. completed' = Cardinality(processed')
          BY <4>1, <4>5, <4>7
        <5>2. posted' = completed' + Cardinality(Pending')
          BY <1>1, <1>3, <3>3, <3>6, <4>7
        <5>3. posted' = Matched' + Len(receives')
          BY <1>2, <1>4, <2>1, <2>3, <3>6
        <5> QED BY <5>1, <5>2, <5>3 DEF Counters
      <4>12. Fresh' /\ Ending'
        BY <1>4, <3>2, <3>6 DEF Inv, Fresh, Ending, Slot
      <4> QED BY <2>4, <3>4, <4>9, <4>10, <4>11, <4>12 DEF Inv
    <3>7. CASE /\ Accept(before) /\ pc' = "failed" /\ UNCHANGED <<posted, slot>>
      <4>1. processed' = done /\ completed' = Cardinality(done)
        BY <1>1, <3>7 DEF Accept, done
      <4>2. TypeOK'
        BY <1>1, <1>3, <2>1, <2>2, <2>5, <3>2, <3>7, <4>1 DEF Inv, TypeOK
      <4>3. Apart(done, held, frame', Matched + 1)
        BY <1>1, <2>5, <3>5 DEF Apart
      <4>4. Apart(processed, Holding, frame, Matched)' /\ NoneLost'
        BY <2>3, <3>3, <3>7, <4>1, <4>3 DEF Apart, NoneLost
      <4>5. Counters' /\ Fresh' /\ Ending'
        BY <3>7, <4>1 DEF Counters, Fresh, Ending
      <4> QED BY <2>4, <3>4, <4>2, <4>4, <4>5 DEF Inv
    <3> QED BY <2>7, <3>6, <3>7 DEF PostCompletes
  <2> QED BY <1>7, <2>6, <2>7
<1> QED BY <1>6, <1>7 DEF Post, PostFetches, PostCompletes

LEMMA InvNext == Inv /\ [Next]_vars => Inv'
<1> SUFFICES ASSUME Inv, [Next]_vars PROVE Inv'
  OBVIOUS
<1>t. TypeOK
  BY DEF Inv
<1>1. CASE Arrive \/ (OnTheWire /\ Take)
  BY <1>1, TakeKeeps DEF Arrive, OnTheWire
<1>2. CASE \E s \in Slot : Fetch(s)
  <2> PICK s \in Slot : Fetch(s)
    BY <1>2
  <2>1. /\ request[s] = "fetching" /\ request' = [request EXCEPT ![s] = "complete"]
        /\ UNCHANGED <<frame, receives, unexpected, arrived, pc, slot, posted,
                       completed, madeProgress, processed>>
    BY DEF Fetch, thread
  <2>2. /\ request' \in [Slot -> Request] /\ request'[s] = "complete"
        /\ \A t \in Slot : t # s => request'[t] = request[t]
    BY <1>t, <2>1 DEF TypeOK, Request
  <2>3. Holding' = Holding /\ Pending' = Pending /\ Matched' = Matched
    BY <2>1, <2>2 DEF Holding, Pending, Matched
  <2>4. TypeOK'
    BY <1>t, <2>1, <2>2 DEF TypeOK
  <2>5. ReceivesPosted' /\ QueueInOrder'
    BY <2>1, <2>2, <2>3, Basics DEF Inv, ReceivesPosted, QueueInOrder
  <2>6. Apart(processed, Holding, frame, Matched)' /\ NoneLost' /\ Counters'
    BY <2>1, <2>3 DEF Inv, Apart, NoneLost, Covered, Counters
  <2>7. Fresh' /\ Ending'
    BY <2>1, <2>2 DEF Inv, Fresh, Ending
  <2> QED BY <2>4, <2>5, <2>6, <2>7 DEF Inv
<1>3. CASE (\E s \in Slot : Fetched(s)) \/ WhileClosing
  BY <1>1, <1>2, <1>3 DEF Fetched, WhileClosing
<1>4. CASE ReceiveMeta \/ EndPrePost \/ PassOver \/ EndScan \/ EndProgress \/ ReceiveDone
           \/ (PrePost /\ ~MoreToPost)
  <2>1. /\ UNCHANGED <<request, frame, posted, completed, processed, receives,
                       unexpected, arrived>>
        /\ pc # "failed" /\ pc' # "failed"
    BY <1>4 DEF ReceiveMeta, EndPrePost, PassOver, EndScan, EndProgress, ReceiveDone,
                TakeDone, PrePost, Loop
  <2>2. Holding' = Holding /\ Pending' = Pending /\ Matched' = Matched
    BY <2>1 DEF Holding, Pending, Matched
  <2>3. /\ pc' \in {"prepost", "poll", "progress", "done", "finished"}
        /\ slot' \in {slot, 1} \/ (slot <= Depth /\ slot' = slot + 1)
        /\ madeProgress' \in {madeProgress, FALSE}
    BY <1>4 DEF ReceiveMeta, EndPrePost, PassOver, EndScan, EndProgress, ReceiveDone,
                TakeDone, PrePost, Loop
  <2>4. TypeOK'
    <3>1. slot' \in 1..Depth+1
      BY <1>t, <2>3 DEF TypeOK
    <3>2. madeProgress' \in BOOLEAN
      BY <1>t, <2>3 DEF TypeOK
    <3> QED BY <1>t, <2>1, <2>3, <3>1, <3>2 DEF TypeOK
  <2>5. ReceivesPosted' /\ QueueInOrder'
    BY <2>1, <2>2 DEF Inv, ReceivesPosted, QueueInOrder
  <2>6. Apart(processed, Holding, frame, Matched)' /\ NoneLost' /\ Counters'
    BY <2>1, <2>2 DEF Inv, Apart, NoneLost, Covered, Counters
  <2>7. Fresh'
    <3>1. CASE pc' \notin {"meta", "prepost"}
      BY <3>1 DEF Fresh
    <3>2. CASE ReceiveMeta \/ (PrePost /\ ~MoreToPost)
      BY <1>t, <3>2, <2>1 DEF ReceiveMeta, PrePost, Inv, Fresh, TypeOK, Slot
    <3>3. CASE EndPrePost \/ PassOver \/ EndScan \/ EndProgress \/ ReceiveDone
      <4>1. pc' \notin {"meta", "prepost"}
        BY <3>3 DEF EndPrePost, PassOver, EndScan, EndProgress, ReceiveDone, TakeDone, Loop
      <4> QED BY <3>1, <4>1
    <3> QED BY <1>4, <3>2, <3>3
  <2>8. Ending'
    <3>1. CASE EndPrePost \/ EndScan
      BY <1>t, <2>1, <3>1 DEF EndPrePost, EndScan, Loop, Ending, TypeOK
    <3>2. CASE ReceiveMeta \/ PassOver \/ EndProgress \/ ReceiveDone
               \/ (PrePost /\ ~MoreToPost)
      BY <3>2, <2>1 DEF ReceiveMeta, PassOver, EndProgress, ReceiveDone, TakeDone,
                        PrePost, Inv, Ending
    <3> QED BY <1>4, <3>1, <3>2
  <2> QED BY <2>4, <2>5, <2>6, <2>7, <2>8 DEF Inv
<1>5. CASE PrePost /\ MoreToPost
  <2>1. /\ pc = "prepost" /\ slot \in Slot /\ Post(slot, {})
        /\ UNCHANGED <<madeProgress, arrived>>
    BY <1>5, <1>t DEF PrePost, TypeOK, Slot
  <2>2. request[slot] = "null" /\ madeProgress' \in BOOLEAN
    BY <1>t, <2>1 DEF Inv, Fresh, TypeOK, Slot
  <2> QED BY <1>5, <2>1, <2>2, PostKeeps
<1>6. CASE TestSlot
  <2>1. /\ pc = "poll" /\ slot \in Slot /\ request[slot] = "complete"
        /\ madeProgress' = TRUE /\ arrived' = arrived
    BY <1>6, <1>t DEF TestSlot, TypeOK, Slot
  <2>2. CASE MoreToPost /\ Post(slot, {frame[slot]})
    BY <2>1, <2>2, PostKeeps
  <2>3. CASE /\ Accept({frame[slot]}) /\ ForgetsRequest(slot) /\ slot' = slot + 1
             /\ UNCHANGED <<pc, frame, posted, receives, unexpected>>
    BY <2>1, <2>3, ProcessKeeps
  <2> QED BY <1>6, <2>2, <2>3 DEF TestSlot
<1>7. CASE TestSlotFails
  <2>1. /\ slot \in Slot /\ pc' = "failed"
        /\ request' = [request EXCEPT ![slot] = "null"] /\ request[slot] = "complete"
        /\ UNCHANGED <<slot, frame, posted, completed, madeProgress, processed,
                       receives, unexpected, arrived>>
    BY <1>7, <1>t DEF TestSlotFails, ForgetsRequest, TypeOK, Slot
  <2>2. /\ request' \in [Slot -> Request]
        /\ \A t \in Slot : t # slot => request'[t] = request[t]
    BY <1>t, <2>1 DEF TypeOK, Request
  <2>3. Holding' \subseteq Holding /\ Matched' = Matched
    BY <2>1, <2>2 DEF Holding, Matched, TypeOK, Request
  <2>4. TypeOK'
    BY <1>t, <2>1, <2>2 DEF TypeOK
  <2>5. ReceivesPosted' /\ QueueInOrder'
    BY <2>1, <2>2, <2>3, Basics DEF Inv, ReceivesPosted, QueueInOrder
  <2>6. Apart(processed, Holding, frame, Matched)'
    BY <2>1, <2>3 DEF Inv, Apart
  <2>7. NoneLost' /\ Counters' /\ Fresh' /\ Ending'
    BY <2>1 DEF Inv, NoneLost, Counters, Fresh, Ending
  <2> QED BY <2>4, <2>5, <2>6, <2>7 DEF Inv
<1>8. CASE Ended \/ UNCHANGED vars
  <2>1. UNCHANGED vars
    BY <1>8 DEF Ended
  <2>2. Holding' = Holding /\ Pending' = Pending /\ Matched' = Matched
    BY <2>1 DEF vars, Holding, Pending, Matched
  <2>3. TypeOK' /\ ReceivesPosted' /\ QueueInOrder' /\ Fresh' /\ Ending'
    BY <2>1, <2>2 DEF vars, Inv, TypeOK, ReceivesPosted, QueueInOrder, Fresh, Ending
  <2>4. Apart(processed, Holding, frame, Matched)' /\ NoneLost' /\ Counters'
    BY <2>1, <2>2 DEF vars, Inv, Apart, NoneLost, Covered, Counters
  <2> QED BY <2>3, <2>4 DEF Inv
<1> QED BY <1>1, <1>3, <1>4, <1>5, <1>6, <1>7, <1>8 DEF Next, Worker, Thread, LaneLoops

LEMMA Invariance == Spec => []Inv
BY InvInit, InvNext, PTL DEF Spec
----------------------------------------------------------------------------

\* Every variable of the receiving lane stays in its type.
THEOREM TypeCorrect == Spec => []TypeOK
<1>1. Inv => TypeOK
  BY DEF Inv
<1> QED BY Invariance, <1>1, PTL

\* posted and completed account for the requests and the frames processed.
THEOREM CountersExact == Spec => []CountersBalance
<1>1. Inv => CountersBalance
  BY DEF Inv, Counters, CountersBalance
<1> QED BY Invariance, <1>1, PTL

\* A frame that has reached the worker is in exactly one place.
THEOREM FramesKept == Spec => []FrameInOnePlace
<1>1. Inv => FrameInOnePlace
  <2> SUFFICES ASSUME Inv, pc # "failed", NEW f \in 1..arrived
               PROVE  Cardinality({i \in 1..Len(unexpected) : unexpected[i] = f})
                      + Cardinality({s \in Pending : request[s] # "posted" /\ frame[s] = f})
                      + Cardinality({f} \cap processed) = 1
    BY DEF FrameInOnePlace
  <2> DEFINE waits == {i \in 1..Len(unexpected) : unexpected[i] = f}
             held == {s \in Pending : request[s] # "posted" /\ frame[s] = f}
             done == {f} \cap processed
  <2>1. /\ Len(unexpected) \in Nat /\ Matched \in Nat
        /\ arrived = Matched + Len(unexpected)
        /\ \A i \in 1..Len(unexpected) : unexpected[i] = Matched + i
    BY Basics DEF Inv, QueueInOrder
  <2>2. /\ Apart(processed, Holding, frame, Matched)
        /\ Covered(processed, Holding, frame, Matched)
    BY DEF Inv, NoneLost
  <2>3. held = {s \in Holding : frame[s] = f}
    BY DEF Inv, TypeOK, Pending, Holding, Request
  <2>4. Cardinality({}) = 0 /\ \A x : Cardinality({x}) = 1
    BY FS_EmptySet, FS_Singleton
  <2> HIDE DEF waits, held, done
  <2>5. CASE f > Matched
    <3>1. waits = {f - Matched}
      BY <2>1, <2>5 DEF waits
    <3>2. held = {} /\ done = {}
      BY <2>1, <2>2, <2>3, <2>5 DEF Apart, done
    <3>3. Cardinality(waits) = 1 /\ Cardinality(held) = 0 /\ Cardinality(done) = 0
      BY <2>4, <3>1, <3>2
    <3> QED BY <3>3 DEF waits, held, done
  <2>6. CASE f <= Matched
    <3>1. waits = {}
      BY <2>1, <2>6 DEF waits
    <3>2. CASE f \in processed
      <4>1. held = {} /\ done = {f}
        BY <2>2, <2>3, <3>2 DEF Apart, done
      <4>2. Cardinality(waits) = 0 /\ Cardinality(held) = 0 /\ Cardinality(done) = 1
        BY <2>4, <3>1, <4>1
      <4> QED BY <4>2 DEF waits, held, done
    <3>3. CASE f \notin processed
      <4>1. PICK s \in Holding : frame[s] = f
        BY <2>1, <2>2, <2>6, <3>3 DEF Covered
      <4>2. held = {s} /\ done = {}
        BY <2>2, <2>3, <3>3, <4>1 DEF Apart, done
      <4>3. Cardinality(waits) = 0 /\ Cardinality(held) = 1 /\ Cardinality(done) = 0
        BY <2>4, <3>1, <4>2
      <4> QED BY <4>3 DEF waits, held, done
    <3> QED BY <3>2, <3>3
  <2>7. arrived \in Int
    BY DEF Inv, TypeOK
  <2> QED BY <2>1, <2>5, <2>6, <2>7
<1> QED BY Invariance, <1>1, PTL

\* When the lane is done no request and no frame is left behind.
THEOREM NothingLeft == Spec => []QuiescentBeforeUnmap
<1>1. Inv => QuiescentBeforeUnmap
  <2> SUFFICES ASSUME Inv, pc \in {"done", "finished"}
               PROVE  Pending = {} /\ unexpected = <<>> /\ processed = Frame
    BY DEF QuiescentBeforeUnmap
  <2>1. /\ completed = Expected /\ completed = Cardinality(processed)
        /\ posted = completed + Cardinality(Pending)
        /\ processed \subseteq Frame /\ posted \in 0..Expected
    BY DEF Inv, Ending, Counters, TypeOK
  <2>2. processed = Frame
    BY <2>1, FramesFinite
  <2>3. IsFiniteSet(Pending) /\ Cardinality(Pending) \in 0..Depth
    BY SlotsFinite DEF Pending
  <2>4. Cardinality(Pending) = 0
    BY <2>1, <2>3
  <2>5. Pending = {}
    BY <2>3, <2>4, FS_EmptySet
  <2>6. unexpected = <<>>
    <3> SUFFICES ASSUME unexpected # <<>> PROVE FALSE
      OBVIOUS
    <3>1. Len(unexpected) \in Nat \ {0}
      BY EmptySeq DEF Inv, TypeOK
    <3>2. unexpected[1] = Matched + 1 /\ unexpected[1] \in Frame /\ Matched \in Nat
      BY <3>1, Basics DEF Inv, QueueInOrder
    <3>3. unexpected[1] \in 1..Matched
      BY <2>2, <3>2 DEF Inv, Apart
    <3> QED BY <3>2, <3>3
  <2> QED BY <2>2, <2>5, <2>6
<1> QED BY Invariance, <1>1, PTL
----------------------------------------------------------------------------
(* What the other end relies on (LaneProofs).                              *)

\* The slots a frame is still to be read into.
Fetching == {s \in Slot : request[s] = "fetching"}

\* The parts of Unfetched.
Waiting == {unexpected[i] : i \in 1..Len(unexpected)}
Reaching == {frame[s] : s \in Fetching}

LEMMA UnfetchedParts == Unfetched = (Frame \ Whole) \cap (Waiting \cup Reaching)
BY DEF Unfetched, Waiting, Reaching, Fetching

\* Of the frames that are here, those waiting come after the matched ones,
\* those to be read are among these, and none of them has been processed.
LEMMA UnfetchedHere ==
    ASSUME Inv
    PROVE  /\ \A f \in Waiting : f \in Frame /\ f > Matched /\ f <= arrived
           /\ \A f \in Reaching : f \in 1..Matched /\ f \in Frame /\ f \notin processed
           /\ processed \subseteq 1..Matched /\ 1..Matched \subseteq 1..arrived
           /\ Unfetched \subseteq 1..arrived
           /\ processed \cap Unfetched = {}
<1>1. /\ Matched \in 0..Expected /\ Len(unexpected) \in Nat
      /\ arrived = Matched + Len(unexpected)
      /\ \A i \in 1..Len(unexpected) : unexpected[i] \in Frame
  BY Basics
<1>2. \A f \in Waiting : f \in Frame /\ f > Matched /\ f <= arrived
  BY <1>1 DEF Waiting, Inv, QueueInOrder
<1>3. Apart(processed, Holding, frame, Matched) /\ Fetching \subseteq Holding
  BY DEF Inv, Fetching, Holding
<1>4. processed \subseteq 1..Matched /\ 1..Matched \subseteq 1..arrived /\ 1..Matched \subseteq Frame
  BY <1>1, <1>3 DEF Apart, Frame
<1>5. \A f \in Reaching : f \in 1..Matched /\ f \in Frame /\ f \notin processed
  BY <1>3, <1>4 DEF Reaching, Apart
<1>6. Unfetched \subseteq 1..arrived
  BY <1>2, <1>4, <1>5, UnfetchedParts DEF Frame
<1>7. processed \cap Unfetched = {}
  <2>1. \A f \in processed : f \notin Waiting
    BY <1>1, <1>2, <1>4
  <2> QED BY <1>5, <2>1, UnfetchedParts
<1> QED BY <1>2, <1>4, <1>5, <1>6, <1>7

\* A frame that reaches the worker, unless it is all there, is unfetched.
LEMMA TakeAdds ==
    ASSUME Inv, Take, arrived < Expected
    PROVE  Unfetched' = Unfetched \cup ({NextFrame} \ Whole)
<1>1. NextFrame \in Frame
  BY DEF NextFrame, Inv, TypeOK, Frame
<1>2. CASE receives = <<>> /\ unexpected' = Append(unexpected, NextFrame)
           /\ UNCHANGED <<request, frame>>
  <2>1. /\ Len(unexpected) \in Nat /\ Len(unexpected') = Len(unexpected) + 1
        /\ \A i \in 1..Len(unexpected) : unexpected'[i] = unexpected[i]
        /\ unexpected'[Len(unexpected) + 1] = NextFrame
    BY <1>1, <1>2, AppendProperties, Basics DEF Inv, TypeOK
  <2>2. \A i \in 1..Len(unexpected') : i \in 1..Len(unexpected) \/ i = Len(unexpected) + 1
    BY <2>1
  <2>3. Waiting' = Waiting \cup {NextFrame}
    <3>1. ASSUME NEW i \in 1..Len(unexpected')
          PROVE  unexpected'[i] \in Waiting \cup {NextFrame}
      BY <2>1, <2>2 DEF Waiting
    <3>2. ASSUME NEW i \in 1..Len(unexpected) PROVE unexpected[i] \in Waiting'
      <4>1. i \in 1..Len(unexpected')
        BY <2>1
      <4> QED BY <2>1, <4>1 DEF Waiting
    <3>3. NextFrame \in Waiting'
      <4>1. Len(unexpected) + 1 \in 1..Len(unexpected')
        BY <2>1
      <4> QED BY <2>1, <4>1 DEF Waiting
    <3> QED BY <3>1, <3>2, <3>3 DEF Waiting
  <2>4. Reaching' = Reaching
    BY <1>2 DEF Reaching, Fetching
  <2>5. Unfetched' = (Frame \ Whole) \cap (Waiting' \cup Reaching')
    BY DEF Unfetched, Waiting, Reaching, Fetching
  <2> QED BY <1>1, <2>3, <2>4, <2>5, UnfetchedParts
<1>3. CASE /\ receives # <<>>
           /\ frame' = [frame EXCEPT ![Head(receives)] = NextFrame]
           /\ request' = [request EXCEPT ![Head(receives)] =
                            IF NextFrame \in Whole THEN "complete" ELSE "fetching"]
           /\ UNCHANGED unexpected
  <2> DEFINE h == Head(receives)
  <2>1. h \in Slot /\ h = receives[1] /\ 1 \in 1..Len(receives)
    BY <1>3, HeadTailProperties, EmptySeq, Basics DEF Inv, TypeOK
  <2>2. request[h] = "posted"
    BY <2>1 DEF Inv, ReceivesPosted
  <2> HIDE DEF h
  <2>3. /\ frame'[h] = NextFrame
        /\ request'[h] = IF NextFrame \in Whole THEN "complete" ELSE "fetching"
        /\ \A t \in Slot : t # h => request'[t] = request[t] /\ frame'[t] = frame[t]
    BY <1>1, <1>3, <2>1 DEF Inv, TypeOK, h
  <2>4. Waiting' = Waiting
    BY <1>3 DEF Waiting
  <2>5. CASE NextFrame \in Whole
    <3>1. Fetching' = Fetching /\ h \notin Fetching
      BY <2>1, <2>2, <2>3, <2>5 DEF Fetching
    <3>2. Reaching' = Reaching
      BY <2>3, <3>1 DEF Reaching, Fetching
    <3> QED BY <2>4, <2>5, <3>2, UnfetchedParts DEF Unfetched, Waiting, Reaching, Fetching
  <2>6. CASE NextFrame \notin Whole
    <3>1. Fetching' = Fetching \cup {h} /\ h \notin Fetching
      BY <2>1, <2>2, <2>3, <2>6 DEF Fetching
    <3>2. Reaching' = Reaching \cup {NextFrame}
      BY <2>3, <3>1 DEF Reaching, Fetching
    <3>3. Unfetched' = (Frame \ Whole) \cap (Waiting' \cup Reaching')
      BY DEF Unfetched, Waiting, Reaching, Fetching
    <3> QED BY <1>1, <2>4, <2>6, <3>2, <3>3, UnfetchedParts
  <2> QED BY <2>5, <2>6
<1> QED BY <1>2, <1>3 DEF Take

\* A frame that is read is fetched, and no other.
LEMMA FetchRemoves ==
    ASSUME Inv, NEW s \in Slot, Fetch(s)
    PROVE  /\ frame[s] \in Reaching
           /\ Unfetched' = Unfetched \ {frame[s]}
<1>1. /\ s \in Fetching
      /\ request' = [request EXCEPT ![s] = "complete"]
      /\ UNCHANGED <<frame, unexpected>>
  BY DEF Fetch, Fetching
<1>2. Fetching' = Fetching \ {s}
  BY <1>1 DEF Fetching, Inv, TypeOK
<1>3. \A t \in Fetching : frame[t] = frame[s] => t = s
  BY <1>1 DEF Inv, Apart, Holding, Fetching
<1>4. frame[s] \in Reaching /\ Reaching' = Reaching \ {frame[s]}
  BY <1>1, <1>2, <1>3 DEF Reaching
<1>5. frame[s] \notin Waiting
  BY <1>4, UnfetchedHere, Basics
<1>6. Waiting' = Waiting
  BY <1>1 DEF Waiting
<1>7. Unfetched' = (Frame \ Whole) \cap (Waiting' \cup Reaching')
  BY DEF Unfetched, Waiting, Reaching, Fetching
<1> QED BY <1>4, <1>5, <1>6, <1>7, UnfetchedParts

\* The thread fetches nothing and leaves nothing behind.
LEMMA PostMoves ==
    ASSUME Inv, slot \in Slot, request[slot] \notin {"fetching", "posted"},
           NEW before, Post(slot, before)
    PROVE  Unfetched' = Unfetched
<1>0. Unfetched' = (Frame \ Whole) \cap (Waiting' \cup Reaching')
  BY DEF Unfetched, Waiting, Reaching, Fetching
<1>1. CASE PostWaits(slot, before)
  <2>1. request' = [request EXCEPT ![slot] = "posted"] /\ UNCHANGED <<frame, unexpected>>
    BY <1>1 DEF PostWaits
  <2>2. Fetching' = Fetching
    BY <2>1 DEF Fetching, Inv, TypeOK
  <2> QED BY <2>1, <2>2, <1>0, UnfetchedParts DEF Waiting, Reaching
<1>2. CASE PostMatches(slot) /\ (PostFetches(slot, before) \/ PostCompletes(slot, before))
  <2>1. /\ unexpected # <<>> /\ unexpected' = Tail(unexpected)
        /\ frame' = [frame EXCEPT ![slot] = Head(unexpected)]
    BY <1>2 DEF PostMatches
  <2>2. /\ Head(unexpected) \in Frame /\ Head(unexpected) = unexpected[1]
        /\ Len(unexpected') = Len(unexpected) - 1 /\ Len(unexpected) \in Nat \ {0}
        /\ \A i \in 1..Len(unexpected') : unexpected'[i] = unexpected[i+1]
    BY <2>1, HeadTailProperties, EmptySeq DEF Inv, TypeOK
  <2>3. Waiting = Waiting' \cup {Head(unexpected)}
    <3>1. ASSUME NEW i \in 1..Len(unexpected)
          PROVE  unexpected[i] \in Waiting' \cup {Head(unexpected)}
      <4>1. CASE i = 1
        BY <2>2, <4>1
      <4>2. CASE i # 1
        <5>1. i - 1 \in 1..Len(unexpected') /\ unexpected'[i-1] = unexpected[i]
          BY <2>2, <4>2
        <5> QED BY <5>1 DEF Waiting
      <4> QED BY <4>1, <4>2
    <3>2. ASSUME NEW i \in 1..Len(unexpected') PROVE unexpected'[i] \in Waiting
      <4>1. i + 1 \in 1..Len(unexpected)
        BY <2>2
      <4> QED BY <2>2, <4>1 DEF Waiting
    <3>3. Head(unexpected) \in Waiting
      BY <2>2 DEF Waiting
    <3> QED BY <3>1, <3>2, <3>3 DEF Waiting
  <2>4. slot \notin Fetching /\ frame'[slot] = Head(unexpected)
        /\ \A t \in Slot : t # slot => frame'[t] = frame[t]
    BY <2>1, <2>2 DEF Fetching, Inv, TypeOK, Frame
  <2>5. CASE PostFetches(slot, before)
    <3>1. request' = [request EXCEPT ![slot] = "fetching"]
      BY <2>5 DEF PostFetches
    <3>2. Fetching' = Fetching \cup {slot}
      BY <3>1 DEF Fetching, Inv, TypeOK
    <3>3. Reaching' = Reaching \cup {Head(unexpected)}
      BY <2>4, <3>2 DEF Reaching, Fetching
    <3> QED BY <1>0, <2>3, <3>3, UnfetchedParts
  <2>6. CASE PostCompletes(slot, before)
    <3>1. /\ request' = [request EXCEPT ![slot] = "null"]
          /\ Head(unexpected) \in Whole
      BY <2>6 DEF PostCompletes
    <3>2. Fetching' = Fetching
      BY <2>4, <3>1 DEF Fetching, Inv, TypeOK
    <3>3. Reaching' = Reaching
      BY <2>4, <3>2 DEF Reaching, Fetching
    <3> QED BY <1>0, <2>3, <3>1, <3>3, UnfetchedParts
  <2> QED BY <1>2, <2>5, <2>6
<1> QED BY <1>1, <1>2 DEF Post, PostFetches, PostCompletes

LEMMA ThreadMoves ==
    ASSUME Inv, ReceiveMeta \/ LaneLoops \/ TakeDone \/ Ended \/ UNCHANGED vars
    PROVE  Unfetched' = Unfetched /\ arrived' = arrived
<1>t. TypeOK
  BY DEF Inv
<1>1. CASE UNCHANGED <<request, frame, unexpected, arrived>>
  BY <1>1 DEF Unfetched
<1>2. CASE PrePost /\ MoreToPost
  <2>1. slot \in Slot /\ request[slot] = "null" /\ Post(slot, {}) /\ arrived' = arrived
    BY <1>2, <1>t DEF PrePost, Inv, Fresh, TypeOK, Slot
  <2> QED BY <2>1, PostMoves
<1>3. CASE TestSlot
  <2>1. slot \in Slot /\ request[slot] = "complete" /\ arrived' = arrived
    BY <1>3, <1>t DEF TestSlot, TypeOK, Slot
  <2>2. CASE Post(slot, {frame[slot]})
    BY <2>1, <2>2, PostMoves
  <2>3. CASE ForgetsRequest(slot) /\ UNCHANGED <<frame, unexpected>>
    <3>1. \A t \in Slot : request'[t] = "fetching" <=> request[t] = "fetching"
      BY <1>t, <2>1, <2>3 DEF ForgetsRequest, TypeOK
    <3> QED BY <2>1, <2>3, <3>1 DEF Unfetched
  <2> QED BY <1>3, <2>2, <2>3 DEF TestSlot
<1>4. CASE TestSlotFails
  <2>1. /\ slot \in Slot /\ request[slot] = "complete"
        /\ request' = [request EXCEPT ![slot] = "null"]
        /\ UNCHANGED <<frame, unexpected, arrived>>
    BY <1>4, <1>t DEF TestSlotFails, ForgetsRequest, TypeOK, Slot
  <2>2. \A t \in Slot : request'[t] = "fetching" <=> request[t] = "fetching"
    BY <1>t, <2>1 DEF TypeOK
  <2> QED BY <2>1, <2>2 DEF Unfetched
<1>5. CASE ReceiveMeta \/ EndPrePost \/ PassOver \/ EndScan \/ EndProgress \/ TakeDone
           \/ (PrePost /\ ~MoreToPost) \/ Ended \/ UNCHANGED vars
  BY <1>1, <1>5 DEF ReceiveMeta, EndPrePost, PassOver, EndScan, EndProgress, TakeDone,
                    PrePost, Ended, vars
<1> QED BY <1>2, <1>3, <1>4, <1>5 DEF LaneLoops

\* Frames up to one that is being read are in different slots.
LEMMA FewBefore ==
    ASSUME Inv, NEW s \in Slot, request[s] = "fetching",
           NEW F, F \subseteq Unfetched, \A f \in F : f <= frame[s]
    PROVE  IsFiniteSet(F) /\ Cardinality(F) <= Depth
<1> DEFINE at == [f \in F |-> CHOOSE t \in Slot : request[t] = "fetching" /\ frame[t] = f]
<1>1. s \in Fetching /\ frame[s] \in Reaching
  BY DEF Fetching, Reaching
<1>2. frame[s] <= Matched /\ frame[s] \in Int /\ Matched \in Int
  BY <1>1, UnfetchedHere, Basics
<1>3. \A f \in F : f \in Reaching
  <2> SUFFICES ASSUME NEW f \in F PROVE f \notin Waiting
    BY UnfetchedParts
  <2>1. f \in Int
    BY UnfetchedHere
  <2> QED BY <1>2, <2>1, UnfetchedHere
<1>4. \A f \in F : at[f] \in Slot /\ frame[at[f]] = f
  BY <1>3 DEF Reaching, Fetching
<1>5. at \in [F -> Slot]
  BY <1>4
<1> HIDE DEF at
<1>6. at \in Injection(F, Slot)
  BY <1>4, <1>5 DEF Injection, IsInjective
<1>7. IsFiniteSet(Slot) /\ Cardinality(Slot) = Depth
  BY FS_Interval DEF Slot
<1> QED BY <1>6, <1>7, FS_Injection

\* A thread that waits for the done frame has had all the others.
LEMMA AllHere ==
    ASSUME Inv, pc \in {"done", "finished"}
    PROVE  arrived = Expected
<1>1. /\ completed = Expected /\ completed = Cardinality(processed)
      /\ processed \subseteq Frame /\ arrived \in 0..Expected
  BY DEF Inv, Ending, Counters, TypeOK
<1>2. processed = Frame
  BY <1>1, FramesFinite
<1>3. 1..Expected \subseteq 1..arrived
  BY <1>2, UnfetchedHere DEF Frame
<1> QED BY <1>1, <1>3
----------------------------------------------------------------------------
(* The frame the thread throws over, when all frames are sent by           *)
(* rendezvous: process_slot refuses it in the slot it was read into, whose *)
(* request is gone and which is not posted again.                          *)

\* Of the matched frames those that are neither processed nor in a slot with
\* a request: the one refused.
Refused ==
    pc = "failed" =>
        /\ slot \in Slot /\ request[slot] = "null"
        /\ frame[slot] \notin processed
        /\ Apart(processed \cup {frame[slot]}, Holding, frame, Matched)
        /\ Covered(processed \cup {frame[slot]}, Holding, frame, Matched)

\* What a frame that reaches the worker changes: it takes a slot, or waits.
LEMMA TakeHolds ==
    ASSUME Inv, Take, arrived < Expected
    PROVE  \/ UNCHANGED <<request, frame>> /\ Matched' = Matched
           \/ \E h \in Slot :
                /\ request[h] = "posted" /\ h \notin Holding
                /\ Holding' = Holding \cup {h} /\ Matched' = Matched + 1
                /\ frame'[h] = Matched + 1
                /\ \A t \in Slot : t # h => request'[t] = request[t] /\ frame'[t] = frame[t]
<1>1. /\ arrived' = arrived + 1 /\ arrived' \in 0..Expected
      /\ Matched \in 0..Expected /\ arrived = Matched + Len(unexpected)
      /\ Len(unexpected) \in Nat /\ Len(receives) \in Nat
  BY Basics DEF Take, NextFrame, Inv, TypeOK
<1>2. CASE /\ unexpected' = Append(unexpected, arrived')
           /\ UNCHANGED <<request, frame>>
  <2>1. Len(unexpected') = Len(unexpected) + 1
    BY <1>1, <1>2, AppendProperties DEF Inv, TypeOK, Frame
  <2> QED BY <1>1, <1>2, <2>1 DEF Matched
<1>3. CASE /\ receives # <<>>
           /\ frame' = [frame EXCEPT ![Head(receives)] = arrived']
           /\ request' = [request EXCEPT ![Head(receives)] =
                            IF arrived' \in Whole THEN "complete" ELSE "fetching"]
           /\ UNCHANGED unexpected
  <2> DEFINE h == Head(receives)
  <2>1. Len(receives) \in Nat \ {0} /\ h \in Slot /\ h = receives[1]
    BY <1>3, HeadTailProperties, EmptySeq DEF Inv, TypeOK
  <2>2. request[h] = "posted"
    BY <2>1 DEF Inv, ReceivesPosted
  <2>3. Len(unexpected) = 0 /\ Len(unexpected') = 0
    BY <1>3, EmptySeq DEF Inv, QueueInOrder
  <2>4. Matched' = Matched + 1 /\ arrived' = Matched + 1
    BY <1>1, <2>3 DEF Matched
  <2> HIDE DEF h
  <2>5. /\ request'[h] \in {"complete", "fetching"}
        /\ \A t \in Slot : t # h => request'[t] = request[t]
        /\ frame'[h] = Matched + 1
        /\ \A t \in Slot : t # h => frame'[t] = frame[t]
    BY <1>1, <1>3, <2>1, <2>4 DEF Inv, TypeOK, Request, h
  <2>6. Holding' = Holding \cup {h} /\ h \notin Holding
    BY <2>1, <2>2, <2>5 DEF Holding
  <2> QED BY <2>1, <2>2, <2>4, <2>5, <2>6
<1> QED BY <1>1, <1>2, <1>3 DEF Take, NextFrame

\* A refused frame is the last one the thread has looked at.
LEMMA RefusesOne ==
    ASSUME Inv, TestSlotFails
    PROVE  Refused'
<1>1. /\ pc = "poll" /\ slot \in Slot /\ request[slot] = "complete"
      /\ request' = [request EXCEPT ![slot] = "null"]
      /\ UNCHANGED <<slot, frame, processed, unexpected, arrived>>
  BY DEF TestSlotFails, ForgetsRequest, Inv, TypeOK, Slot
<1>2. /\ request'[slot] = "null"
      /\ \A t \in Slot : t # slot => request'[t] = request[t]
  BY <1>1 DEF Inv, TypeOK
<1>3. Holding' = Holding \ {slot} /\ slot \in Holding /\ Matched' = Matched
  BY <1>1, <1>2 DEF Holding, Matched
<1>4. /\ Apart(processed \cup {frame[slot]}, Holding \ {slot}, frame, Matched)
      /\ Covered(processed \cup {frame[slot]}, Holding \ {slot}, frame, Matched)
  BY <1>1, Released
<1>5. frame[slot] \notin processed
  BY <1>3 DEF Inv, Apart
<1> QED BY <1>1, <1>2, <1>3, <1>4, <1>5 DEF Refused, Apart, Covered

LEMMA RefusedInit == Init => Refused
BY DEF Init, Refused

LEMMA RefusedNext ==
    ASSUME Whole = {}, Inv, Refused, [Next]_vars
    PROVE  Refused'
<1>1. CASE Take /\ arrived < Expected
  <2> SUFFICES ASSUME pc = "failed" PROVE Refused'
    BY <1>1 DEF Take, thread, Refused
  <2>1. /\ slot \in Slot /\ request[slot] = "null" /\ frame[slot] \notin processed
        /\ Apart(processed \cup {frame[slot]}, Holding, frame, Matched)
        /\ Covered(processed \cup {frame[slot]}, Holding, frame, Matched)
    BY DEF Refused
  <2>2. UNCHANGED <<pc, slot, processed>>
    BY <1>1 DEF Take, thread
  <2>3. CASE UNCHANGED <<request, frame>> /\ Matched' = Matched
    BY <2>1, <2>2, <2>3 DEF Refused, Holding, Apart, Covered
  <2>4. ASSUME NEW h \in Slot,
               request[h] = "posted", h \notin Holding,
               Holding' = Holding \cup {h}, Matched' = Matched + 1,
               frame'[h] = Matched + 1,
               \A t \in Slot : t # h => request'[t] = request[t] /\ frame'[t] = frame[t]
        PROVE  Refused'
    <3>1. slot # h /\ request'[slot] = "null" /\ frame'[slot] = frame[slot]
      BY <2>1, <2>4
    <3>2. \A t \in Holding : frame'[t] = frame[t]
      BY <2>4 DEF Holding
    <3>3. Matched \in Nat
      BY Basics
    <3>4. /\ Apart(processed \cup {frame[slot]}, Holding \cup {h}, frame', Matched + 1)
          /\ Covered(processed \cup {frame[slot]}, Holding \cup {h}, frame', Matched + 1)
      BY <2>1, <2>4, <3>2, <3>3, NextHeld
    <3> QED BY <2>1, <2>2, <2>4, <3>1, <3>4 DEF Refused, Apart, Covered
  <2> QED BY <1>1, <2>3, <2>4, TakeHolds
<1>2. CASE \E s \in Slot : Fetch(s)
  <2> PICK s \in Slot : Fetch(s)
    BY <1>2
  <2>1. /\ request[s] = "fetching" /\ request' = [request EXCEPT ![s] = "complete"]
        /\ UNCHANGED <<pc, slot, frame, processed, unexpected, arrived>>
    BY DEF Fetch, thread
  <2>2. /\ request'[s] = "complete"
        /\ \A t \in Slot : t # s => request'[t] = request[t]
    BY <2>1 DEF Inv, TypeOK
  <2>3. Holding' = Holding /\ Matched' = Matched
    BY <2>1, <2>2 DEF Holding, Matched
  <2> QED BY <2>1, <2>2, <2>3 DEF Refused, Apart, Covered
<1>3. CASE TestSlotFails
  BY <1>3, RefusesOne
<1>4. CASE UNCHANGED vars
  BY <1>4 DEF vars, Refused, Holding, Matched, Apart, Covered
<1>5. CASE ReceiveMeta \/ PrePost \/ EndPrePost \/ PassOver \/ TestSlot \/ EndScan
           \/ EndProgress \/ ReceiveDone
  <2>1. ASSUME NEW before, Post(slot, before) PROVE pc' = pc
    BY <2>1 DEF Post, PostWaits, PostFetches, PostCompletes
  <2>2. pc' # "failed"
    <3>1. CASE PrePost
      BY <2>1, <3>1 DEF PrePost
    <3>2. CASE TestSlot
      BY <2>1, <3>2 DEF TestSlot
    <3>3. CASE ReceiveMeta \/ EndPrePost \/ PassOver \/ EndScan \/ EndProgress \/ ReceiveDone
      BY <3>3 DEF ReceiveMeta, EndPrePost, PassOver, EndScan, EndProgress, ReceiveDone,
                  TakeDone, Loop
    <3> QED BY <1>5, <3>1, <3>2, <3>3
  <2> QED BY <2>2 DEF Refused
<1> QED
  BY <1>1, <1>2, <1>3, <1>4, <1>5
     DEF Next, Worker, Arrive, Fetched, WhileClosing, OnTheWire, Thread, LaneLoops, Ended

\* What a slot whose receive has completed has: a frame that is read and not
\* processed.
LEMMA CompleteRead ==
    ASSUME Inv, NEW s \in Slot, request[s] = "complete"
    PROVE  frame[s] \in (1..Matched) \ processed /\ frame[s] \notin Unfetched
<1>1. frame[s] \in (1..Matched) \ processed
  BY DEF Inv, Apart, Holding
<1>2. frame[s] \notin Reaching
  BY DEF Inv, Apart, Holding, Reaching, Fetching
<1>3. frame[s] \notin Waiting
  <2>1. Matched \in Int
    BY Basics
  <2>2. \A f \in Waiting : f > Matched
    BY UnfetchedHere
  <2> QED BY <1>1, <2>1, <2>2
<1> QED BY <1>1, <1>2, <1>3, UnfetchedParts

\* How many receives have been posted, while no frame is sent eagerly: as many
\* as there are frames matched and receives to be matched, at most one for each
\* slot the first loop has come to.
PostedSoFar ==
    /\ posted = Matched + Len(receives)
    /\ pc \in {"meta", "prepost"} => posted < slot /\ processed = {}

LEMMA PostedSoFarInit == Init => PostedSoFar
BY DEF Init, PostedSoFar, Matched

\* What one step of the loops posts and processes: at most one frame.
LEMMA ProcessesOne ==
    ASSUME Whole = {}, Inv, PostedSoFar, LaneLoops
    PROVE  /\ pc \in {"prepost", "poll", "progress"}
           /\ \/ /\ pc' \in {"prepost", "poll", "progress", "done"} /\ UNCHANGED processed
                 /\ pc' = "prepost" => pc = "prepost" /\ slot' = slot + 1
                 /\ \/ UNCHANGED posted
                    \/ /\ pc = "prepost" /\ pc' = "prepost"
                       /\ posted < Depth /\ posted < Expected /\ posted' = posted + 1
              \/ \E s \in Slot :
                    /\ pc = "poll" /\ request[s] = "complete"
                    /\ \/ /\ pc' = pc
                          /\ processed' = processed \cup {frame[s]}
                          /\ posted' = IF posted < Expected THEN posted + 1 ELSE posted
                       \/ pc' = "failed" /\ UNCHANGED <<processed, posted, receives, arrived, unexpected>>
<1>1. ASSUME NEW before, Post(slot, before)
      PROVE  /\ pc' = pc /\ processed' = processed \cup before
             /\ posted' = posted + 1 /\ slot' = slot + 1
  BY <1>1 DEF Post, PostWaits, PostFetches, PostCompletes, Accept
<1>t. slot \in Int /\ posted \in Int
  BY DEF Inv, TypeOK
<1>2. CASE PrePost
  <2>0. pc = "prepost" /\ slot <= Depth /\ posted < Depth
    BY <1>2, <1>t DEF PrePost, PostedSoFar
  <2>1. CASE MoreToPost /\ Post(slot, {})
    <3>1. pc' = pc /\ processed' = processed /\ posted' = posted + 1 /\ slot' = slot + 1
      BY <1>1, <2>1
    <3> QED BY <2>0, <2>1, <3>1 DEF MoreToPost
  <2>2. CASE UNCHANGED <<pc, processed, posted>> /\ slot' = slot + 1
    BY <2>0, <2>2
  <2> QED BY <1>2, <2>1, <2>2 DEF PrePost
<1>3. CASE TestSlot
  <2>1. slot \in Slot /\ request[slot] = "complete" /\ pc = "poll"
    BY <1>3 DEF TestSlot, Inv, TypeOK, Slot
  <2>2. /\ pc' = pc /\ processed' = processed \cup {frame[slot]}
        /\ posted' = IF posted < Expected THEN posted + 1 ELSE posted
    BY <1>1, <1>3 DEF TestSlot, Accept, MoreToPost
  <2> QED BY <2>1, <2>2
<1>4. CASE TestSlotFails
  <2>1. slot \in Slot
    BY <1>4 DEF TestSlotFails, Inv, TypeOK, Slot
  <2> QED BY <1>4, <2>1 DEF TestSlotFails
<1>5. CASE EndPrePost \/ PassOver \/ EndScan \/ EndProgress
  BY <1>5 DEF EndPrePost, PassOver, EndScan, EndProgress, Loop
<1> QED BY <1>2, <1>3, <1>4, <1>5 DEF LaneLoops

LEMMA PostedSoFarNext ==
    ASSUME Whole = {}, Inv, PostedSoFar, [Next]_vars
    PROVE  PostedSoFar'
<1>t. /\ slot \in 1..Depth+1 /\ posted \in 0..Expected /\ arrived \in 0..Expected
      /\ receives \in Seq(Slot) /\ unexpected \in Seq(Frame)
  BY DEF Inv, TypeOK
<1>1. posted' = Matched' + Len(receives)'
  <2>1. CASE pc' # "failed"
    BY <2>1, InvNext DEF Inv, Counters
  <2>2. CASE Take
    <3>1. arrived' = arrived + 1 /\ UNCHANGED posted
      BY <2>2 DEF Take, NextFrame, thread
    <3>2. CASE unexpected' = Append(unexpected, NextFrame) /\ UNCHANGED receives
      BY <1>t, <3>1, <3>2 DEF PostedSoFar, Matched
    <3>3. CASE receives # <<>> /\ receives' = Tail(receives) /\ UNCHANGED unexpected
      BY <1>t, <3>1, <3>3 DEF PostedSoFar, Matched
    <3> QED BY <2>2, <3>2, <3>3 DEF Take
  <2>3. CASE UNCHANGED <<posted, receives, arrived, unexpected>>
    BY <2>3 DEF PostedSoFar, Matched
  <2>4. CASE LaneLoops /\ pc' = "failed"
    BY <2>3, <2>4, ProcessesOne
  <2> QED
    BY <2>1, <2>2, <2>3, <2>4
       DEF Next, Worker, Arrive, Fetched, Fetch, WhileClosing, thread, Thread, ReceiveMeta,
           ReceiveDone, TakeDone, Ended, vars
<1>2. pc' \in {"meta", "prepost"} => posted' < slot' /\ processed' = {}
  <2>1. CASE LaneLoops
    <3>1. SUFFICES ASSUME pc' = "prepost"
                   PROVE  posted' < slot' /\ processed' = {}
      BY <2>1, ProcessesOne
    <3>2. /\ pc = "prepost" /\ slot' = slot + 1 /\ UNCHANGED processed
          /\ posted' = posted \/ posted' = posted + 1
      BY <2>1, <3>1, ProcessesOne
    <3> QED BY <1>t, <3>2 DEF PostedSoFar
  <2>2. CASE ReceiveMeta
    BY <2>2 DEF ReceiveMeta, PostedSoFar
  <2>3. CASE ReceiveDone
    BY <2>3 DEF ReceiveDone, TakeDone
  <2>4. CASE UNCHANGED <<pc, slot, posted, processed>>
    BY <2>4 DEF PostedSoFar
  <2> QED
    BY <2>1, <2>2, <2>3, <2>4
       DEF Next, Worker, Arrive, Take, Fetched, Fetch, WhileClosing, thread, Thread, Ended, vars
<1> QED BY <1>1, <1>2 DEF PostedSoFar

LEMMA RefusedRead ==
    ASSUME Inv, Refused, pc = "failed"
    PROVE  frame[slot] \in (1..Matched) \ processed /\ frame[slot] \notin Unfetched
<1>1. /\ frame[slot] \in (1..Matched) \ processed
      /\ \A t \in Holding : frame[t] # frame[slot]
  BY DEF Refused, Apart
<1>2. frame[slot] \notin Reaching
  BY <1>1 DEF Reaching, Fetching, Holding
<1>3. frame[slot] \notin Waiting
  <2>1. Matched \in Int
    BY Basics
  <2>2. \A f \in Waiting : f > Matched
    BY UnfetchedHere
  <2> QED BY <1>1, <2>1, <2>2
<1> QED BY <1>1, <1>2, <1>3, UnfetchedParts
----------------------------------------------------------------------------
(* The lane is a window of Depth receives.                                 *)

\* Receives are only posted, frames only processed; the step that fails
\* posts nothing.
LEMMA Onward ==
    ASSUME Inv, Next, pc # "failed"
    PROVE  /\ posted <= posted' /\ processed \subseteq processed'
           /\ pc' = "failed" =>
                  /\ posted' = posted
                  /\ \/ processed' = processed
                     \/ /\ slot \in Holding
                        /\ processed' = processed \cup {frame[slot]}
<1>1. posted \in Int /\ slot \in 1..Depth+1
  BY DEF Inv, TypeOK
<1>2. ASSUME NEW before, Post(slot, before)
      PROVE  /\ posted <= posted' /\ processed \subseteq processed'
             /\ pc' = "failed" => posted' = posted /\ processed' = processed \cup before
  <2>1. CASE PostWaits(slot, before) \/ PostFetches(slot, before)
    BY <1>1, <2>1 DEF PostWaits, PostFetches, Accept
  <2>2. CASE PostCompletes(slot, before)
    BY <1>1, <2>2 DEF PostCompletes, Accept
  <2> QED BY <1>2, <2>1, <2>2 DEF Post
<1>3. CASE PrePost
  <2>1. CASE Post(slot, {})
    BY <1>2, <2>1
  <2>2. CASE UNCHANGED <<pc, posted, processed>>
    BY <1>1, <2>2
  <2> QED BY <1>3, <2>1, <2>2 DEF PrePost
<1>4. CASE TestSlot
  <2>1. slot \in Holding
    BY <1>1, <1>4 DEF TestSlot, Holding, Slot
  <2>2. CASE Post(slot, {frame[slot]})
    BY <1>2, <2>1, <2>2
  <2>3. CASE Accept({frame[slot]}) /\ UNCHANGED <<pc, posted>>
    BY <1>1, <2>3 DEF Accept
  <2> QED BY <1>4, <2>2, <2>3 DEF TestSlot
<1>5. CASE UNCHANGED <<posted, processed>>
  BY <1>1, <1>5
<1>6. CASE ReceiveMeta \/ EndPrePost \/ PassOver \/ TestSlotFails \/ EndScan
           \/ EndProgress \/ ReceiveDone \/ Ended
  BY <1>5, <1>6 DEF ReceiveMeta, EndPrePost, PassOver, TestSlotFails, EndScan,
                    EndProgress, ReceiveDone, TakeDone, Ended, vars
<1>7. CASE Worker
  BY <1>5, <1>7 DEF Worker, Arrive, Fetched, Fetch, WhileClosing, Take, thread
<1> QED BY <1>3, <1>4, <1>6, <1>7 DEF Next, Thread, LaneLoops

\* What makes a step one of a window.
LEMMA MovesOne ==
    ASSUME posted \in 0..Expected, posted' \in 0..Expected, posted <= posted',
           processed \subseteq processed', processed' \subseteq 1..posted',
           posted' - Cardinality(processed') <= Depth
    PROVE  Window!Moves
<1>1. posted' \in posted..Expected /\ processed' \in SUBSET (1..posted')
  OBVIOUS
<1>2. Window!Cardinality(processed') = Cardinality(processed')
  BY DEF Window!Cardinality, Cardinality
<1> QED BY <1>1, <1>2 DEF Window!Moves

LEMMA StepsInWindow ==
    Inv /\ Inv' /\ [Next]_vars => [Window!Advance \/ Window!Fail]_(Window!wvars)
<1> SUFFICES ASSUME Inv, Inv', [Next]_vars
             PROVE  Window!Advance \/ Window!Fail \/ UNCHANGED Window!wvars
  OBVIOUS
<1>1. CASE pc = "failed" \/ UNCHANGED vars
  <2>1. UNCHANGED <<posted, processed, pc>>
    BY <1>1 DEF Next, Worker, Arrive, Fetched, Fetch, WhileClosing, Take, thread, Thread,
                ReceiveMeta, LaneLoops, PrePost, EndPrePost, PassOver, TestSlot, TestSlotFails,
                EndScan, EndProgress, ReceiveDone, TakeDone, Ended, vars
  <2> QED BY <2>1 DEF Window!wvars
<1>2. CASE pc # "failed" /\ Next
  <2>1. /\ posted <= posted' /\ processed \subseteq processed'
        /\ pc' = "failed" =>
               /\ posted' = posted
               /\ \/ processed' = processed
                  \/ /\ slot \in Holding
                     /\ processed' = processed \cup {frame[slot]}
    BY <1>2, Onward
  <2>2. /\ posted \in 0..Expected /\ posted' \in 0..Expected
        /\ completed \in Int /\ completed' \in Int
        /\ completed = Cardinality(processed) /\ completed' = Cardinality(processed')
        /\ posted = completed + Cardinality(Pending)
        /\ posted = Matched + Len(receives)
    BY <1>2 DEF Inv, TypeOK, Counters
  <2>3. Cardinality(Pending) \in 0..Depth /\ Cardinality(Pending') \in 0..Depth
    BY SlotsFinite DEF Pending
  <2>4. Len(receives) \in Nat /\ Matched \in Nat /\ 1..Matched \subseteq 1..posted
    <3>1. Len(receives) \in Nat /\ Matched \in Nat
      BY Basics
    <3> QED BY <2>2, <3>1
  <2>5. CASE pc' # "failed"
    <3>1. /\ processed' \subseteq 1..Matched'
          /\ posted' = completed' + Cardinality(Pending')
          /\ posted' = Matched' + Len(receives')
      BY <2>5 DEF Inv, Apart, Counters
    <3>2. Len(receives') \in Nat /\ Matched' \in Int
      <4>1. receives' \in Seq(Slot) /\ unexpected' \in Seq(Frame) /\ arrived' \in 0..Expected
        BY DEF Inv, TypeOK
      <4>2. Len(receives') \in Nat /\ Len(unexpected') \in Nat
        BY <4>1, LenProperties
      <4> QED BY <4>1, <4>2 DEF Matched
    <3>3. processed' \subseteq 1..posted'
      BY <3>1, <3>2
    <3>4. posted' - Cardinality(processed') <= Depth
      <4>1. posted' \in Int /\ completed' \in Int
        BY <2>2
      <4>2. posted' - completed' <= Depth
        <5>1. posted' = completed' + Cardinality(Pending') /\ Cardinality(Pending') \in 0..Depth
          BY <2>3, <3>1
        <5> QED BY ONLY <5>1, <4>1, DepthAssumption
      <4> QED BY <2>2, <4>2
    <3>5. Window!Moves
      BY <2>1, <2>2, <3>3, <3>4, MovesOne
    <3> QED BY <1>2, <2>5, <3>5 DEF Window!Advance
  <2>6. CASE pc' = "failed"
    <3>1. processed' \subseteq 1..posted'
      BY <2>1, <2>4, <2>6 DEF Inv, Apart
    <3>2. completed <= completed'
      <4>1. processed' \subseteq Frame
        BY DEF Inv, TypeOK
      <4>2. IsFiniteSet(processed')
        BY <4>1, FramesFinite
      <4> QED BY <2>1, <2>2, <4>2, FS_Subset
    <3>3. posted' - Cardinality(processed') <= Depth
      <4>1. posted \in Int /\ completed \in Int /\ completed' \in Int
        BY <2>2
      <4>2. posted' = posted /\ posted = completed + Cardinality(Pending)
        BY <2>1, <2>2, <2>6
      <4>3. posted' - completed' <= Depth
        BY <2>3, <3>2, <4>1, <4>2
      <4> QED BY <2>2, <4>3
    <3>4. Window!Moves
      BY <2>1, <2>2, <3>1, <3>3, MovesOne
    <3> QED BY <1>2, <2>6, <3>4 DEF Window!Fail
  <2> QED BY <2>5, <2>6
<1> QED BY <1>1, <1>2

\* Whatever completes at once or fails, receives are posted in order, each
\* is retired once, and at most Depth of them are outstanding: the safety of
\* ImplementsWindow.
THEOREM WindowRespected ==
    Spec => Window!Init /\ [][Window!Advance \/ Window!Fail]_(Window!wvars)
<1>1. Init => Window!Init
  BY DEF Init, Window!Init
<1> QED BY <1>1, Invariance, StepsInWindow, PTL DEF Spec
----------------------------------------------------------------------------
(* How full the window is kept.                                            *)

\* The frames processed that had to be fetched.
Late == Cardinality(processed \ Whole)

\* The slots that have had their first receive posted into them.
Opened == IF pc \in {"meta", "prepost"} THEN slot - 1 ELSE Depth

\* As long as there are frames nobody has posted for, every slot has been
\* posted once, and once more for every frame that was not there at once.
KeptFull == pc # "failed" => posted = Expected \/ posted >= Opened + Late

\* Processing one more frame, and some that were there at once, makes at most
\* one more late.
LEMMA OneMoreLate ==
    ASSUME Inv, NEW more \in SUBSET Whole
    PROVE  /\ Late \in Nat
           /\ Cardinality((processed \cup more) \ Whole) = Late
           /\ \A f \in Frame : /\ Cardinality((processed \cup {f} \cup more) \ Whole) \in Nat
                               /\ Cardinality((processed \cup {f} \cup more) \ Whole) <= Late + 1
<1>1. IsFiniteSet(processed \ Whole)
  <2>1. processed \ Whole \subseteq Frame
    BY DEF Inv, TypeOK
  <2> QED BY <2>1, FramesFinite
<1>2. Late \in Nat
  BY <1>1, FS_CardinalityType DEF Late
<1>3. (processed \cup more) \ Whole = processed \ Whole
  OBVIOUS
<1>4. ASSUME NEW f \in Frame
      PROVE  /\ Cardinality((processed \cup {f} \cup more) \ Whole) \in Nat
             /\ Cardinality((processed \cup {f} \cup more) \ Whole) <= Late + 1
  <2>1. CASE f \in Whole
    <3>1. (processed \cup {f} \cup more) \ Whole = processed \ Whole
      BY <2>1
    <3> QED BY <1>2, <3>1 DEF Late
  <2>2. CASE f \notin Whole
    <3>1. (processed \cup {f} \cup more) \ Whole = (processed \ Whole) \cup {f}
      BY <2>2
    <3>2. Cardinality((processed \ Whole) \cup {f}) \in {Late, Late + 1}
      BY <1>1, FS_AddElement DEF Late
    <3>3. Cardinality((processed \cup {f} \cup more) \ Whole) \in {Late, Late + 1}
      BY <3>1, <3>2, Zenon
    <3> QED BY <1>2, <3>3
  <2> QED BY <2>1, <2>2
<1> QED BY <1>2, <1>3, <1>4 DEF Late

LEMMA LateCounts == Inv => Late \in Nat
<1>1. {} \in SUBSET Whole
  OBVIOUS
<1> QED BY <1>1, OneMoreLate

\* What post_recv does to the count of receives and the frames processed.
LEMMA PostPosts ==
    ASSUME Inv, NEW before, Post(slot, before), pc' # "failed"
    PROVE  /\ pc' = pc /\ posted' = posted + 1 /\ slot' = slot + 1
           /\ \E more \in SUBSET Whole : processed' = processed \cup before \cup more
<1>1. CASE PostWaits(slot, before) \/ PostFetches(slot, before)
  <2>1. processed' = processed \cup before \cup {}
    BY <1>1 DEF PostWaits, PostFetches, Accept
  <2> QED BY <1>1, <2>1 DEF PostWaits, PostFetches
<1>2. CASE PostCompletes(slot, before)
  <2>1. pc' = pc /\ Accept(before \cup {Head(unexpected)}) /\ posted' = posted + 1
        /\ slot' = slot + 1 /\ Head(unexpected) \in Whole
    BY <1>2 DEF PostCompletes
  <2>2. processed' = processed \cup before \cup {Head(unexpected)}
    BY <2>1 DEF Accept
  <2> QED BY <2>1, <2>2
<1> QED BY <1>1, <1>2 DEF Post

LEMMA OneMoreBoth ==
    ASSUME NEW a \in Int, NEW d \in Int, NEW n \in Int, NEW m \in Int, a >= d + n, m <= n + 1
    PROVE  a + 1 >= d + m
OBVIOUS

LEMMA KeptFullInit == Init => KeptFull
<1> SUFFICES ASSUME Init PROVE posted >= Opened + Late
  BY DEF KeptFull
<1>1. Late = 0
  <2>1. processed \ Whole = {}
    BY DEF Init
  <2> QED BY <2>1, FS_EmptySet DEF Late
<1> QED BY <1>1 DEF Init, Opened

LEMMA KeptFullNext == ASSUME Inv, KeptFull, [Next]_vars PROVE KeptFull'
<1> SUFFICES ASSUME pc' # "failed", posted' # Expected
             PROVE  posted' >= Opened' + Late'
  BY DEF KeptFull
<1>1. /\ posted \in 0..Expected /\ slot \in 1..Depth+1 /\ slot \in Int /\ posted \in Int
      /\ \A s \in Slot : frame[s] \in 0..Expected
  BY DEF Inv, TypeOK
<1>2. Late \in Nat
  BY OneMoreLate
<1>3. CASE pc # "failed" /\ UNCHANGED <<posted, processed>> /\ Opened' = Opened
  <2>1. Late' = Late
    BY <1>3 DEF Late
  <2>2. posted # Expected
    BY <1>3
  <2>3. posted >= Opened + Late
    BY <1>3, <2>2 DEF KeptFull
  <2> QED BY <1>3, <2>1, <2>3
<1>4. ASSUME PrePost \/ TestSlot PROVE pc # "failed" /\ slot \in Slot
  BY <1>1, <1>4 DEF PrePost, TestSlot, Slot
<1>5. ASSUME ~MoreToPost, pc # "failed" PROVE posted = Expected
  BY <1>1, <1>5 DEF MoreToPost
<1>6. ASSUME MoreToPost, pc # "failed" PROVE posted >= Opened + Late
  BY <1>1, <1>6 DEF KeptFull, MoreToPost
<1>7. CASE PrePost
  <2>1. MoreToPost /\ Post(slot, {})
    BY <1>4, <1>5, <1>7 DEF PrePost
  <2>2. /\ pc = "prepost" /\ pc' = pc /\ posted' = posted + 1 /\ slot' = slot + 1
        /\ \E more \in SUBSET Whole : processed' = processed \cup {} \cup more
    BY <1>7, <2>1, PostPosts DEF PrePost
  <2>3. PICK more \in SUBSET Whole : processed' = processed \cup more
    BY <2>2
  <2>4. Late' = Late
    BY <2>3, OneMoreLate DEF Late
  <2>5. Opened = slot - 1 /\ Opened' = slot
    BY <1>1, <2>2 DEF Opened
  <2>6. posted >= Opened + Late
    BY <1>4, <1>6, <1>7, <2>1
  <2> QED BY <1>1, <1>2, <2>2, <2>4, <2>5, <2>6
<1>8. CASE TestSlot
  <2>1. MoreToPost /\ Post(slot, {frame[slot]})
    BY <1>4, <1>5, <1>8 DEF TestSlot
  <2>2. /\ pc = "poll" /\ pc' = pc /\ posted' = posted + 1
        /\ \E more \in SUBSET Whole : processed' = processed \cup {frame[slot]} \cup more
    BY <1>8, <2>1, PostPosts DEF TestSlot
  <2>3. PICK more \in SUBSET Whole : processed' = processed \cup {frame[slot]} \cup more
    BY <2>2
  <2>4. frame[slot] \in Frame
    <3>1. slot \in Holding
      BY <1>4, <1>8 DEF TestSlot, Holding
    <3>2. Matched \in 0..Expected
      BY Basics
    <3> QED BY <3>1, <3>2 DEF Inv, Apart, Frame
  <2>5. Late' \in Nat /\ Late' <= Late + 1
    BY <2>3, <2>4, OneMoreLate DEF Late
  <2>6. Opened = Depth /\ Opened' = Depth
    BY <2>2 DEF Opened
  <2>7. posted >= Opened + Late
    BY <1>4, <1>6, <1>8, <2>1
  <2>8. posted >= Depth + Late
    BY <2>6, <2>7
  <2>9. posted' >= Depth + Late'
    <3>1. posted' = posted + 1 /\ posted \in Int
      BY <1>1, <2>2
    <3>2. Depth \in Int /\ Late \in Int /\ Late' \in Int /\ Late' <= Late + 1
      BY <1>2, <2>5
    <3> QED BY <2>8, <3>1, <3>2, OneMoreBoth
  <2> QED BY <2>6, <2>9
<1>9. CASE EndPrePost
  <2>1. slot - 1 = Depth
    BY <1>1, <1>9 DEF EndPrePost
  <2>2. pc # "failed" /\ UNCHANGED <<posted, processed>> /\ Opened' = Opened
    BY <1>9, <2>1 DEF EndPrePost, Loop, Opened
  <2> QED BY <1>3, <2>2
<1>10. CASE ReceiveMeta \/ PassOver \/ TestSlotFails \/ EndScan \/ EndProgress \/ ReceiveDone
            \/ Ended \/ Worker \/ UNCHANGED vars
  <2>1. pc # "failed" /\ UNCHANGED <<posted, processed>> /\ Opened' = Opened
    BY <1>10 DEF ReceiveMeta, PassOver, TestSlotFails, EndScan, Loop, EndProgress, ReceiveDone,
                 TakeDone, Ended, Worker, Arrive, Fetched, Fetch, WhileClosing, Take, thread,
                 vars, Opened
  <2> QED BY <1>3, <2>1
<1> QED BY <1>7, <1>8, <1>9, <1>10 DEF Next, Thread, LaneLoops

\* While the thread polls, its window is full but for a slot for each frame
\* that was there at once, for any depth and any frames.
THEOREM WindowStaysFull == Spec => []WindowFull
<1>1. Inv /\ KeptFull /\ [Next]_vars => (Inv /\ KeptFull)'
  BY InvNext, KeptFullNext
<1>2. Spec => [](Inv /\ KeptFull)
  BY <1>1, InvInit, KeptFullInit, PTL DEF Spec
<1>3. Inv /\ KeptFull => WindowFull
  <2> SUFFICES ASSUME Inv, KeptFull, pc \in {"poll", "progress"}
               PROVE  \/ Cardinality(Pending) = Expected - completed
                      \/ Cardinality(Pending) >= Depth - Cardinality(Whole \cap processed)
    BY DEF WindowFull
  <2>1. posted = Expected \/ posted >= Depth + Late
    BY DEF KeptFull, Opened
  <2>2. /\ completed = Cardinality(processed) /\ processed \subseteq Frame
        /\ posted = completed + Cardinality(Pending)
        /\ posted \in Nat /\ completed \in Nat
    BY DEF Inv, Counters, TypeOK
  <2>3. Cardinality(Pending) \in Nat
    BY SlotsFinite DEF Pending
  <2>4. completed <= Late + Cardinality(Whole \cap processed)
        /\ Late \in Nat /\ Cardinality(Whole \cap processed) \in Nat
    <3>1. IsFiniteSet(processed \ Whole) /\ IsFiniteSet(Whole \cap processed)
      <4>1. processed \ Whole \subseteq Frame /\ Whole \cap processed \subseteq Frame
        BY <2>2
      <4> QED BY <4>1, FramesFinite
    <3>2. processed = (processed \ Whole) \cup (Whole \cap processed)
      OBVIOUS
    <3>3. (processed \ Whole) \cap (Whole \cap processed) = {}
      OBVIOUS
    <3>4. Cardinality((processed \ Whole) \cup (Whole \cap processed))
            = Late + Cardinality(Whole \cap processed) - 0
      BY <3>1, <3>3, FS_Union, FS_EmptySet DEF Late
    <3>5. Late \in Nat /\ Cardinality(Whole \cap processed) \in Nat
      BY <3>1, FS_CardinalityType DEF Late
    <3>6. completed = Cardinality((processed \ Whole) \cup (Whole \cap processed))
      BY <2>2, <3>2, Zenon
    <3> QED BY <2>2, <3>4, <3>5, <3>6
  <2> QED BY <2>1, <2>2, <2>3, <2>4
<1> QED BY <1>2, <1>3, PTL
=============================================================================
