----------------------------- MODULE LaneProofs -----------------------------
(***************************************************************************)
(* Proofs about the two ends of a lane, for any two depths and any frames. *)
(*                                                                         *)
(* SendLane and RecvLane each assume something of the other end.  What     *)
(* discharges the assumptions is that the ends agree on the frames between *)
(* them (SameFrames): the frames on the sender's wire are those the        *)
(* receiver has not fetched and those that have not reached it.  They were *)
(* announced in order, each when the sender had a slot no older one is in  *)
(* (Ordered), so they are fewer than its slots; and all up to one that is  *)
(* being read are in different slots of the receiver, so the receiver      *)
(* reads only the oldest frames.                                           *)
(*                                                                         *)
(* For the lane of Transfer (at the end) the receiver must have posted a   *)
(* receive for each frame that is read (PostedSoFar of RecvLaneProofs) and *)
(* for each of its slots once it polls (KeptFull), and a thread that has   *)
(* thrown must hold the frame it has thrown over (Refused).                *)
(***************************************************************************)
EXTENDS Lane, SequenceTheorems, FiniteSetTheorems, TLAPS

SP == INSTANCE SendLaneProofs
      WITH Depth <- SendDepth, pc <- spc, slot <- sslot, request <- srequest
RP == INSTANCE RecvLaneProofs
      WITH Depth <- RecvDepth, Expected <- Total,
           pc <- rpc, slot <- rslot, request <- rrequest

USE DepthsAssumption, TotalAssumption, FramesAssumption

\* The ends agree on the frames that are not yet read.
SameFrames ==
    /\ arrived <= next - 1
    /\ SP!Announced = RP!Unfetched \cup ((arrived+1..next-1) \ Whole)

Inv == SP!Inv /\ SP!Ordered /\ RP!Inv /\ SameFrames
----------------------------------------------------------------------------
(* The instances of the two modules and those of their proofs are the same *)
(* modules.                                                                *)

LEMMA SameSender ==
    /\ S!Slot = SP!Slot
    /\ S!Init <=> SP!Init
    /\ S!Thread <=> SP!Thread
    /\ \A s : S!Complete(s) <=> SP!Complete(s)
    /\ \A i : S!ReadAt(i) <=> SP!ReadAt(i)
    /\ S!Next <=> SP!Next
    /\ UNCHANGED S!vars <=> UNCHANGED SP!vars
<1>1. S!Slot = SP!Slot /\ (UNCHANGED S!vars <=> UNCHANGED SP!vars)
  BY DEF S!Slot, SP!Slot, S!vars, SP!vars
<1>2. S!Init <=> SP!Init
  BY <1>1 DEF S!Init, SP!Init
<1>3. S!Progressing <=> SP!Progressing
  BY DEF S!Progressing, SP!Progressing
<1>4. S!Thread <=> SP!Thread
  <2>1. \A s : S!FreeSlot(s) <=> SP!FreeSlot(s)
    BY DEF S!FreeSlot, SP!FreeSlot, S!IsFree, SP!IsFree
  <2>2. \A s : S!SendFrame(s) <=> SP!SendFrame(s)
    BY <2>1 DEF S!SendFrame, SP!SendFrame, S!MoreChunks, SP!MoreChunks, S!Announce, SP!Announce
  <2>3. \A s : S!SendFrameFails(s) <=> SP!SendFrameFails(s)
    BY <2>1 DEF S!SendFrameFails, SP!SendFrameFails
  <2>4. /\ S!SendMeta <=> SP!SendMeta
        /\ S!SendDone <=> SP!SendDone
        /\ S!EndProgress <=> SP!EndProgress
    BY <1>3 DEF S!SendMeta, SP!SendMeta, S!SendDone, SP!SendDone, S!EndProgress, SP!EndProgress
  <2>5. /\ S!CallWaitForOne <=> SP!CallWaitForOne
        /\ S!WaitOneTest <=> SP!WaitOneTest
        /\ S!WaitOneProgress <=> SP!WaitOneProgress
    BY <1>1 DEF S!CallWaitForOne, SP!CallWaitForOne, S!WaitOneTest, SP!WaitOneTest,
                S!WaitOneProgress, SP!WaitOneProgress, S!IsFree, SP!IsFree,
                S!MoreChunks, SP!MoreChunks, S!Release, SP!Release
  <2>6. /\ S!CallWaitForAll <=> SP!CallWaitForAll
        /\ S!WaitAllTest <=> SP!WaitAllTest
        /\ S!WaitAllEnd <=> SP!WaitAllEnd
    BY DEF S!CallWaitForAll, SP!CallWaitForAll, S!WaitAllTest, SP!WaitAllTest,
           S!WaitAllEnd, SP!WaitAllEnd, S!MoreChunks, SP!MoreChunks,
           S!AnyRequest, SP!AnyRequest, S!Release, SP!Release
  <2> QED BY <1>1, <2>2, <2>3, <2>4, <2>5, <2>6 DEF S!Thread, SP!Thread
<1>5. \A s : S!Complete(s) <=> SP!Complete(s)
  BY <1>3 DEF S!Complete, SP!Complete
<1>6. \A i : S!ReadAt(i) <=> SP!ReadAt(i)
  BY DEF S!ReadAt, SP!ReadAt, S!Content, SP!Content
<1>7. S!Next <=> SP!Next
  BY <1>1, <1>4, <1>5, <1>6 DEF S!Next, SP!Next, S!Receiver, SP!Receiver,
                                S!Read, SP!Read, S!Ended, SP!Ended
<1> QED BY <1>1, <1>2, <1>4, <1>5, <1>6, <1>7

LEMMA SameReceiver ==
    /\ R!Slot = RP!Slot
    /\ R!Unfetched = RP!Unfetched /\ R!NextFrame = RP!NextFrame
    /\ R!Init <=> RP!Init
    /\ R!Take <=> RP!Take
    /\ \A s : R!Fetch(s) <=> RP!Fetch(s)
    /\ R!ReceiveMeta <=> RP!ReceiveMeta
    /\ R!LaneLoops <=> RP!LaneLoops
    /\ R!TakeDone <=> RP!TakeDone
    /\ R!Next <=> RP!Next
    /\ UNCHANGED R!vars <=> UNCHANGED RP!vars
<1>1. /\ R!Slot = RP!Slot /\ (UNCHANGED R!vars <=> UNCHANGED RP!vars)
      /\ R!Unfetched = RP!Unfetched /\ R!NextFrame = RP!NextFrame
  BY DEF R!Slot, RP!Slot, R!vars, RP!vars, R!Unfetched, RP!Unfetched,
         R!NextFrame, RP!NextFrame, R!Frame, RP!Frame
<1>2. R!Init <=> RP!Init
  BY <1>1 DEF R!Init, RP!Init
<1>3. (R!Progressing <=> RP!Progressing) /\ (R!OnTheWire <=> RP!OnTheWire)
  BY <1>1 DEF R!Progressing, RP!Progressing, R!OnTheWire, RP!OnTheWire, R!Cardinality, RP!Cardinality
<1>4. R!Take <=> RP!Take
  BY <1>1 DEF R!Take, RP!Take, R!thread, RP!thread
<1>5. \A s : R!Fetch(s) <=> RP!Fetch(s)
  BY <1>1 DEF R!Fetch, RP!Fetch, R!thread, RP!thread
<1>6. (R!ReceiveMeta <=> RP!ReceiveMeta) /\ (R!TakeDone <=> RP!TakeDone)
  BY DEF R!ReceiveMeta, RP!ReceiveMeta, R!TakeDone, RP!TakeDone
<1>7. R!LaneLoops <=> RP!LaneLoops
  <2>1. \A s, b : R!Post(s, b) <=> RP!Post(s, b)
    BY DEF R!Post, RP!Post, R!PostWaits, RP!PostWaits, R!PostFetches, RP!PostFetches,
           R!PostCompletes, RP!PostCompletes, R!PostMatches, RP!PostMatches, R!Accept, RP!Accept, R!Cardinality, RP!Cardinality
  <2>2. R!PrePost <=> RP!PrePost
    BY <2>1 DEF R!PrePost, RP!PrePost, R!MoreToPost, RP!MoreToPost
  <2>3. R!TestSlot <=> RP!TestSlot
    BY <2>1 DEF R!TestSlot, RP!TestSlot, R!MoreToPost, RP!MoreToPost, R!Accept, RP!Accept, R!Cardinality, RP!Cardinality,
                R!ForgetsRequest, RP!ForgetsRequest
  <2>4. /\ R!EndPrePost <=> RP!EndPrePost
        /\ R!PassOver <=> RP!PassOver
        /\ R!TestSlotFails <=> RP!TestSlotFails
        /\ R!EndScan <=> RP!EndScan
        /\ R!EndProgress <=> RP!EndProgress
    BY DEF R!EndPrePost, RP!EndPrePost, R!PassOver, RP!PassOver,
           R!TestSlotFails, RP!TestSlotFails, R!ForgetsRequest, RP!ForgetsRequest,
           R!EndScan, RP!EndScan, R!EndProgress, RP!EndProgress, R!Loop, RP!Loop
  <2> QED BY <2>2, <2>3, <2>4 DEF R!LaneLoops, RP!LaneLoops
<1>8. R!Next <=> RP!Next
  BY <1>1, <1>3, <1>4, <1>5, <1>6, <1>7
     DEF R!Next, RP!Next, R!Worker, RP!Worker, R!Arrive, RP!Arrive, R!Fetched, RP!Fetched,
         R!WhileClosing, RP!WhileClosing, R!Thread, RP!Thread, R!ReceiveDone, RP!ReceiveDone,
         R!Ended, RP!Ended
<1> QED BY <1>1, <1>2, <1>4, <1>5, <1>6, <1>7, <1>8
----------------------------------------------------------------------------
(* The steps of the ends.                                                  *)

\* What a step does, in the words of the two modules' proofs.
LEMMA Steps ==
    ASSUME Next
    PROVE  \/ (SP!Thread \/ \E s \in SP!Slot : SP!Complete(s)) /\ UNCHANGED rvars
           \/ /\ \/ spc # "meta" /\ RP!ReceiveMeta
                 \/ RP!LaneLoops
                 \/ spc = "finished" /\ RP!TakeDone
              /\ UNCHANGED svars
           \/ Arrive
           \/ \E s \in RP!Slot : Fetch(s)
           \/ UNCHANGED vars
<1>1. CASE Sender
  BY <1>1, SameSender DEF Sender
<1>2. CASE Receiver
  BY <1>2, SameReceiver DEF Receiver, ReceiveMeta, ReceiveDone
<1> QED BY <1>1, <1>2, SameReceiver DEF Next, Ended

\* No more frames are unfetched than the sender has slots.
LEMMA ArriveSteps ==
    ASSUME Inv, Arrive
    PROVE  /\ RP!Take /\ arrived < Total /\ RP!Next
           /\ UNCHANGED svars
<1>1. /\ R!Progressing \/ rpc = "failed"
      /\ arrived < next - 1 /\ RP!Take /\ UNCHANGED svars
  BY SameReceiver DEF Arrive, Listening
<1>2. /\ next \in 1..Total+1 /\ arrived \in 0..Total
      /\ arrived < Total /\ arrived + 1 \in 1..next-1
  BY <1>1 DEF Inv, SP!Inv, SP!TypeOK, RP!Inv, RP!TypeOK
<1>3. RP!Unfetched \subseteq 1..arrived
  BY RP!UnfetchedHere DEF Inv
<1>4. RP!Unfetched \subseteq SP!Announced /\ \A g \in RP!Unfetched : g < arrived + 1
  BY <1>2, <1>3 DEF Inv, SameFrames
<1>5. SP!Cardinality(RP!Unfetched) < SendDepth
  BY <1>2, <1>4, SP!FewOlder DEF Inv
<1>6. RP!OnTheWire
  BY <1>2, <1>5 DEF RP!OnTheWire, SP!Cardinality, RP!Cardinality
<1>7. RP!Next
  BY <1>1, <1>6 DEF R!Progressing, RP!Progressing, RP!Next, RP!Worker, RP!Arrive, RP!WhileClosing
<1> QED BY <1>1, <1>2, <1>7

\* The frame that is read is one of the oldest on the wire: of those up to it
\* each is in a slot of the receiver.
LEMMA FetchSteps ==
    ASSUME Inv, NEW s \in RP!Slot, Fetch(s)
    PROVE  /\ RP!Fetch(s) /\ RP!Next
           /\ frame[s] \in 1..arrived
           /\ \E i \in 1..Len(wire) : wire[i][1] = frame[s] /\ SP!Read(i)
<1>0. Len(wire) \in Nat /\ 1..Len(wire) = DOMAIN wire
  BY SP!AnnouncedHere, LenProperties DEF Inv, SP!Inv, SP!TypeOK
<1>1. PICK i \in 1..Len(wire) : wire[i][1] = frame[s] /\ SP!ReadAt(i)
  BY <1>0, SameSender DEF Fetch
<1>2. RP!Fetch(s) /\ (R!Progressing \/ rpc = "failed")
  BY SameReceiver DEF Fetch, Listening
<1>3. rrequest[s] = "fetching" /\ frame[s] \in 1..arrived
  <2>1. rrequest[s] = "fetching"
    BY <1>2 DEF RP!Fetch
  <2>2. frame[s] \in RP!Reaching
    BY <2>1 DEF RP!Reaching, RP!Fetching
  <2> QED BY <2>1, <2>2, RP!UnfetchedHere DEF Inv
<1> DEFINE F == {wire[k][1] : k \in 1..i}
           at == [k \in 1..i |-> wire[k][1]]
<1>4. \A k \in 1..i : k \in 1..Len(wire) /\ wire[k][1] <= frame[s]
  <2> SUFFICES ASSUME NEW k \in 1..i PROVE k \in 1..Len(wire) /\ wire[k][1] <= frame[s]
    OBVIOUS
  <2>1. k \in 1..Len(wire)
    BY <1>0
  <2>2. wire[k][1] \in Int /\ wire[i][1] \in Int
    BY <2>1, SP!AnnouncedHere DEF Inv, SP!Frame
  <2>3. CASE k = i
    BY <1>1, <2>1, <2>2, <2>3
  <2>4. CASE k < i
    BY <1>1, <2>1, <2>2, <2>4 DEF Inv, SP!Ordered, SP!WireInOrder
  <2> QED BY <2>3, <2>4
<1>5. F \subseteq RP!Unfetched /\ \A f \in F : f <= frame[s]
  <2> SUFFICES ASSUME NEW k \in 1..i PROVE wire[k][1] \in RP!Unfetched
    BY <1>4
  <2>1. wire[k][1] \in SP!Announced /\ wire[k][1] <= frame[s]
    BY <1>4 DEF SP!Announced
  <2>2. wire[k][1] \notin arrived+1..next-1
    BY <1>3, <2>1 DEF Inv, RP!Inv, RP!TypeOK
  <2> QED BY <2>1, <2>2 DEF Inv, SameFrames
<1>6. IsFiniteSet(F) /\ Cardinality(F) <= RecvDepth
  <2> HIDE DEF F
  <2>1. RP!IsFiniteSet(F) /\ RP!Cardinality(F) <= RecvDepth
    BY <1>3, <1>5, RP!FewBefore DEF Inv
  <2> QED BY <2>1 DEF RP!IsFiniteSet, IsFiniteSet, RP!Cardinality, Cardinality
<1>7. at \in Injection(1..i, F)
  <2>1. at \in [1..i -> F]
    OBVIOUS
  <2>2. \A j, k \in 1..i : wire[j][1] = wire[k][1] => j = k
    <3>1. \A j, k \in 1..Len(wire) : /\ wire[j][1] \in Int
                                     /\ j < k => wire[j][1] < wire[k][1]
      BY SP!AnnouncedHere DEF Inv, SP!Frame, SP!Ordered, SP!WireInOrder
    <3> SUFFICES ASSUME NEW j \in 1..i, NEW k \in 1..i, j # k
                 PROVE  wire[j][1] # wire[k][1]
      OBVIOUS
    <3>2. j \in 1..Len(wire) /\ k \in 1..Len(wire)
      BY <1>4
    <3>3. CASE j < k
      BY <3>1, <3>2, <3>3
    <3>4. CASE k < j
      BY <3>1, <3>2, <3>4
    <3> QED BY <3>3, <3>4
  <2> QED BY <2>1, <2>2 DEF Injection, IsInjective
<1> HIDE DEF at, F
<1>8. i <= RecvDepth
  <2>1. IsFiniteSet(1..i) /\ Cardinality(1..i) = i
    BY <1>0, FS_Interval
  <2>2. Cardinality(1..i) <= Cardinality(F)
    BY <1>6, <1>7, FS_Injection
  <2>3. Cardinality(F) \in Nat
    BY <1>6, FS_CardinalityType
  <2> QED BY <1>6, <2>1, <2>2, <2>3
<1>9. RP!Next
  BY <1>2 DEF R!Progressing, RP!Progressing, RP!Next, RP!Worker, RP!Fetched, RP!WhileClosing
<1> QED BY <1>1, <1>2, <1>3, <1>8, <1>9 DEF SP!Read
----------------------------------------------------------------------------
(* The invariant.                                                          *)

LEMMA InvInit == Init => Inv
<1> SUFFICES ASSUME SP!Init, RP!Init PROVE Inv
  BY SameSender, SameReceiver DEF Init
<1>1. SP!Inv /\ SP!Ordered /\ RP!Inv
  BY SP!InvInit, SP!OrderedInit, RP!InvInit
<1>2. arrived = 0 /\ next = 1 /\ Len(wire) = 0
  BY EmptySeq DEF SP!Init, RP!Init
<1>3. SP!Announced = {}
  BY <1>2 DEF SP!Announced
<1>4. RP!Unfetched \subseteq 1..0
  BY <1>1, <1>2, RP!UnfetchedHere
<1> QED BY <1>1, <1>2, <1>3, <1>4 DEF Inv, SameFrames

\* Each end takes a step of its own module, or none, and the frames between
\* them stay the same for both.
LEMMA JointStep ==
    ASSUME Inv, [Next]_vars
    PROVE  [SP!Next]_(SP!vars) /\ [RP!Next]_(RP!vars) /\ SameFrames'
<1>t. /\ next \in 1..Total+1 /\ arrived \in 0..Total /\ arrived <= next - 1
      /\ SP!Announced = RP!Unfetched \cup ((arrived+1..next-1) \ Whole)
      /\ RP!Unfetched \subseteq 1..arrived
  BY RP!UnfetchedHere DEF Inv, SP!Inv, SP!TypeOK, RP!Inv, RP!TypeOK, SameFrames
<1>s. UNCHANGED svars => UNCHANGED SP!vars /\ SP!Announced' = SP!Announced /\ next' = next
  BY DEF svars, SP!vars, SP!Announced
<1>r. UNCHANGED rvars => /\ UNCHANGED RP!vars /\ RP!Unfetched' = RP!Unfetched
                         /\ arrived' = arrived
  BY DEF rvars, RP!vars, RP!Unfetched
<1>1. CASE (SP!Thread \/ \E s \in SP!Slot : SP!Complete(s)) /\ UNCHANGED rvars
  <2>1. SP!Next
    BY <1>1 DEF SP!Next
  <2>2. CASE \E s \in SP!Slot : SP!SendFrame(s)
    <3>1. SP!Announced' = SP!Announced \cup ({next} \ Whole) /\ next' = next + 1
      BY <2>2, SP!SendPuts DEF Inv, SP!Ordered, SP!SendFrame
    <3>2. arrived+1..next'-1 = (arrived+1..next-1) \cup {next}
      BY <1>t, <3>1
    <3>3. SameFrames'
      BY <1>t, <1>r, <1>1, <3>1, <3>2 DEF SameFrames
    <3> QED BY <1>1, <1>r, <2>1, <3>3
  <2>3. CASE ~\E s \in SP!Slot : SP!SendFrame(s)
    <3>1. UNCHANGED <<next, wire>>
      BY <1>1, <2>3, SP!OthersLeave DEF Inv
    <3>2. SP!Announced' = SP!Announced
      BY <3>1 DEF SP!Announced
    <3>3. SameFrames'
      BY <1>t, <1>r, <1>1, <3>1, <3>2 DEF SameFrames
    <3> QED BY <1>1, <1>r, <2>1, <3>3
  <2> QED BY <2>2, <2>3
<1>2. CASE /\ RP!ReceiveMeta \/ RP!LaneLoops \/ (spc = "finished" /\ RP!TakeDone)
           /\ UNCHANGED svars
  <2>1. RP!Unfetched' = RP!Unfetched /\ arrived' = arrived
    BY <1>2, RP!ThreadMoves DEF Inv
  <2>2. SameFrames'
    BY <1>t, <1>s, <1>2, <2>1 DEF SameFrames
  <2>3. RP!Next
    <3>1. CASE spc = "finished" /\ RP!TakeDone
      <4>1. next = Total + 1 /\ SP!Announced = {}
        BY <3>1, SP!EmptyAtTheEnd DEF Inv
      <4>2. arrived = Total
        BY <3>1, RP!AllHere DEF Inv, RP!TakeDone
      <4>3. RP!Unfetched = {}
        BY <1>t, <4>1
      <4> QED BY <3>1, <4>2, <4>3 DEF RP!Next, RP!Thread, RP!ReceiveDone
    <3> QED BY <1>2, <3>1 DEF RP!Next, RP!Thread
  <2> QED BY <1>s, <1>2, <2>2, <2>3
<1>3. CASE Arrive
  <2>1. RP!Take /\ arrived < Total /\ RP!Next /\ UNCHANGED svars
    BY <1>3, ArriveSteps
  <2>2. arrived' = arrived + 1 /\ RP!NextFrame = arrived + 1
    BY <2>1 DEF RP!Take, RP!NextFrame
  <2>3. RP!Unfetched' = RP!Unfetched \cup ({arrived + 1} \ Whole)
    BY <2>1, <2>2, RP!TakeAdds DEF Inv
  <2>4. arrived < next - 1
    BY <1>3 DEF Arrive
  <2>5. arrived+1..next-1 = {arrived + 1} \cup (arrived'+1..next'-1)
    BY <1>t, <1>s, <2>1, <2>2, <2>4
  <2>6. SameFrames'
    BY <1>t, <1>s, <2>1, <2>2, <2>3, <2>4, <2>5 DEF SameFrames
  <2> QED BY <1>s, <2>1, <2>6
<1>4. CASE \E s \in RP!Slot : Fetch(s)
  <2> PICK s \in RP!Slot : Fetch(s)
    BY <1>4
  <2>1. RP!Fetch(s) /\ RP!Next /\ frame[s] \in 1..arrived
    BY FetchSteps
  <2>2. PICK i \in 1..Len(wire) : wire[i][1] = frame[s] /\ SP!Read(i)
    BY FetchSteps
  <2>3. SP!Next
    BY <2>2 DEF SP!Next, SP!Receiver
  <2>4. SP!Announced' = SP!Announced \ {frame[s]} /\ next' = next
    BY <2>2, SP!ReadTakes DEF Inv, SP!Ordered, SP!Read, SP!ReadAt
  <2>5. RP!Unfetched' = RP!Unfetched \ {frame[s]} /\ arrived' = arrived
    BY <2>1, RP!FetchRemoves DEF Inv, RP!Fetch
  <2>6. SameFrames'
    BY <1>t, <2>1, <2>4, <2>5 DEF SameFrames
  <2> QED BY <2>1, <2>3, <2>6
<1>5. CASE UNCHANGED vars
  BY <1>t, <1>s, <1>r, <1>5 DEF vars, SameFrames
<1> QED BY <1>1, <1>2, <1>3, <1>4, <1>5, Steps

LEMMA InvNext == Inv /\ [Next]_vars => Inv'
BY JointStep, SP!InvNext, SP!OrderedNext, RP!InvNext DEF Inv

LEMMA Invariance == Spec => []Inv
BY InvInit, InvNext, PTL DEF Spec
----------------------------------------------------------------------------

\* Neither end does anything but what its module says, with the assumptions
\* the module makes of the other end: the safety of ImplementsBothEnds.
THEOREM BothEndsImplemented == Spec => ImplementsBothEnds
<1>1. Init => S!Init /\ R!Init
  BY DEF Init
<1>2. Inv /\ [Next]_vars => [S!Next]_(S!vars) /\ [R!Next]_(R!vars)
  BY JointStep, SameSender, SameReceiver
<1> QED BY <1>1, <1>2, Invariance, PTL DEF Spec, ImplementsBothEnds, S!Spec, R!Spec

\* What process_slot accepts is what the chunk's own pread left in the buffer,
\* unless the sender has thrown and freed it.
THEOREM ProcessedAsRead == Spec => []ProcessedIntact
<1>1. ASSUME Inv, NEW f \in processed
      PROVE  <<f, f>> \in delivered \/ (spc = "failed" /\ <<f, 0>> \in delivered)
  <2>1. f \in 1..arrived /\ f \notin RP!Unfetched
    BY <1>1, RP!UnfetchedHere DEF Inv
  <2>2. f \in 1..next-1 /\ f \notin SP!Announced
    BY <1>1, <2>1 DEF Inv, SameFrames, SP!Inv, SP!TypeOK, RP!Inv, RP!TypeOK
  <2>3. PICK d \in delivered : d[1] = f
    BY <1>1, <2>2 DEF Inv, SP!Inv, SP!Accounted, SP!Announced
  <2>4. d = <<f, d[2]>> /\ (d[2] = f \/ (d[2] = 0 /\ spc = "failed"))
    BY <1>1, <2>3 DEF Inv, SP!Inv, SP!TypeOK, SP!DeliveredIntact
  <2> QED BY <2>3, <2>4
<1>2. Inv => ProcessedIntact
  BY <1>1, Zenon DEF ProcessedIntact
<1> QED BY Invariance, <1>2, PTL

\* A sender that has finished has freed no buffer the receiver is still to
\* read.
THEOREM NothingLeft == Spec => []NothingLeftToFetch
<1>1. Inv => NothingLeftToFetch
  BY SP!EmptyAtTheEnd, SameReceiver DEF Inv, SameFrames, NothingLeftToFetch
<1> QED BY Invariance, <1>1, PTL
----------------------------------------------------------------------------
(* The lane as one of Transfer, when all its frames are sent by            *)
(* rendezvous.                                                             *)

\* What has been read is no longer announced.
ReadOnce == \A d \in delivered : d[1] \in (1..next-1) \ SP!Announced

MapInv ==
    /\ Inv /\ RP!Refused /\ RP!KeptFull /\ RP!PostedSoFar /\ ReadOnce

LEMMA ReadOnceNext ==
    ASSUME Whole = {}, Inv, ReadOnce, [Next]_vars
    PROVE  ReadOnce'
<1>t. /\ next \in 1..Total+1 /\ SP!Announced \subseteq 1..next-1
      /\ delivered \subseteq SP!Frame \X (0..Total)
  <2>1. SP!Announced \subseteq 1..next-1
    BY SP!AnnouncedHere DEF Inv, SP!Ordered, SP!WireInOrder, SP!Announced
  <2> QED BY <2>1 DEF Inv, SP!Inv, SP!TypeOK
<1>1. CASE (SP!Thread \/ \E s \in SP!Slot : SP!Complete(s)) /\ UNCHANGED rvars
  <2>1. delivered' = delivered
    BY <1>1 DEF SP!Thread, SP!Complete, SP!SendMeta, SP!SendFrame, SP!Announce, SP!SendFrameFails,
                SP!CallWaitForOne, SP!WaitOneTest, SP!WaitOneProgress, SP!CallWaitForAll,
                SP!WaitAllTest, SP!WaitAllEnd, SP!EndProgress, SP!SendDone
  <2>2. CASE \E s \in SP!Slot : SP!SendFrame(s)
    <3>1. SP!Announced' \subseteq SP!Announced \cup {next} /\ next' = next + 1
      BY <2>2, SP!SendPuts DEF Inv, SP!Ordered, SP!SendFrame
    <3> QED BY <1>t, <2>1, <3>1 DEF ReadOnce
  <2>3. CASE ~\E s \in SP!Slot : SP!SendFrame(s)
    <3>1. UNCHANGED <<next, wire>>
      BY <1>1, <2>3, SP!OthersLeave DEF Inv
    <3> QED BY <2>1, <3>1 DEF ReadOnce, SP!Announced
  <2> QED BY <2>2, <2>3
<1>2. CASE UNCHANGED svars
  BY <1>2 DEF svars, ReadOnce, SP!Announced
<1>3. CASE \E s \in RP!Slot : Fetch(s)
  <2> PICK s \in RP!Slot : Fetch(s)
    BY <1>3
  <2>1. PICK i \in 1..Len(wire) : wire[i][1] = frame[s] /\ SP!Read(i)
    BY FetchSteps
  <2>2. SP!Announced' = SP!Announced \ {frame[s]} /\ next' = next
    BY <2>1, SP!ReadTakes DEF Inv, SP!Ordered, SP!Read, SP!ReadAt
  <2>3. frame[s] \in SP!Announced
    BY <2>1 DEF SP!Announced
  <2>4. PICK b : delivered' = delivered \cup {<<frame[s], b>>}
    BY <2>1 DEF SP!Read, SP!ReadAt
  <2>5. <<frame[s], b>>[1] = frame[s] /\ frame[s] \in (1..next-1) \ SP!Announced'
    BY <1>t, <2>2, <2>3
  <2>6. \A d \in delivered : d[1] \in (1..next-1) \ SP!Announced'
    BY <2>2 DEF ReadOnce
  <2>7. \A d \in delivered' : d[1] \in (1..next-1) \ SP!Announced'
    BY <2>4, <2>5, <2>6
  <2> QED BY <2>2, <2>7 DEF ReadOnce
<1> QED BY <1>1, <1>2, <1>3, Steps DEF Arrive, vars

LEMMA MapInvInit == Init => MapInv
<1> SUFFICES ASSUME Init PROVE MapInv
  OBVIOUS
<1>1. RP!Refused
  BY SameReceiver, RP!RefusedInit DEF Init
<1>2. ReadOnce
  BY SameSender DEF Init, SP!Init, ReadOnce
<1>3. RP!KeptFull /\ RP!PostedSoFar
  BY SameReceiver, RP!KeptFullInit, RP!PostedSoFarInit DEF Init
<1> QED BY <1>1, <1>2, <1>3, InvInit DEF MapInv

LEMMA MapInvNext ==
    ASSUME Whole = {}, MapInv, [Next]_vars
    PROVE  MapInv'
<1>1. Inv'
  BY InvNext DEF MapInv
<1>2. RP!Refused'
  BY JointStep, RP!RefusedNext DEF MapInv, Inv
<1>3. ReadOnce'
  BY ReadOnceNext DEF MapInv
<1>4. RP!KeptFull' /\ RP!PostedSoFar'
  BY JointStep, RP!KeptFullNext, RP!PostedSoFarNext DEF MapInv, Inv
<1> QED BY <1>1, <1>2, <1>3, <1>4 DEF MapInv

\* Frame <<1, f>> of Transfer is frame f here.
LEMMA LaneFrames ==
    /\ T!Frame = TFrames(1..Total)
    /\ \A f \in 1..Total : T!ChunkOf(<<1, f>>) = f
    /\ T!Len([f \in 1..Total |-> f]) = Total
    /\ \A F : T!OfLane(1, TFrames(F)) = TFrames(F)
    /\ \A F, f : <<1, f>> \in TFrames(F) <=> f \in F
    /\ \A F, f : TFrames(F \cup {f}) = TFrames(F) \cup {<<1, f>>}
    /\ \A F, f : TFrames(F \ {f}) = TFrames(F) \ {<<1, f>>}
<1>1. T!Frame = TFrames(1..Total)
  BY DEF T!Frame, TFrames
<1>2. \A f \in 1..Total : T!ChunkOf(<<1, f>>) = f
  BY DEF T!ChunkOf
<1>3. T!Len([f \in 1..Total |-> f]) = Total
  BY DEF T!Len
<1>4. \A F : T!OfLane(1, TFrames(F)) = TFrames(F)
  BY DEF T!OfLane, TFrames
<1>5. \A F, f : <<1, f>> \in TFrames(F) <=> f \in F
  BY DEF TFrames
<1>6. \A F, f : TFrames(F \cup {f}) = TFrames(F) \cup {<<1, f>>}
  BY DEF TFrames
<1>7. \A F, f : TFrames(F \ {f}) = TFrames(F) \ {<<1, f>>}
  BY DEF TFrames
<1> QED BY <1>1, <1>2, <1>3, <1>4, <1>5, <1>6, <1>7

\* A thread that polls has posted a receive for every slot, as Transfer has it.
LEMMA PollingMaps ==
    ASSUME MapInv, rpc \in {"poll", "progress", "done"}
    PROVE  /\ posted = Total \/ posted >= RecvDepth
           /\ posted \in Nat /\ T!Posting(1) = FALSE /\ T!Polling(1)
<1>1. posted \in Nat /\ RP!Late \in Nat
  <2>1. posted \in Nat
    BY DEF MapInv, Inv, RP!Inv, RP!TypeOK
  <2> QED BY <2>1, RP!LateCounts DEF MapInv, Inv
<1>2. posted = Total \/ posted >= RecvDepth
  BY <1>1 DEF MapInv, RP!KeptFull, RP!Opened
<1>3. <<ReceiverAt>>[1] = "receive"
  BY DEF ReceiverAt
<1>4. T!Posting(1) = FALSE
  BY <1>1, <1>2, LaneFrames DEF T!Posting, T!MoreToPost
<1>5. T!OfLane(1, {}) = {}
  BY DEF T!OfLane
<1> QED BY <1>1, <1>2, <1>3, <1>4, <1>5 DEF T!Polling

\* Which frames are on the way, and which have been fetched.
LEMMA Between ==
    ASSUME Whole = {}, MapInv
    PROVE  /\ next \in 1..Total+1 /\ arrived \in 0..next-1
           /\ OnTheWay = SP!Announced /\ OnTheWay \subseteq 1..next-1
           /\ Fetched = (1..arrived) \ RP!Unfetched
           /\ Fetched \subseteq 1..RP!Matched /\ Fetched \subseteq 1..Total
           /\ processed \subseteq Fetched
           /\ RP!Matched \in 0..arrived
<1>t. /\ next \in 1..Total+1 /\ arrived \in 0..Total /\ arrived <= next - 1
      /\ SP!Announced = RP!Unfetched \cup (arrived+1..next-1)
      /\ RP!Unfetched \subseteq 1..arrived
  BY RP!UnfetchedHere DEF MapInv, Inv, SP!Inv, SP!TypeOK, RP!Inv, RP!TypeOK, SameFrames
<1>1. Fetched = (1..next-1) \ SP!Announced
  <2>1. Fetched \subseteq (1..next-1) \ SP!Announced
    BY DEF Fetched, MapInv, ReadOnce
  <2>2. (1..next-1) \ SP!Announced \subseteq Fetched
    BY DEF Fetched, MapInv, Inv, SP!Inv, SP!Accounted, SP!Announced
  <2> QED BY <2>1, <2>2
<1>2. OnTheWay = SP!Announced
  <2>1. SP!Announced \subseteq 1..next-1
    BY <1>t
  <2> QED BY <1>1, <2>1 DEF OnTheWay
<1>3. Fetched = (1..arrived) \ RP!Unfetched
  BY <1>t, <1>1
<1>4. /\ RP!Matched \in 0..Total /\ Len(unexpected) \in Nat
      /\ arrived = RP!Matched + Len(unexpected)
      /\ \A i \in 1..Len(unexpected) : unexpected[i] = RP!Matched + i
  BY RP!Basics DEF MapInv, Inv, RP!Inv, RP!QueueInOrder
<1>5. Fetched \subseteq 1..RP!Matched
  <2> SUFFICES ASSUME NEW f \in 1..arrived, f > RP!Matched PROVE f \in RP!Unfetched
    BY <1>3, <1>4
  <2>1. f - RP!Matched \in 1..Len(unexpected)
    BY <1>4
  <2>2. unexpected[f - RP!Matched] = f
    BY <1>4, <2>1
  <2> QED BY <1>t, <2>1, <2>2 DEF RP!Unfetched, RP!Frame
<1>6. processed \subseteq Fetched
  BY <1>3, RP!UnfetchedHere DEF MapInv, Inv
<1>7. RP!Matched \in 0..arrived /\ Fetched \subseteq 1..Total
  BY <1>t, <1>3, <1>4
<1>8. OnTheWay \subseteq 1..next-1
  BY DEF OnTheWay
<1> QED BY <1>t, <1>2, <1>3, <1>5, <1>6, <1>7, <1>8

\* Sets of frames are finite.
LEMMA FramesFinite ==
    ASSUME NEW F, F \subseteq 1..Total
    PROVE  IsFiniteSet(F)
<1>1. IsFiniteSet(1..Total)
  BY FS_Interval
<1> QED BY <1>1, FS_Subset

LEMMA OneLane ==
    ASSUME NEW a, NEW b
    PROVE  <<a>>[1] = a /\ [<<a>> EXCEPT ![1] = b] = <<b>>
OBVIOUS

LEMMA SameNumber ==
    ASSUME NEW F, IsFiniteSet(F)
    PROVE  T!Cardinality(TFrames(F)) = Cardinality(F)
<1> DEFINE pair == [f \in F |-> <<1, f>>]
<1>1. pair \in Bijection(F, TFrames(F))
  <2>1. pair \in [F -> TFrames(F)]
    BY DEF TFrames
  <2>2. \A f, g \in F : pair[f] = pair[g] => f = g
    OBVIOUS
  <2>3. \A t \in TFrames(F) : \E f \in F : pair[f] = t
    BY DEF TFrames
  <2> QED BY <2>1, <2>2, <2>3 DEF Bijection, Injection, Surjection, IsInjective
<1> HIDE DEF pair
<1>2. Cardinality(TFrames(F)) = Cardinality(F)
  BY <1>1, FS_Bijection DEF ExistsBijection
<1> QED BY <1>2 DEF T!Cardinality, Cardinality

\* How many of the two ends have thrown.
CountFailed(s, r) == Cardinality({t \in {<<"s", s>>, <<"r", r>>} : t[2] = "failed"})

LEMMA FailedEnds ==
    ASSUME NEW s, NEW r
    PROVE  CountFailed(s, r) = (IF s = "failed" THEN 1 ELSE 0) + (IF r = "failed" THEN 1 ELSE 0)
<1> DEFINE F == {t \in {<<"s", s>>, <<"r", r>>} : t[2] = "failed"}
<1>1. CASE s # "failed" /\ r # "failed"
  <2>1. F = {}
    BY <1>1
  <2> HIDE DEF F
  <2>2. Cardinality(F) = 0
    BY <2>1, FS_EmptySet
  <2> QED BY <1>1, <2>2 DEF CountFailed, F
<1>2. CASE s = "failed" /\ r # "failed"
  <2>1. F = {<<"s", s>>}
    BY <1>2
  <2> HIDE DEF F
  <2>2. Cardinality(F) = 1
    BY <2>1, FS_Singleton
  <2> QED BY <1>2, <2>2 DEF CountFailed, F
<1>3. CASE s # "failed" /\ r = "failed"
  <2>1. F = {<<"r", r>>}
    BY <1>3
  <2> HIDE DEF F
  <2>2. Cardinality(F) = 1
    BY <2>1, FS_Singleton
  <2> QED BY <1>3, <2>2 DEF CountFailed, F
<1>4. CASE s = "failed" /\ r = "failed"
  <2>1. F = {<<"s", s>>} \cup {<<"r", r>>} /\ <<"r", r>> \notin {<<"s", s>>}
    BY <1>4
  <2> HIDE DEF F
  <2>2. Cardinality(F) = 1 + 1
    <3>1. IsFiniteSet({<<"s", s>>}) /\ Cardinality({<<"s", s>>}) = 1
      BY FS_Singleton
    <3>2. Cardinality({<<"s", s>>} \cup {<<"r", r>>}) = 1 + 1
      BY <2>1, <3>1, FS_AddElement
    <3> QED BY <2>1, <3>2
  <2> QED BY <1>4, <2>2 DEF CountFailed, F
<1> QED BY <1>1, <1>2, <1>3, <1>4

LEMMA FailuresAre == Failures = CountFailed(spc, rpc) /\ Failures' = CountFailed(spc', rpc')
BY DEF Failures, CountFailed

\* Nothing that Transfer knows of changes.
LEMMA NothingMaps ==
    ASSUME SenderAt' = SenderAt, ReceiverAt' = ReceiverAt,
           (rpc = "meta") <=> (rpc' = "meta"),
           (spc = "failed") <=> (spc' = "failed"), (rpc = "failed") <=> (rpc' = "failed"),
           UNCHANGED <<next, delivered, processed, posted>>
    PROVE  UNCHANGED T!vars
<1>1. Failures' = Failures
  BY FailuresAre, FailedEnds
<1> QED
  BY <1>1 DEF T!vars, T!options, T!sender, T!lanes, T!receiver, OnTheWay, Fetched, Got

\* The steps of the sender.
LEMMA SenderMaps ==
    ASSUME Whole = {}, MapInv, SP!Thread \/ \E s \in SP!Slot : SP!Complete(s),
           UNCHANGED rvars
    PROVE  [T!Next]_(T!vars)
<1>t. /\ next \in 1..Total+1 /\ arrived \in 0..next-1
      /\ OnTheWay = SP!Announced /\ OnTheWay \subseteq 1..next-1
  BY Between
<1>u. /\ UNCHANGED <<rpc, processed, posted>> /\ ReceiverAt' = ReceiverAt
      /\ delivered' = delivered /\ Fetched' = Fetched
  <2>1. delivered' = delivered
    BY DEF SP!Thread, SP!Complete, SP!SendMeta, SP!SendFrame, SP!Announce, SP!SendFrameFails,
           SP!CallWaitForOne, SP!WaitOneTest, SP!WaitOneProgress, SP!CallWaitForAll,
           SP!WaitAllTest, SP!WaitAllEnd, SP!EndProgress, SP!SendDone
  <2> QED BY <2>1 DEF rvars, ReceiverAt, Fetched
<1>v. (\E s \in SP!Slot : SP!FreeSlot(s)) => T!SlotFree(1)
  <2> SUFFICES ASSUME NEW s \in SP!Slot, SP!FreeSlot(s) PROVE T!SlotFree(1)
    OBVIOUS
  <2>1. SP!Cardinality(OnTheWay) < SendDepth
    BY <1>t, SP!RoomForOne DEF SP!FreeSlot, SP!IsFree, MapInv, Inv
  <2>2. IsFiniteSet(OnTheWay)
    <3>1. OnTheWay \subseteq 1..Total
      BY <1>t
    <3> QED BY <3>1, FramesFinite
  <2>3. T!Cardinality(TFrames(OnTheWay)) = Cardinality(OnTheWay)
    BY <2>2, SameNumber
  <2>4. T!OfLane(1, TFrames(OnTheWay)) = TFrames(OnTheWay)
    BY LaneFrames
  <2>5. Cardinality(OnTheWay) < SendDepth
    BY <2>1 DEF SP!Cardinality, Cardinality
  <2>6. TFrames(OnTheWay) \ {} = TFrames(OnTheWay)
    OBVIOUS
  <2> QED BY <2>3, <2>4, <2>5, <2>6 DEF T!SlotFree
<1>1. CASE SP!SendMeta
  <2>1. /\ spc = "meta" /\ spc' = "chunks" /\ UNCHANGED next
        /\ SenderAt = "connect" /\ SenderAt' = "send"
    BY <1>1 DEF SP!SendMeta, SenderAt
  <2>2. Failures' = Failures
    BY <1>u, <2>1, FailuresAre, FailedEnds
  <2>3. T!SendMeta(1)
    BY <1>u, <2>1, <2>2, OneLane
       DEF T!SendMeta, T!options, T!lanes, T!receiver, OnTheWay, Fetched, Got
  <2> QED BY <2>3 DEF T!Next, T!Working, T!SenderThread
<1>2. CASE \E s \in SP!Slot : SP!SendFrame(s)
  <2>1. /\ spc = "chunks" /\ spc' = "chunks" /\ next <= Total /\ next' = next + 1
        /\ SenderAt = "send" /\ SenderAt' = "send"
    BY <1>2 DEF SP!SendFrame, SP!MoreChunks, SenderAt
  <2>2. Failures' = Failures
    BY <1>u, <2>1, FailuresAre, FailedEnds
  <2>3. OnTheWay' = OnTheWay \cup {next}
    <3>1. next \notin Fetched
      BY <1>t, Between
    <3>2. 1..next'-1 = (1..next-1) \cup {next}
      BY <1>t, <2>1
    <3> QED BY <1>u, <3>1, <3>2 DEF OnTheWay
  <2>5. TFrames(OnTheWay') = TFrames(OnTheWay) \cup {<<1, next>>}
    BY <2>3, LaneFrames
  <2>6. [f \in TFrames(1..Total) |-> IF f[2] < next' THEN "old" ELSE "none"]
        = [[f \in TFrames(1..Total) |-> IF f[2] < next THEN "old" ELSE "none"]
              EXCEPT ![<<1, next>>] = "old"]
    <3>1. \A g \in TFrames(1..Total) : g[2] \in 1..Total /\ g = <<1, g[2]>>
      BY DEF TFrames
    <3>2. \A g \in TFrames(1..Total) :
             (IF g[2] < next' THEN "old" ELSE "none")
             = IF g = <<1, next>> THEN "old" ELSE IF g[2] < next THEN "old" ELSE "none"
      BY <1>t, <2>1, <3>1
    <3> QED BY <3>2
  <2>7. T!ChunkOf(<<1, next>>) = next /\ next \in 1..Total
    BY <1>t, <2>1, LaneFrames
  <2>8. <<next>>[1] <= T!Len(<<[f \in 1..Total |-> f]>>[1])
    BY <2>1, LaneFrames
  <2>9. T!SendFrame(1)
    BY <1>u, <1>v, <1>2, <2>1, <2>2, <2>5, <2>6, <2>7, <2>8, OneLane
       DEF SP!SendFrame, T!SendFrame, T!options, T!receiver, Got
  <2> QED BY <2>9 DEF T!Next, T!Working, T!SenderThread
<1>3. CASE \E s \in SP!Slot : SP!SendFrameFails(s)
  <2>1. /\ spc = "chunks" /\ spc' = "failed" /\ next \in 1..Total /\ next' = next
        /\ SenderAt = "send" /\ SenderAt' = "failed"
    BY <1>3 DEF SP!SendFrameFails, SenderAt
  <2>2. Failures < 2 /\ Failures' = Failures + 1
    BY <1>u, <2>1, FailuresAre, FailedEnds
  <2>3. T!SendFrameFails(1)
    BY <1>u, <1>v, <1>3, <2>1, <2>2, OneLane, LaneFrames
       DEF SP!SendFrameFails, T!SendFrameFails, T!Fault, T!options, T!lanes, T!receiver, OnTheWay, Got
  <2> QED BY <2>3 DEF T!Next, T!Faulty
<1>4. CASE SP!SendDone
  <2>1. /\ spc = "done" /\ spc' = "finished" /\ next' = next
        /\ SenderAt = "send" /\ SenderAt' = "finished"
    BY <1>4 DEF SP!SendDone, SenderAt
  <2>2. Failures' = Failures
    BY <1>u, <2>1, FailuresAre, FailedEnds
  <2>3. next = Total + 1 /\ OnTheWay = {}
    BY <1>t, <2>1, SP!EmptyAtTheEnd DEF MapInv, Inv
  <2>4. TFrames(OnTheWay) = {}
    BY <2>3 DEF TFrames
  <2>5. T!AllComplete(1)
    <3>1. T!OfLane(1, TFrames(OnTheWay)) = {}
      BY <2>4, LaneFrames
    <3> QED BY <2>3, <3>1, LaneFrames DEF T!AllComplete
  <2>6. T!FinishSend(1)
    BY <1>u, <2>1, <2>2, <2>5, OneLane
       DEF T!FinishSend, T!options, T!lanes, T!receiver, OnTheWay, Got
  <2> QED BY <2>6 DEF T!Next, T!Working, T!SenderThread
<1>5. CASE SP!CallWaitForOne \/ SP!WaitOneTest \/ SP!WaitOneProgress \/ SP!CallWaitForAll
           \/ SP!WaitAllTest \/ SP!WaitAllEnd \/ SP!EndProgress
           \/ \E s \in SP!Slot : SP!Complete(s)
  <2>1. /\ spc \notin {"meta", "finished", "failed"}
        /\ spc' \notin {"meta", "finished", "failed"} /\ next' = next
    BY <1>5 DEF SP!CallWaitForOne, SP!WaitOneTest, SP!WaitOneProgress, SP!CallWaitForAll,
                SP!WaitAllTest, SP!WaitAllEnd, SP!EndProgress, SP!Complete, SP!Progressing
  <2>2. SenderAt' = SenderAt
    BY <2>1 DEF SenderAt
  <2> QED BY <1>u, <2>1, <2>2, NothingMaps
<1> QED BY <1>1, <1>2, <1>3, <1>4, <1>5 DEF SP!Thread

\* The steps of the receiver's thread.
LEMMA ReceiverMaps ==
    ASSUME Whole = {}, MapInv,
           \/ spc # "meta" /\ RP!ReceiveMeta
           \/ RP!LaneLoops
           \/ spc = "finished" /\ RP!TakeDone,
           UNCHANGED svars
    PROVE  [T!Next]_(T!vars)
<1>u. /\ UNCHANGED <<spc, next, delivered>> /\ SenderAt' = SenderAt
      /\ Fetched' = Fetched /\ OnTheWay' = OnTheWay
  BY DEF svars, SenderAt, Fetched, OnTheWay
<1>1. CASE spc # "meta" /\ RP!ReceiveMeta
  <2>1. /\ rpc = "meta" /\ rpc' = "prepost" /\ UNCHANGED <<processed, posted>> /\ processed = {}
        /\ ReceiverAt = "meta" /\ ReceiverAt' = "receive" /\ SenderAt # "connect"
    BY <1>1 DEF RP!ReceiveMeta, ReceiverAt, SenderAt, MapInv, RP!PostedSoFar
  <2>2. Failures' = Failures
    BY <1>u, <2>1, FailuresAre, FailedEnds
  <2>3. T!ApplyMeta(1)
    BY <1>u, <2>1, <2>2, OneLane
       DEF T!ApplyMeta, T!Opens, T!options, T!sender, T!lanes, Got
  <2> QED BY <2>3 DEF T!Next, T!Working, T!ReceiverThread
<1>2. CASE RP!LaneLoops
  <2>1. /\ rpc \in {"prepost", "poll", "progress"} /\ ReceiverAt = "receive"
        /\ \/ /\ rpc' \in {"prepost", "poll", "progress", "done"} /\ UNCHANGED processed
              /\ \/ UNCHANGED posted
                 \/ posted < RecvDepth /\ posted < Total /\ posted' = posted + 1
           \/ \E s \in RP!Slot :
                 /\ rpc = "poll" /\ rrequest[s] = "complete"
                 /\ \/ /\ rpc' = rpc
                       /\ processed' = processed \cup {frame[s]}
                       /\ posted' = IF posted < Total THEN posted + 1 ELSE posted
                    \/ rpc' = "failed" /\ UNCHANGED <<processed, posted>>
    BY <1>2, RP!ProcessesOne DEF MapInv, Inv, ReceiverAt
  <2>2. CASE /\ rpc' \in {"prepost", "poll", "progress", "done"} /\ UNCHANGED processed
             /\ \/ UNCHANGED posted
                \/ posted < RecvDepth /\ posted < Total /\ posted' = posted + 1
    <3>1. ReceiverAt' = ReceiverAt
      BY <2>1, <2>2 DEF ReceiverAt
    <3>2. CASE UNCHANGED posted
      BY <1>u, <2>1, <2>2, <3>1, <3>2, NothingMaps
    <3>3. CASE posted < RecvDepth /\ posted < Total /\ posted' = posted + 1
      <4>1. Failures' = Failures
        BY <1>u, <2>1, <2>2, FailuresAre, FailedEnds
      <4>2. T!Posting(1) /\ T!OfLane(1, {}) = {}
        BY <2>1, <3>3, LaneFrames DEF T!Posting, T!MoreToPost, T!OfLane
      <4>3. T!PostReceive(1, TFrames(Fetched \ processed))
        BY <1>u, <2>2, <3>3, OneLane DEF T!PostReceive, Got
      <4>4. T!PrePost(1)
        BY <1>u, <2>1, <2>2, <3>1, <4>1, <4>2, <4>3
           DEF T!PrePost, T!options, T!sender, T!receiver, Got
      <4> QED BY <4>4 DEF T!Next, T!Working, T!ReceiverThread
    <3> QED BY <2>2, <3>2, <3>3
  <2>3. ASSUME NEW s \in RP!Slot, rpc = "poll", rrequest[s] = "complete",
               \/ /\ rpc' = rpc /\ processed' = processed \cup {frame[s]}
                  /\ posted' = IF posted < Total THEN posted + 1 ELSE posted
               \/ rpc' = "failed" /\ UNCHANGED <<processed, posted>>
        PROVE  \E f \in T!Frame : T!Process(f) \/ T!ProcessCannotWrite(f)
    <3> PICK f : f = frame[s]
      OBVIOUS
    <3>1. f \in Fetched \ processed /\ f \in 1..Total /\ processed \subseteq 1..Total
      <4>1. f \in (1..RP!Matched) \ processed /\ f \notin RP!Unfetched
        BY <2>3, RP!CompleteRead DEF MapInv, Inv
      <4> QED BY <4>1, Between
    <3>2. /\ <<1, f>> \in T!Frame /\ <<1, f>> \in TFrames(Fetched \ processed)
          /\ T!ChunkOf(<<1, f>>) = f
      BY <3>1, LaneFrames
    <3>3. T!ChecksumOk(<<1, f>>)
      BY DEF T!ChecksumOk, T!ChunkVerify
    <3>t. T!Turn(<<1, f>>)
      BY <2>1, <2>3, <3>2, PollingMaps DEF T!Turn
    <3>4. CASE /\ rpc' = rpc /\ processed' = processed \cup {frame[s]}
               /\ posted' = IF posted < Total THEN posted + 1 ELSE posted
      <4>1. Failures' = Failures /\ ReceiverAt' = ReceiverAt
        BY <1>u, <3>4, FailuresAre, FailedEnds DEF ReceiverAt
      <4>2. /\ processed' = processed \cup {f} /\ rpc' # "meta"
            /\ TFrames(processed') = TFrames(processed) \cup {<<1, f>>}
        BY <2>1, <3>4, LaneFrames
      <4>3. TFrames((Fetched \ processed)') = TFrames(Fetched \ processed) \ {<<1, f>>}
        <5>1. (Fetched \ processed)' = (Fetched \ processed) \ {f}
          BY <1>u, <4>2
        <5> QED BY <5>1, LaneFrames
      <4>4. Cardinality(processed') = Cardinality(processed) + 1
        <5>1. IsFiniteSet(processed) /\ f \notin processed
          BY <3>1, FramesFinite
        <5> QED BY <4>2, <5>1, FS_AddElement
      <4>5. \A g : Got(g)' = Got(g)
        BY <1>u DEF Got
      <4>6. [c \in 1..Total |-> IF c \in processed' THEN Got(c)'
                                ELSE IF rpc' = "meta" THEN "stale" ELSE "hole"]
            = [[c \in 1..Total |-> IF c \in processed THEN Got(c)
                                   ELSE IF rpc = "meta" THEN "stale" ELSE "hole"]
                 EXCEPT ![f] = Got(f)]
        <5>1. \A c \in 1..Total :
                 (IF c \in processed' THEN Got(c)' ELSE IF rpc' = "meta" THEN "stale" ELSE "hole")
                 = IF c = f THEN Got(f)
                   ELSE IF c \in processed THEN Got(c)
                   ELSE IF rpc = "meta" THEN "stale" ELSE "hole"
          <6>1. \A c \in 1..Total : c \in processed' <=> c = f \/ c \in processed
            BY <4>2
          <6> QED BY <2>1, <4>2, <4>5, <6>1
        <5> QED BY <3>1, <5>1
      <4>7. [g \in TFrames(1..Total) |-> Got(g[2])][<<1, f>>] = Got(f)
        BY <3>1, LaneFrames
      <4>8. T!Process(<<1, f>>)
        <5>1. [g \in TFrames(1..Total) |-> Got(g[2])'] = [g \in TFrames(1..Total) |-> Got(g[2])]
          BY <4>5
        <5>2. [c \in 1..Total |-> IF c \in processed' THEN Got(c)'
                                  ELSE IF rpc' = "meta" THEN "stale" ELSE "hole"]
              = [[c \in 1..Total |-> IF c \in processed THEN Got(c)
                                     ELSE IF rpc = "meta" THEN "stale" ELSE "hole"]
                   EXCEPT ![T!ChunkOf(<<1, f>>)]
                            = [g \in TFrames(1..Total) |-> Got(g[2])][<<1, f>>]]
          BY <3>2, <4>6, <4>7
        <5>3. /\ <<ReceiverAt>>[<<1, f>>[1]] = "receive"
              /\ (rpc # "meta") = (rpc' # "meta")
              /\ UNCHANGED <<ReceiverAt, SenderAt, Failures, OnTheWay, next>>
          BY <1>u, <2>1, <4>1, <4>2
        <5>4. T!Taken(<<1, f>>) = TFrames((Fetched \ processed)')
          BY <4>3 DEF T!Taken
        <5>5. CASE posted < Total
          <6>1. T!MoreToPost(1) /\ <<posted'>> = [<<posted>> EXCEPT ![1] = <<posted>>[1] + 1]
            BY <3>4, <5>5, OneLane, LaneFrames DEF T!MoreToPost
          <6>2. T!PostReceive(1, T!Taken(<<1, f>>))
            BY <5>1, <5>3, <5>4, <6>1 DEF T!PostReceive
          <6> QED
            BY <3>2, <3>3, <3>t, <4>2, <4>4, <5>1, <5>2, <5>3, <6>1, <6>2
               DEF T!Process, T!options, T!sender
        <5>6. CASE ~(posted < Total)
          <6>1. ~T!MoreToPost(1) /\ posted' = posted /\ {} = {} \ {<<1, f>>}
            BY <3>4, <5>6, OneLane, LaneFrames DEF T!MoreToPost
          <6> QED
            BY <3>2, <3>3, <3>t, <4>2, <4>4, <5>1, <5>2, <5>3, <5>4, <6>1
               DEF T!Process, T!options, T!sender
        <5> QED BY <5>5, <5>6
      <4> QED BY <3>2, <4>8
    <3>5. CASE rpc' = "failed" /\ UNCHANGED <<processed, posted>>
      <4>1. /\ Failures < 2 /\ Failures' = Failures + 1 /\ ReceiverAt' = "failed"
            /\ rpc # "meta" /\ rpc' # "meta"
        BY <1>u, <2>1, <3>5, FailuresAre, FailedEnds DEF ReceiverAt
      <4>2. T!ProcessCannotWrite(<<1, f>>)
        BY <1>u, <2>1, <3>2, <3>3, <3>t, <3>5, <4>1, OneLane
           DEF T!ProcessCannotWrite, T!Fault, T!options, T!sender, T!lanes, Got
      <4> QED BY <3>2, <4>2
    <3> QED BY <2>3, <3>4, <3>5
  <2>4. (\E f \in T!Frame : T!Process(f) \/ T!ProcessCannotWrite(f)) => T!Next
    BY LaneFrames DEF T!Next, T!Working, T!ReceiverThread, T!Faulty, T!OfLane, TFrames
  <2> QED BY <2>1, <2>2, <2>3, <2>4
<1>3. CASE spc = "finished" /\ RP!TakeDone
  <2>1. /\ rpc = "done" /\ rpc' = "finished" /\ UNCHANGED <<processed, posted>>
        /\ ReceiverAt = "receive" /\ ReceiverAt' = "finished" /\ SenderAt = "finished"
    BY <1>3 DEF RP!TakeDone, ReceiverAt, SenderAt
  <2>2. Failures' = Failures
    BY <1>u, <2>1, FailuresAre, FailedEnds
  <2>3. T!LaneComplete(1)
    <3>1. IsFiniteSet(processed) /\ Cardinality(processed) = Total
      <4>1. processed \subseteq 1..Total
        BY Between
      <4>2. RP!Cardinality(processed) = Total
        BY <2>1 DEF MapInv, Inv, RP!Inv, RP!Counters, RP!Ending
      <4> QED BY <4>1, <4>2, FramesFinite DEF RP!Cardinality, Cardinality
    <3>2. T!Cardinality(TFrames(processed)) = Total
      BY <3>1, SameNumber
    <3>3. T!OfLane(1, TFrames(processed)) = TFrames(processed)
      BY LaneFrames
    <3> QED BY <3>2, <3>3, LaneFrames DEF T!LaneComplete
  <2>4. T!FinishReceive(1)
    BY <1>u, <2>1, <2>2, <2>3, OneLane
       DEF T!FinishReceive, T!options, T!sender, T!lanes, Got
  <2> QED BY <2>4 DEF T!Next, T!Working, T!ReceiverThread
<1> QED BY <1>1, <1>2, <1>3

\* Reading a frame.
LEMMA FetchMaps ==
    ASSUME Whole = {}, MapInv, NEW s \in RP!Slot, Fetch(s)
    PROVE  T!Next
<1> PICK f : f = frame[s]
  OBVIOUS
<1>1. /\ RP!Fetch(s) /\ f \in 1..arrived
      /\ Listening
      /\ \E i \in 1..Len(wire) : wire[i][1] = f /\ SP!Read(i)
  BY FetchSteps DEF MapInv, Inv, Fetch
<1>2. rrequest[s] = "fetching" /\ UNCHANGED <<rpc, processed, posted>>
  BY <1>1 DEF RP!Fetch, RP!thread
<1>3. PICK b : /\ delivered' = delivered \cup {<<f, b>>}
               /\ b = f \/ (b = 0 /\ spc = "failed")
               /\ f \in SP!Announced /\ UNCHANGED <<spc, next>>
  <2> PICK i \in 1..Len(wire) : wire[i][1] = f /\ SP!Read(i)
    BY <1>1
  <2>1. PICK b \in SP!Content(wire[i][2]) : delivered' = delivered \cup {<<f, b>>}
    BY DEF SP!Read, SP!ReadAt
  <2>2. buffer[wire[i][2]] = f
    BY DEF MapInv, Inv, SP!Inv, SP!WireInSlots
  <2>3. b = f \/ (b = 0 /\ spc = "failed")
    BY <2>1, <2>2 DEF SP!Content
  <2>4. f \in SP!Announced /\ UNCHANGED <<spc, next>>
    BY DEF SP!Announced, SP!Read, SP!ReadAt
  <2> QED BY <2>1, <2>3, <2>4
<1>4. /\ next \in 1..Total+1 /\ arrived \in 0..next-1
      /\ OnTheWay = SP!Announced /\ OnTheWay \subseteq 1..next-1
      /\ Fetched = (1..arrived) \ RP!Unfetched
      /\ Fetched \subseteq 1..RP!Matched /\ Fetched \subseteq 1..Total
      /\ RP!Matched \in 0..arrived /\ processed \subseteq Fetched
  BY Between
<1>5. f \in OnTheWay /\ f \in 1..Total /\ f \in 1..RP!Matched /\ f \notin processed
  <2>1. f \in RP!Reaching
    BY <1>2 DEF RP!Reaching, RP!Fetching
  <2> QED BY <1>3, <1>4, <2>1, RP!UnfetchedHere DEF MapInv, Inv
<1>6. f \notin Fetched
  BY <1>5 DEF OnTheWay
<1>8. T!HasReceive(<<1, f>>)
  <2>1. <<1, f>> \in TFrames(OnTheWay)
    BY <1>5, LaneFrames
  <2>2. f <= posted
    <3>1. posted = RP!Matched + Len(receives) /\ Len(receives) \in Nat
      BY RP!Basics DEF MapInv, Inv, RP!PostedSoFar
    <3> QED BY <1>4, <1>5, <3>1
  <2> QED BY <2>1, <2>2 DEF T!HasReceive, T!Arrives
<1>9. T!CanFetch(<<1, f>>) \/ T!StillFetches(<<1, f>>)
  <2>1. CASE rpc = "failed"
    <3>1. PICK g : g \in Fetched \ processed
      <4>1. /\ frame[rslot] \in (1..RP!Matched) \ processed
            /\ frame[rslot] \notin RP!Unfetched
        BY <2>1, RP!RefusedRead DEF MapInv, Inv
      <4> QED BY <1>4, <4>1
    <3>2. T!OfLane(1, TFrames(Fetched \ processed)) # {}
      <4>1. <<1, g>> \in TFrames(Fetched \ processed)
        BY <3>1, LaneFrames
      <4> QED BY <4>1, LaneFrames
    <3> QED BY <1>8, <2>1, <3>2 DEF T!StillFetches, ReceiverAt
  <2>2. CASE rpc # "failed"
    <3>1. rpc # "meta"
      BY <1>2 DEF MapInv, Inv, RP!Inv, RP!Fresh, RP!Slot
    <3>2. rpc \in {"progress", "done"}
      BY <1>1, <2>2, <3>1 DEF Listening, R!Progressing
    <3> QED BY <1>8, <3>2, PollingMaps DEF T!CanFetch
  <2> QED BY <2>1, <2>2
<1>10. /\ SenderAt' = SenderAt /\ ReceiverAt' = ReceiverAt /\ Failures' = Failures
  BY <1>2, <1>3, FailuresAre, FailedEnds DEF SenderAt, ReceiverAt
<1>11. Fetched' = Fetched \cup {f}
  <2>1. <<f, b>>[1] = f
    OBVIOUS
  <2> QED BY <1>3, <2>1 DEF Fetched
<1>12. /\ TFrames(OnTheWay') = TFrames(OnTheWay) \ {<<1, f>>}
       /\ TFrames((Fetched \ processed)') = TFrames(Fetched \ processed) \cup {<<1, f>>}
  <2>1. OnTheWay' = OnTheWay \ {f}
    BY <1>3, <1>11 DEF OnTheWay
  <2>2. (Fetched \ processed)' = (Fetched \ processed) \cup {f}
    BY <1>2, <1>5, <1>11
  <2> QED BY <2>1, <2>2, LaneFrames
<1>13. /\ \A g : g # f => Got(g)' = Got(g)
       /\ Got(f)' = IF b = f THEN "old" ELSE "damaged"
  <2>1. \A g : g # f => (g \in Fetched' <=> g \in Fetched)
                       /\ (<<g, g>> \in delivered' <=> <<g, g>> \in delivered)
    BY <1>3, <1>11
  <2>2. <<f, f>> \notin delivered
    <3>1. <<f, f>>[1] = f
      OBVIOUS
    <3> QED BY <1>6, <3>1 DEF Fetched
  <2>3. <<f, f>> \in delivered' <=> b = f
    BY <1>3, <2>2
  <2>4. Got(f)' = IF b = f THEN "old" ELSE "damaged"
    BY <1>11, <2>3 DEF Got
  <2>5. \A g : g # f => Got(g)' = Got(g)
    BY <2>1 DEF Got
  <2> QED BY <2>4, <2>5
<1>14. T!Fetch(<<1, f>>, IF b = f THEN "old" ELSE "damaged")
  <2>1. [g \in TFrames(1..Total) |-> Got(g[2])']
        = [[g \in TFrames(1..Total) |-> Got(g[2])]
             EXCEPT ![<<1, f>>] = IF b = f THEN "old" ELSE "damaged"]
    <3>1. \A g \in TFrames(1..Total) : g = <<1, f>> <=> g[2] = f
      BY DEF TFrames
    <3>2. \A g \in TFrames(1..Total) :
             Got(g[2])' = IF g = <<1, f>> THEN IF b = f THEN "old" ELSE "damaged"
                          ELSE Got(g[2])
      BY <1>13, <3>1
    <3> QED BY <3>2
  <2>2. [c \in 1..Total |-> IF c \in processed THEN Got(c)' ELSE IF rpc = "meta" THEN "stale" ELSE "hole"]
        = [c \in 1..Total |-> IF c \in processed THEN Got(c) ELSE IF rpc = "meta" THEN "stale" ELSE "hole"]
    BY <1>5, <1>13
  <2> QED
    BY <1>2, <1>3, <1>10, <1>12, <2>1, <2>2
       DEF T!Fetch, T!options, T!sender, T!receiver
<1>15. T!FetchIntact(<<1, f>>) \/ T!FetchWhileClosing(<<1, f>>) \/ T!FetchFreed(<<1, f>>)
  <2>1. CASE b = f
    BY <1>4, <1>5, <1>9, <1>10, <1>14, <2>1, LaneFrames
       DEF T!FetchIntact, T!FetchWhileClosing
  <2>2. CASE b # f
    BY <1>3, <1>9, <1>10, <1>14, <2>2 DEF T!FetchFreed, SenderAt
  <2> QED BY <2>1, <2>2
<1>16. <<1, f>> \in T!Frame /\ <<1, f>> \in T!OfLane(1, T!Frame)
  BY <1>5, LaneFrames
<1> QED BY <1>15, <1>16 DEF T!Next, T!Working, T!ReceiverThread, T!Faulty

LEMMA InitMaps == Init => T!Init
<1> SUFFICES ASSUME Init PROVE T!Init
  OBVIOUS
<1>1. /\ spc = "meta" /\ next = 1 /\ delivered = {} /\ rpc = "meta" /\ processed = {}
      /\ posted = 0
  BY SameSender, SameReceiver DEF Init, SP!Init, RP!Init
<1>2. SenderAt = "connect" /\ ReceiverAt = "meta"
  BY <1>1 DEF SenderAt, ReceiverAt
<1>3. Failures = 0
  BY <1>1, FailuresAre, FailedEnds
<1>4. Fetched = {} /\ OnTheWay = {} /\ \A f : Got(f) = "none"
  BY <1>1 DEF Fetched, OnTheWay, Got
<1>5. /\ TFrames({}) = {} /\ TFrames(OnTheWay) = {} /\ TFrames(processed) = {}
      /\ TFrames(Fetched \ processed) = {}
  BY <1>1, <1>4 DEF TFrames
<1>6. Cardinality(processed) = 0
  BY <1>1, FS_EmptySet
<1>7. [f \in TFrames(1..Total) |-> IF f[2] < next THEN "old" ELSE "none"]
      = [f \in TFrames(1..Total) |-> "none"]
  <2>1. \A f \in TFrames(1..Total) : ~(f[2] < next)
    BY <1>1 DEF TFrames
  <2> QED BY <2>1
<1>8. <<posted>> = [l \in {1} |-> 0]
  BY <1>1
<1> QED
  BY <1>1, <1>2, <1>3, <1>4, <1>5, <1>6, <1>7, <1>8, LaneFrames DEF T!Init, T!Verify

LEMMA StepMaps ==
    ASSUME Whole = {}, MapInv, [Next]_vars
    PROVE  [T!Next]_(T!vars)
<1>1. CASE Arrive \/ UNCHANGED vars
  <2>1. UNCHANGED <<spc, rpc, next, delivered, processed, posted>>
    <3>1. CASE Arrive
      BY <3>1, SameReceiver DEF Arrive, RP!Take, RP!thread, svars
    <3> QED BY <1>1, <3>1 DEF vars, svars, rvars
  <2>2. SenderAt' = SenderAt /\ ReceiverAt' = ReceiverAt
    BY <2>1 DEF SenderAt, ReceiverAt
  <2> QED BY <2>1, <2>2, NothingMaps
<1> QED BY <1>1, Steps, SenderMaps, ReceiverMaps, FetchMaps

\* The two ends do what Transfer takes a lane with --verify none to do, as
\* long as all frames are large enough to be announced.
THEOREM TransferImplemented ==
    ASSUME Whole = {}
    PROVE  Spec => ImplementsTransfer
<1>1. Init => T!Init
  BY InitMaps
<1>2. MapInv /\ [Next]_vars => MapInv' /\ [T!Next]_(T!vars)
  BY MapInvNext, StepMaps
<1> QED BY <1>1, <1>2, MapInvInit, PTL DEF Spec, ImplementsTransfer, T!Spec
=============================================================================
