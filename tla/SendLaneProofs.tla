--------------------------- MODULE SendLaneProofs ---------------------------
(***************************************************************************)
(* Proofs about a sending lane for any window, any number of frames and    *)
(* any of them sent eagerly or unreadable.                                 *)
(*                                                                         *)
(* Why a frame arrives with its own bytes: as long as it is announced its  *)
(* slot has a request (WireInSlots), and a slot is filled only while it    *)
(* has none.  Why the done frame comes after all of them: a frame sent is  *)
(* announced or delivered (Accounted), and wait_for_all returns only after *)
(* a pass over the slots that has met no request (ScanIsSound).            *)
(***************************************************************************)
EXTENDS SendLane, SequenceTheorems, FiniteSetTheorems, TLAPS

\* An announced frame is in its slot's buffer, and no two share a slot.
WireInSlots ==
    /\ \A i \in 1..Len(wire) :
          /\ request[wire[i][2]] = "announced"
          /\ buffer[wire[i][2]] = wire[i][1]
    /\ \A i, j \in 1..Len(wire) : wire[i][2] = wire[j][2] => i = j

\* A frame the chunk loop has passed is on the wire or delivered.
Accounted ==
    \A f \in 1..next-1 :
        \/ \E d \in delivered : d[1] = f
        \/ \E i \in 1..Len(wire) : wire[i][1] = f

\* `any' is false only if the slots tested so far had no request.
ScanIsSound ==
    pc = "waitAll" /\ ~any => \A s \in Slot : s < slot => request[s] = "null"

\* What holds when the chunk loop is over.
Ending ==
    /\ pc \in {"waitAll", "waitAllProgress", "done", "finished"} => next = Total + 1
    /\ pc \in {"done", "finished"} => \A s \in Slot : request[s] = "null"

Inv ==
    /\ TypeOK
    /\ WireInSlots
    /\ Accounted
    /\ DeliveredIntact
    /\ ScanIsSound
    /\ Ending

USE DepthAssumption, RecvDepthAssumption, TotalAssumption, FramesAssumption
----------------------------------------------------------------------------

\* Taking the i-th element out of a sequence keeps the others in order.
LEMMA WithoutAt ==
    ASSUME NEW S, NEW w \in Seq(S), NEW i \in 1..Len(w)
    PROVE  LET r == SubSeq(w, 1, i-1) \o SubSeq(w, i+1, Len(w))
           IN  /\ r \in Seq(S)
               /\ Len(r) = Len(w) - 1
               /\ \A k \in 1..Len(r) : r[k] = w[IF k < i THEN k ELSE k + 1]
<1> DEFINE p == SubSeq(w, 1, i-1)
           q == SubSeq(w, i+1, Len(w))
<1>1. Len(w) \in Nat /\ \A k \in 1..Len(w) : w[k] \in S
  BY LenProperties, ElementOfSeq
<1>2. /\ p \in Seq(S) /\ Len(p) = i - 1
      /\ \A k \in 1..i-1 : p[k] = w[k]
  <2>1. \A k \in 1..i-1 : w[k] \in S
    BY <1>1
  <2>2. p \in Seq(S) /\ Len(p) = IF 1 <= i-1 THEN i-1-1+1 ELSE 0
    BY <2>1, <1>1, SubSeqProperties
  <2>3. \A k \in 1..(i-1)-1+1 : p[k] = w[1+k-1]
    BY <2>1, <1>1, SubSeqProperties
  <2> QED BY <1>1, <2>2, <2>3
<1>3. /\ q \in Seq(S) /\ Len(q) = Len(w) - i
      /\ \A k \in 1..Len(w)-i : q[k] = w[i + k]
  <2>1. \A k \in i+1..Len(w) : w[k] \in S
    BY <1>1
  <2>2. q \in Seq(S) /\ Len(q) = IF i+1 <= Len(w) THEN Len(w)-(i+1)+1 ELSE 0
    BY <2>1, <1>1, SubSeqProperties
  <2>3. \A k \in 1..Len(w)-(i+1)+1 : q[k] = w[(i+1)+k-1]
    BY <2>1, <1>1, SubSeqProperties
  <2> QED BY <1>1, <2>2, <2>3
<1> HIDE DEF p, q
<1>4. /\ p \o q \in Seq(S) /\ Len(p \o q) = Len(w) - 1
      /\ \A k \in 1..Len(w)-1 : (p \o q)[k] = IF k <= i-1 THEN p[k] ELSE q[k - (i-1)]
  <2>1. /\ p \o q \in Seq(S) /\ Len(p \o q) = Len(p) + Len(q)
        /\ \A k \in 1..Len(p) + Len(q) :
              (p \o q)[k] = IF k <= Len(p) THEN p[k] ELSE q[k - Len(p)]
    <3>1. p \in Seq(S) /\ q \in Seq(S)
      BY <1>2, <1>3
    <3> QED BY ONLY <3>1, ConcatProperties, Zenon
  <2>2. Len(p) = i - 1 /\ Len(p) + Len(q) = Len(w) - 1
    BY <1>1, <1>2, <1>3
  <2> QED BY <2>1, <2>2
<1>5. ASSUME NEW k \in 1..Len(w)-1
      PROVE  (p \o q)[k] = w[IF k < i THEN k ELSE k + 1]
  <2>1. CASE k < i
    <3>1. k \in 1..i-1 /\ k <= i-1
      BY <2>1, <1>1
    <3> QED BY <2>1, <3>1, <1>2, <1>4
  <2>2. CASE ~(k < i)
    <3>1. ~(k <= i-1) /\ k-(i-1) \in 1..Len(w)-i /\ i + (k-(i-1)) = k + 1
      BY <2>2, <1>1
    <3> QED BY <2>2, <3>1, <1>3, <1>4
  <2> QED BY <2>1, <2>2
<1> QED BY <1>4, <1>5 DEF p, q

LEMMA InvInit == Init => Inv
<1> SUFFICES ASSUME Init PROVE Inv
  OBVIOUS
<1>1. TypeOK
  <2>1. wire = <<>> /\ wire \in Seq(Frame \X Slot)
    BY EmptySeq DEF Init
  <2>2. /\ request \in [Slot -> Request] /\ buffer \in [Slot -> 0..Total]
        /\ slot \in 1..Depth+1 /\ next \in 1..Total+1
    BY DEF Init, Request
  <2> QED BY <2>1, <2>2 DEF Init, TypeOK
<1>2. WireInSlots /\ Accounted /\ DeliveredIntact
  BY DEF Init, WireInSlots, Accounted, DeliveredIntact
<1>3. ScanIsSound /\ Ending
  BY DEF Init, ScanIsSound, Ending
<1> QED BY <1>1, <1>2, <1>3 DEF Inv

\* A step that leaves the buffers, the wire and the frames delivered alone,
\* and every announced request, keeps what is said of them.
LEMMA Undisturbed ==
    ASSUME Inv, UNCHANGED <<next, buffer, wire, delivered>>,
           \A s \in Slot : request[s] = "announced" => request'[s] = "announced",
           pc = "failed" => pc' = "failed"
    PROVE  WireInSlots' /\ Accounted' /\ DeliveredIntact'
<1>1. \A i \in 1..Len(wire) : wire[i] \in Frame \X Slot
  BY ElementOfSeq DEF Inv, TypeOK
<1>2. WireInSlots'
  BY <1>1 DEF Inv, WireInSlots
<1>3. Accounted' /\ DeliveredIntact'
  BY DEF Inv, Accounted, DeliveredIntact
<1> QED BY <1>2, <1>3

\* The receiver reads the i-th announced frame out of its slot.
LEMMA ReadKeeps ==
    ASSUME Inv, NEW i \in 1..Len(wire), Read(i)
    PROVE  Inv'
<1> DEFINE s == wire[i][2]
           f == wire[i][1]
           r == SubSeq(wire, 1, i-1) \o SubSeq(wire, i+1, Len(wire))
<1>1. \A k \in 1..Len(wire) : wire[k] \in Frame \X Slot
  BY ElementOfSeq DEF Inv, TypeOK
<1>2. /\ f \in Frame /\ s \in Slot
      /\ request[s] = "announced" /\ buffer[s] = f
  BY <1>1 DEF Inv, WireInSlots
<1>3. PICK b \in Content(s) : delivered' = delivered \cup {<<f, b>>}
  BY DEF Read, ReadAt
<1>4. b = f \/ (b = 0 /\ pc = "failed")
  BY <1>2, <1>3 DEF Content
<1>5. /\ wire' = r
      /\ request' = [request EXCEPT ![s] = "read"]
      /\ UNCHANGED <<pc, slot, any, next, buffer>>
  BY DEF Read, ReadAt
<1>6. /\ r \in Seq(Frame \X Slot) /\ Len(r) = Len(wire) - 1
      /\ \A k \in 1..Len(r) : r[k] = wire[IF k < i THEN k ELSE k + 1]
  BY WithoutAt DEF Inv, TypeOK
<1>7. Len(wire) \in Nat
  BY LenProperties DEF Inv, TypeOK
<1> DEFINE Old(k) == IF k < i THEN k ELSE k + 1
<1>8. /\ Len(wire') = Len(wire) - 1
      /\ \A k \in 1..Len(wire') : /\ Old(k) \in 1..Len(wire) /\ Old(k) # i
                                  /\ wire'[k] = wire[Old(k)]
      /\ \A j, k \in 1..Len(wire') : Old(j) = Old(k) => j = k
  <2>1. Len(wire') = Len(wire) - 1
    BY <1>5, <1>6
  <2>2. \A k \in 1..Len(wire') : Old(k) \in 1..Len(wire) /\ Old(k) # i
    BY <2>1, <1>7
  <2>3. \A k \in 1..Len(wire') : wire'[k] = wire[Old(k)]
    BY <1>5, <1>6
  <2>4. \A j, k \in 1..Len(wire') : Old(j) = Old(k) => j = k
    BY <2>1, <1>7
  <2> QED BY <2>1, <2>2, <2>3, <2>4
<1>9. \A j \in 1..Len(wire) : j # i => \E k \in 1..Len(wire') : Old(k) = j
  <2> SUFFICES ASSUME NEW j \in 1..Len(wire), j # i
               PROVE  \E k \in 1..Len(wire') : Old(k) = j
    OBVIOUS
  <2>1. CASE j < i
    BY <2>1, <1>7, <1>8
  <2>2. CASE j > i
    <3>1. j - 1 \in 1..Len(wire') /\ Old(j - 1) = j
      BY <2>2, <1>7, <1>8
    <3> QED BY <3>1
  <2> QED BY <2>1, <2>2, <1>7
<1> HIDE DEF s, f, r, Old
<1>10. TypeOK'
  <2>1. request' \in [Slot -> Request]
    BY <1>2, <1>5 DEF Inv, TypeOK, Request
  <2>2. delivered' \subseteq Frame \X (0..Total)
    BY <1>2, <1>3, <1>4 DEF Inv, TypeOK, Frame
  <2>3. wire' \in Seq(Frame \X Slot)
    BY <1>5, <1>6
  <2>4. UNCHANGED <<pc, slot, any, next, buffer>>
    BY <1>5
  <2> QED BY <2>1, <2>2, <2>3, <2>4 DEF Inv, TypeOK
<1>11. WireInSlots'
  <2>1. ASSUME NEW k \in 1..Len(wire')
        PROVE  /\ request'[wire'[k][2]] = "announced"
               /\ buffer'[wire'[k][2]] = wire'[k][1]
    <3>1. wire[Old(k)][2] # s /\ wire[Old(k)][2] \in Slot
      BY <1>1, <1>8 DEF Inv, WireInSlots, s
    <3>2. request'[wire[Old(k)][2]] = request[wire[Old(k)][2]]
      BY <3>1, <1>5 DEF Inv, TypeOK
    <3> QED BY <3>2, <1>5, <1>8 DEF Inv, WireInSlots
  <2>2. ASSUME NEW j \in 1..Len(wire'), NEW k \in 1..Len(wire'),
               wire'[j][2] = wire'[k][2]
        PROVE  j = k
    BY <2>2, <1>8 DEF Inv, WireInSlots
  <2> QED BY <2>1, <2>2 DEF WireInSlots
<1>12. Accounted'
  <2> SUFFICES ASSUME NEW g \in 1..next-1
               PROVE  \/ \E d \in delivered' : d[1] = g
                      \/ \E k \in 1..Len(wire') : wire'[k][1] = g
    BY <1>5 DEF Accounted
  <2>1. CASE \E d \in delivered : d[1] = g
    BY <2>1, <1>3
  <2>2. CASE \E j \in 1..Len(wire) : wire[j][1] = g
    <3>1. PICK j \in 1..Len(wire) : wire[j][1] = g
      BY <2>2
    <3>2. CASE j = i
      <4>1. <<f, b>> \in delivered' /\ f = g
        BY <3>1, <3>2, <1>3 DEF f
      <4> QED BY <4>1
    <3>3. CASE j # i
      <4>1. PICK k \in 1..Len(wire') : Old(k) = j
        BY <3>3, <1>9
      <4> QED BY <3>1, <4>1, <1>8
    <3> QED BY <3>2, <3>3
  <2> QED BY <2>1, <2>2 DEF Inv, Accounted
<1>13. DeliveredIntact'
  BY <1>3, <1>4, <1>5 DEF Inv, DeliveredIntact
<1>14. ScanIsSound' /\ Ending'
  BY <1>2, <1>5 DEF Inv, TypeOK, ScanIsSound, Ending
<1> QED BY <1>10, <1>11, <1>12, <1>13, <1>14 DEF Inv

\* A chunk is read into a free slot and sent.
LEMMA SendFrameKeeps ==
    ASSUME Inv, NEW s \in Slot, SendFrame(s)
    PROVE  Inv'
<1>1. /\ pc = "chunks" /\ pc' = "chunks"
      /\ next \in Frame /\ next' = next + 1
      /\ request[s] = "null"
      /\ buffer' = [buffer EXCEPT ![s] = next]
      /\ UNCHANGED <<slot, any>>
  BY DEF SendFrame, MoreChunks, FreeSlot, IsFree, Inv, TypeOK, Frame
<1>2. \A k \in 1..Len(wire) : wire[k] \in Frame \X Slot /\ wire[k][2] # s
  BY <1>1, ElementOfSeq DEF Inv, TypeOK, WireInSlots
<1>3. \A k \in 1..Len(wire) : buffer'[wire[k][2]] = buffer[wire[k][2]]
  BY <1>1, <1>2 DEF Inv, TypeOK
<1>4. next' \in 1..Total+1 /\ buffer' \in [Slot -> 0..Total]
  BY <1>1 DEF Inv, TypeOK, Frame
<1>5. ScanIsSound' /\ Ending'
  BY <1>1 DEF ScanIsSound, Ending
<1>6. \A f \in 1..next'-1 : f \in 1..next-1 \/ f = next
  BY <1>1 DEF Frame
<1>7. CASE /\ next \in Whole
           /\ delivered' = delivered \cup {<<next, next>>}
           /\ UNCHANGED <<request, wire>>
  <2>1. TypeOK'
    BY <1>1, <1>4, <1>7 DEF Inv, TypeOK, Frame
  <2>2. WireInSlots'
    BY <1>2, <1>3, <1>7 DEF Inv, WireInSlots
  <2>3. Accounted'
    <3> SUFFICES ASSUME NEW f \in 1..next'-1
                 PROVE  \/ \E d \in delivered' : d[1] = f
                        \/ \E k \in 1..Len(wire') : wire'[k][1] = f
      BY DEF Accounted
    <3>1. CASE f = next
      <4>1. <<next, next>> \in delivered'
        BY <1>7
      <4> QED BY <3>1, <4>1
    <3>2. CASE f \in 1..next-1
      BY <1>7, <3>2 DEF Inv, Accounted
    <3> QED BY <1>6, <3>1, <3>2
  <2>4. DeliveredIntact'
    BY <1>1, <1>7 DEF Inv, DeliveredIntact
  <2> QED BY <1>5, <2>1, <2>2, <2>3, <2>4 DEF Inv
<1>8. CASE /\ next \notin Whole
           /\ request' = [request EXCEPT ![s] = "announced"]
           /\ wire' = Append(wire, <<next, s>>)
           /\ UNCHANGED delivered
  <2>1. /\ wire' \in Seq(Frame \X Slot) /\ Len(wire) \in Nat
        /\ Len(wire') = Len(wire) + 1
        /\ \A k \in 1..Len(wire) : wire'[k] = wire[k]
        /\ wire'[Len(wire) + 1] = <<next, s>>
    BY <1>1, <1>8, AppendProperties, LenProperties DEF Inv, TypeOK
  <2>2. \A k \in 1..Len(wire') : k \in 1..Len(wire) \/ k = Len(wire) + 1
    BY <2>1
  <2>3. TypeOK'
    <3>1. request' \in [Slot -> Request]
      BY <1>8 DEF Inv, TypeOK, Request
    <3> QED BY <1>1, <1>4, <1>8, <2>1, <3>1 DEF Inv, TypeOK
  <2>4. WireInSlots'
    <3>1. ASSUME NEW k \in 1..Len(wire')
          PROVE  /\ request'[wire'[k][2]] = "announced"
                 /\ buffer'[wire'[k][2]] = wire'[k][1]
      <4>1. CASE k \in 1..Len(wire)
        <5>1. request'[wire[k][2]] = request[wire[k][2]]
          BY <1>2, <1>8, <4>1 DEF Inv, TypeOK
        <5> QED BY <1>3, <2>1, <4>1, <5>1 DEF Inv, WireInSlots
      <4>2. CASE k = Len(wire) + 1
        BY <1>1, <1>8, <2>1, <4>2 DEF Inv, TypeOK
      <4> QED BY <2>2, <4>1, <4>2
    <3>2. ASSUME NEW j \in 1..Len(wire'), NEW k \in 1..Len(wire'),
                 wire'[j][2] = wire'[k][2]
          PROVE  j = k
      <4>1. CASE j \in 1..Len(wire) /\ k \in 1..Len(wire)
        BY <2>1, <3>2, <4>1 DEF Inv, WireInSlots
      <4>2. CASE j = Len(wire) + 1 \/ k = Len(wire) + 1
        BY <1>2, <2>1, <2>2, <3>2, <4>2
      <4> QED BY <2>2, <4>1, <4>2
    <3> QED BY <3>1, <3>2 DEF WireInSlots
  <2>5. Accounted'
    <3> SUFFICES ASSUME NEW f \in 1..next'-1
                 PROVE  \/ \E d \in delivered' : d[1] = f
                        \/ \E k \in 1..Len(wire') : wire'[k][1] = f
      BY DEF Accounted
    <3>1. CASE f = next
      <4>1. Len(wire) + 1 \in 1..Len(wire') /\ wire'[Len(wire) + 1][1] = f
        BY <2>1, <3>1
      <4> QED BY <4>1
    <3>2. CASE f \in 1..next-1
      <4>1. CASE \E d \in delivered : d[1] = f
        BY <1>8, <4>1
      <4>2. CASE \E k \in 1..Len(wire) : wire[k][1] = f
        <5>1. PICK k \in 1..Len(wire) : wire[k][1] = f
          BY <4>2
        <5>2. k \in 1..Len(wire') /\ wire'[k][1] = f
          BY <2>1, <5>1
        <5> QED BY <5>2
      <4> QED BY <3>2, <4>1, <4>2 DEF Inv, Accounted
    <3> QED BY <1>6, <3>1, <3>2
  <2>6. DeliveredIntact'
    BY <1>1, <1>8 DEF Inv, DeliveredIntact
  <2> QED BY <1>5, <2>3, <2>4, <2>5, <2>6 DEF Inv
<1> QED BY <1>7, <1>8 DEF SendFrame, Announce

\* The thread throws after it has filled a free slot.
LEMMA SendFrameFailsKeeps ==
    ASSUME Inv, NEW s \in Slot, SendFrameFails(s)
    PROVE  Inv'
<1>1. /\ pc' = "failed" /\ next \in Frame
      /\ request[s] = "null"
      /\ buffer' = [buffer EXCEPT ![s] = next]
      /\ UNCHANGED <<slot, any, next, request, wire, delivered>>
  BY DEF SendFrameFails, FreeSlot, IsFree, Frame
<1>2. \A k \in 1..Len(wire) : wire[k] \in Frame \X Slot /\ wire[k][2] # s
  BY <1>1, ElementOfSeq DEF Inv, TypeOK, WireInSlots
<1>3. \A k \in 1..Len(wire) : buffer'[wire[k][2]] = buffer[wire[k][2]]
  BY <1>1, <1>2 DEF Inv, TypeOK
<1>4. TypeOK'
  BY <1>1 DEF Inv, TypeOK, Frame
<1>5. WireInSlots' /\ Accounted'
  BY <1>1, <1>3 DEF Inv, WireInSlots, Accounted
<1>6. DeliveredIntact' /\ ScanIsSound' /\ Ending'
  BY <1>1 DEF Inv, DeliveredIntact, ScanIsSound, Ending
<1> QED BY <1>4, <1>5, <1>6 DEF Inv

LEMMA InvNext == Inv /\ [Next]_vars => Inv'
<1> SUFFICES ASSUME Inv, [Next]_vars PROVE Inv'
  OBVIOUS
<1>t. TypeOK
  BY DEF Inv
<1>1. CASE Receiver
  BY <1>1, ReadKeeps DEF Receiver
<1>2. CASE \E s \in Slot : Complete(s)
  <2> PICK s \in Slot : Complete(s)
    BY <1>2
  <2>1. /\ request[s] = "read" /\ request' = [request EXCEPT ![s] = "complete"]
        /\ UNCHANGED <<pc, slot, any, next, buffer, wire, delivered>>
        /\ pc \in {"waitOneProgress", "waitAllProgress"}
    BY DEF Complete, Progressing
  <2>2. TypeOK'
    BY <1>t, <2>1 DEF TypeOK, Request
  <2>3. \A t \in Slot : request[t] = "announced" => request'[t] = "announced"
    BY <1>t, <2>1 DEF TypeOK
  <2>4. WireInSlots' /\ Accounted' /\ DeliveredIntact'
    BY <2>1, <2>3, Undisturbed
  <2>5. ScanIsSound' /\ Ending'
    BY <2>1 DEF Inv, ScanIsSound, Ending
  <2> QED BY <2>2, <2>4, <2>5 DEF Inv
<1>3. CASE \E s \in Slot : SendFrame(s) \/ SendFrameFails(s)
  BY <1>3, SendFrameKeeps, SendFrameFailsKeeps
<1>4. CASE SendMeta \/ CallWaitForOne \/ WaitOneProgress \/ CallWaitForAll
           \/ WaitAllEnd \/ EndProgress \/ SendDone
  <2>1. UNCHANGED <<next, request, buffer, wire, delivered>> /\ pc # "failed"
    BY <1>4 DEF SendMeta, CallWaitForOne, WaitOneProgress, CallWaitForAll,
                WaitAllEnd, EndProgress, SendDone, Progressing
  <2>2. WireInSlots' /\ Accounted' /\ DeliveredIntact'
    BY <2>1, Undisturbed
  <2>3. TypeOK'
    <3>1. /\ pc' \in {"chunks", "waitOne", "waitOneProgress", "waitAll",
                      "waitAllProgress", "done", "finished"}
          /\ slot' \in {slot, 1} /\ any' \in {any, FALSE}
      BY <1>4 DEF SendMeta, CallWaitForOne, WaitOneProgress, CallWaitForAll,
                  WaitAllEnd, EndProgress, SendDone
    <3>2. slot' \in 1..Depth+1
      BY <1>t, <3>1 DEF TypeOK
    <3>3. any' \in BOOLEAN
      BY <1>t, <3>1 DEF TypeOK
    <3> QED BY <1>t, <2>1, <3>1, <3>2, <3>3 DEF TypeOK
  <2>4. ScanIsSound'
    <3> SUFFICES ASSUME pc' = "waitAll" PROVE slot' = 1
      BY <1>t DEF ScanIsSound, TypeOK, Slot
    <3> QED BY <1>4 DEF SendMeta, CallWaitForOne, WaitOneProgress, CallWaitForAll,
                        WaitAllEnd, EndProgress, SendDone
  <2>5. Ending'
    <3>1. CASE SendMeta \/ CallWaitForOne \/ WaitOneProgress
      BY <3>1 DEF SendMeta, CallWaitForOne, WaitOneProgress, Ending
    <3>2. CASE CallWaitForAll
      BY <3>2, <1>t DEF CallWaitForAll, MoreChunks, Ending, TypeOK
    <3>3. CASE WaitAllEnd
      <4>1. ~any => \A s \in Slot : request[s] = "null"
        BY <3>3, <1>t DEF WaitAllEnd, Inv, ScanIsSound, TypeOK, Slot
      <4> QED BY <3>3, <4>1 DEF WaitAllEnd, Inv, Ending
    <3>4. CASE EndProgress \/ SendDone
      BY <3>4 DEF EndProgress, SendDone, Progressing, Inv, Ending
    <3> QED BY <1>4, <3>1, <3>2, <3>3, <3>4
  <2> QED BY <2>2, <2>3, <2>4, <2>5 DEF Inv
<1>5. CASE WaitOneTest \/ WaitAllTest
  <2>1. /\ pc \in {"waitOne", "waitAll"} /\ slot \in Slot
        /\ UNCHANGED <<next, buffer, wire, delivered>>
        /\ \/ request' = request
           \/ /\ request[slot] = "complete"
              /\ request' = [request EXCEPT ![slot] = "null"]
    BY <1>5, <1>t DEF WaitOneTest, WaitAllTest, Release, TypeOK, Slot
  <2>2. \A t \in Slot : request[t] = "announced" => request'[t] = "announced"
    BY <1>t, <2>1 DEF TypeOK
  <2>3. WireInSlots' /\ Accounted' /\ DeliveredIntact'
    BY <2>1, <2>2, Undisturbed
  <2>4. TypeOK'
    <3>1. request' \in [Slot -> Request]
      BY <1>t, <2>1 DEF TypeOK, Request
    <3>2. pc' \in {"chunks", "waitOne", "waitAll"} /\ slot' \in 1..Depth+1
      BY <1>5, <1>t, <2>1 DEF WaitOneTest, WaitAllTest, TypeOK, Slot
    <3>3. any' \in BOOLEAN
      BY <1>5, <1>t DEF WaitOneTest, WaitAllTest, TypeOK
    <3> QED BY <1>t, <2>1, <3>1, <3>2, <3>3 DEF TypeOK
  <2>5. CASE WaitOneTest
    <3>1. pc' \in {"chunks", "waitOne"}
      BY <2>5 DEF WaitOneTest
    <3> QED BY <2>3, <2>4, <3>1 DEF Inv, ScanIsSound, Ending
  <2>6. CASE WaitAllTest
    <3>1. /\ pc = "waitAll" /\ pc' = "waitAll" /\ slot' = slot + 1
          /\ ~any' => ~any /\ request[slot] = "null"
          /\ UNCHANGED next
      BY <2>6 DEF WaitAllTest, AnyRequest
    <3>2. ScanIsSound'
      <4> SUFFICES ASSUME ~any', NEW t \in Slot, t < slot'
                   PROVE  request'[t] = "null"
        BY DEF ScanIsSound
      <4>1. request[t] = "null"
        BY <1>t, <2>1, <3>1 DEF Inv, ScanIsSound, TypeOK, Slot
      <4> QED BY <1>t, <2>1, <4>1 DEF TypeOK
    <3>3. Ending'
      BY <3>1 DEF Inv, Ending
    <3> QED BY <2>3, <2>4, <3>2, <3>3 DEF Inv
  <2> QED BY <1>5, <2>5, <2>6
<1>6. CASE Ended \/ UNCHANGED vars
  <2>1. UNCHANGED vars
    BY <1>6 DEF Ended
  <2>2. TypeOK' /\ ScanIsSound' /\ Ending'
    BY <2>1 DEF vars, Inv, TypeOK, ScanIsSound, Ending
  <2>3. WireInSlots' /\ Accounted' /\ DeliveredIntact'
    BY <2>1, Undisturbed DEF vars
  <2> QED BY <2>2, <2>3 DEF Inv
<1> QED BY <1>1, <1>2, <1>3, <1>4, <1>5, <1>6 DEF Next, Thread

LEMMA Invariance == Spec => []Inv
BY InvInit, InvNext, PTL DEF Spec
----------------------------------------------------------------------------

\* Every variable of the sending lane stays in its type.
THEOREM TypeCorrect == Spec => []TypeOK
<1>1. Inv => TypeOK
  BY DEF Inv
<1> QED BY Invariance, <1>1, PTL

\* The receiver reads every frame as it was, however late it reads the
\* slot's buffer.
THEOREM FramesIntact == Spec => []DeliveredIntact
<1>1. Inv => DeliveredIntact
  BY DEF Inv
<1> QED BY Invariance, <1>1, PTL

\* The done frame comes after the last frame has been read and the last
\* request has been released.
THEOREM DoneComesLast == Spec => []DoneAfterAll
<1>1. Inv => DoneAfterAll
  <2> SUFFICES ASSUME Inv, pc \in {"done", "finished"}
               PROVE  /\ {d[1] : d \in delivered} = Frame
                      /\ wire = <<>>
                      /\ \A s \in Slot : request[s] = "null"
    BY DEF DoneAfterAll
  <2>1. next = Total + 1 /\ \A s \in Slot : request[s] = "null"
    BY DEF Inv, Ending
  <2>2. wire \in Seq(Frame \X Slot) /\ Len(wire) \in Nat
    BY LenProperties DEF Inv, TypeOK
  <2>3. wire = <<>>
    <3> SUFFICES ASSUME wire # <<>> PROVE FALSE
      OBVIOUS
    <3>1. Len(wire) # 0
      BY <2>2, EmptySeq
    <3>2. 1 \in 1..Len(wire) /\ wire[1] \in Frame \X Slot
      BY <2>2, <3>1, ElementOfSeq
    <3> QED BY <2>1, <3>2 DEF Inv, WireInSlots
  <2>4. \A f \in Frame : \E d \in delivered : d[1] = f
    <3>1. Len(wire) = 0 /\ Frame = 1..next-1
      BY <2>1, <2>3, EmptySeq DEF Frame
    <3> QED BY <3>1 DEF Inv, Accounted
  <2>5. \A d \in delivered : d[1] \in Frame
    BY DEF Inv, TypeOK
  <2>6. {d[1] : d \in delivered} = Frame
    BY <2>4, <2>5
  <2> QED BY <2>1, <2>3, <2>6
<1> QED BY Invariance, <1>1, PTL
----------------------------------------------------------------------------
(* What the other end relies on (LaneProofs).                              *)

\* The frames on the wire.
Announced == {wire[i][1] : i \in 1..Len(wire)}

\* Frames are announced in order, each once, and only those not copied.
WireInOrder ==
    /\ \A i \in 1..Len(wire) : wire[i][1] \in (1..next-1) \ Whole
    /\ \A i, j \in 1..Len(wire) : i < j => wire[i][1] < wire[j][1]

\* A frame was sent when there was a slot for it: one that no older frame,
\* still on the wire, occupies.
HadASlot ==
    \A f \in 1..next-1 :
        \E s \in Slot : ~(request[s] = "announced" /\ buffer[s] < f)

LEMMA AnnouncedHere ==
    ASSUME Inv
    PROVE  /\ Len(wire) \in Nat
           /\ \A i \in 1..Len(wire) : /\ wire[i] \in Frame \X Slot
                                      /\ wire[i][1] \in Frame /\ wire[i][2] \in Slot
           /\ Announced \subseteq Frame
<1>1. Len(wire) \in Nat /\ \A i \in 1..Len(wire) : wire[i] \in Frame \X Slot
  BY LenProperties, ElementOfSeq DEF Inv, TypeOK
<1> QED BY <1>1 DEF Announced

\* What is read is no longer on the wire; the rest keeps its order.
LEMMA ReadTakes ==
    ASSUME Inv, WireInOrder, NEW i \in 1..Len(wire), ReadAt(i)
    PROVE  Announced' = Announced \ {wire[i][1]} /\ WireInOrder'
<1> DEFINE Old(k) == IF k < i THEN k ELSE k + 1
<1>1. Len(wire) \in Nat
  BY AnnouncedHere
<1>2. Len(wire') = Len(wire) - 1 /\ \A k \in 1..Len(wire') : wire'[k] = wire[Old(k)]
  BY WithoutAt DEF ReadAt, Inv, TypeOK
<1>3. /\ \A k \in 1..Len(wire') : Old(k) \in 1..Len(wire) /\ Old(k) # i
      /\ \A j, k \in 1..Len(wire') : j < k => Old(j) < Old(k)
  BY <1>1, <1>2
<1>4. ASSUME NEW j \in 1..Len(wire), j # i PROVE \E k \in 1..Len(wire') : Old(k) = j
  <2>1. CASE j < i
    <3>1. j \in 1..Len(wire') /\ Old(j) = j
      BY <1>1, <1>2, <2>1
    <3> QED BY <3>1
  <2>2. CASE j > i
    <3>1. j - 1 \in 1..Len(wire') /\ Old(j - 1) = j
      BY <1>1, <1>2, <2>2
    <3> QED BY <3>1
  <2> QED BY <1>1, <1>4, <2>1, <2>2
<1> HIDE DEF Old
<1>5. \A j \in 1..Len(wire) : j # i => wire[j][1] # wire[i][1]
  <2> SUFFICES ASSUME NEW j \in 1..Len(wire), j # i PROVE wire[j][1] # wire[i][1]
    OBVIOUS
  <2>1. wire[i][1] \in Int /\ wire[j][1] \in Int
    BY AnnouncedHere DEF Frame
  <2>2. CASE j < i
    BY <2>1, <2>2 DEF WireInOrder
  <2>3. CASE i < j
    BY <2>1, <2>3 DEF WireInOrder
  <2> QED BY <1>1, <2>2, <2>3
<1>6. Announced' = Announced \ {wire[i][1]}
  <2>1. \A f \in Announced' : f \in Announced /\ f # wire[i][1]
    BY <1>2, <1>3, <1>5 DEF Announced
  <2>2. \A f \in Announced : f # wire[i][1] => f \in Announced'
    <3> SUFFICES ASSUME NEW j \in 1..Len(wire), wire[j][1] # wire[i][1]
                 PROVE  wire[j][1] \in Announced'
      BY DEF Announced
    <3>1. PICK k \in 1..Len(wire') : Old(k) = j
      BY <1>4
    <3>2. wire'[k][1] = wire[j][1]
      BY <1>2, <3>1
    <3> QED BY <3>2 DEF Announced
  <2> QED BY <2>1, <2>2
<1>7. WireInOrder'
  <2>1. next' = next
    BY DEF ReadAt
  <2>2. \A k \in 1..Len(wire') : wire'[k][1] \in (1..next'-1) \ Whole
    BY <1>2, <1>3, <2>1 DEF WireInOrder
  <2>3. ASSUME NEW j \in 1..Len(wire'), NEW k \in 1..Len(wire'), j < k
        PROVE  wire'[j][1] < wire'[k][1]
    BY <1>2, <1>3, <2>3 DEF WireInOrder
  <2> QED BY <2>2, <2>3 DEF WireInOrder
<1> QED BY <1>6, <1>7

\* A frame is sent: it goes on the wire, after the others, unless it is copied.
LEMMA SendPuts ==
    ASSUME Inv, WireInOrder, HadASlot, NEW s \in Slot, SendFrame(s)
    PROVE  /\ Announced' = Announced \cup ({next} \ Whole)
           /\ WireInOrder' /\ HadASlot'
<1>1. /\ next \in 1..Total /\ next' = next + 1
      /\ buffer' = [buffer EXCEPT ![s] = next]
      /\ \/ next \in Whole /\ UNCHANGED <<request, wire>>
         \/ /\ next \notin Whole
            /\ request' = [request EXCEPT ![s] = "announced"]
            /\ wire' = Append(wire, <<next, s>>)
  BY DEF SendFrame, MoreChunks, Announce, Inv, TypeOK
<1>2. \A f \in 1..next'-1 : f \in 1..next-1 \/ f = next
  BY <1>1
<1>3. /\ buffer'[s] = next
      /\ \A t \in Slot : t # s => buffer'[t] = buffer[t] /\ request'[t] = request[t]
  BY <1>1 DEF Inv, TypeOK
<1>4. HadASlot'
  <2> SUFFICES ASSUME NEW f \in 1..next'-1
               PROVE  \E t \in Slot : ~(request'[t] = "announced" /\ buffer'[t] < f)
    BY DEF HadASlot
  <2>1. ~(next < f)
    BY <1>1, <1>2
  <2>2. ~(buffer'[s] < f)
    BY <1>3, <2>1
  <2> QED BY <2>2
<1>5. CASE next \in Whole /\ UNCHANGED wire
  <2>1. Announced' = Announced
    BY <1>5 DEF Announced
  <2>2. WireInOrder'
    BY <1>1, <1>5 DEF WireInOrder
  <2> QED BY <1>4, <1>5, <2>1, <2>2
<1>6. CASE next \notin Whole /\ wire' = Append(wire, <<next, s>>)
  <2>1. /\ Len(wire) \in Nat /\ Len(wire') = Len(wire) + 1
        /\ \A i \in 1..Len(wire) : wire'[i] = wire[i]
        /\ wire'[Len(wire) + 1] = <<next, s>>
    <3>1. wire \in Seq(Frame \X Slot) /\ <<next, s>> \in Frame \X Slot
      BY <1>1 DEF Inv, TypeOK, Frame
    <3> QED BY <1>6, <3>1, AppendProperties, LenProperties
  <2>2. \A i \in 1..Len(wire') : i \in 1..Len(wire) \/ i = Len(wire) + 1
    BY <2>1
  <2>3. wire'[Len(wire) + 1][1] = next /\ Len(wire) + 1 \in 1..Len(wire')
    BY <2>1
  <2>4. \A f : f \in Announced' <=> f \in Announced \/ f = next
    <3>1. ASSUME NEW f \in Announced' PROVE f \in Announced \/ f = next
      <4>1. PICK i \in 1..Len(wire') : f = wire'[i][1]
        BY DEF Announced
      <4>2. CASE i \in 1..Len(wire)
        BY <2>1, <4>1, <4>2 DEF Announced
      <4>3. CASE i = Len(wire) + 1
        BY <2>3, <4>1, <4>3
      <4> QED BY <2>2, <4>2, <4>3
    <3>2. ASSUME NEW f \in Announced PROVE f \in Announced'
      <4>1. PICK i \in 1..Len(wire) : f = wire[i][1]
        BY DEF Announced
      <4>2. i \in 1..Len(wire') /\ wire'[i][1] = f
        BY <2>1, <4>1
      <4> QED BY <4>2 DEF Announced
    <3>3. next \in Announced'
      BY <2>3 DEF Announced
    <3> QED BY <3>1, <3>2, <3>3
  <2>5. WireInOrder'
    <3>1. \A i \in 1..Len(wire) : /\ wire[i][1] \in (1..next-1) \ Whole
                                  /\ wire[i][1] \in (1..next'-1) \ Whole
                                  /\ wire[i][1] < next
      BY <1>1 DEF WireInOrder
    <3>2. ASSUME NEW i \in 1..Len(wire') PROVE wire'[i][1] \in (1..next'-1) \ Whole
      BY <1>1, <1>6, <2>1, <2>2, <2>3, <3>1
    <3>3. ASSUME NEW i \in 1..Len(wire'), NEW j \in 1..Len(wire'), i < j
          PROVE  wire'[i][1] < wire'[j][1]
      <4>1. i \in 1..Len(wire) /\ wire'[i] = wire[i]
        BY <2>1, <3>3
      <4>2. CASE j \in 1..Len(wire)
        BY <2>1, <3>3, <4>1, <4>2 DEF WireInOrder
      <4>3. CASE j = Len(wire) + 1
        BY <2>3, <3>1, <4>1, <4>3
      <4> QED BY <2>2, <4>2, <4>3
    <3> QED BY <3>2, <3>3 DEF WireInOrder
  <2> QED BY <1>4, <1>6, <2>4, <2>5
<1> QED BY <1>1, <1>5, <1>6

\* No other step of the thread, or of its worker, touches the wire.
LEMMA OthersLeave ==
    ASSUME Inv, \/ Thread /\ ~(\E s \in Slot : SendFrame(s))
                \/ \E s \in Slot : Complete(s)
                \/ Ended \/ UNCHANGED vars
    PROVE  /\ UNCHANGED <<next, wire>>
           /\ WireInOrder => WireInOrder'
           /\ HadASlot => HadASlot'
<1>t. TypeOK
  BY DEF Inv
<1>1. /\ UNCHANGED <<next, wire>>
      /\ \A t \in Slot : \/ request'[t] # "announced"
                         \/ request[t] = "announced" /\ buffer'[t] = buffer[t]
  <2>1. CASE \E s \in Slot : SendFrameFails(s)
    <3> PICK s \in Slot : SendFrameFails(s)
      BY <2>1
    <3>1. /\ request[s] = "null" /\ buffer' = [buffer EXCEPT ![s] = next]
          /\ UNCHANGED <<next, wire, request>>
      BY DEF SendFrameFails, FreeSlot, IsFree
    <3> QED BY <1>t, <3>1 DEF TypeOK
  <2>2. CASE \E s \in Slot : Complete(s)
    <3> PICK s \in Slot : Complete(s)
      BY <2>2
    <3>1. /\ request' = [request EXCEPT ![s] = "complete"]
          /\ UNCHANGED <<next, wire, buffer>>
      BY DEF Complete
    <3> QED BY <1>t, <3>1 DEF TypeOK
  <2>3. CASE WaitOneTest \/ WaitAllTest
    <3>1. /\ UNCHANGED <<next, wire, buffer>>
          /\ request' = request \/ request' = [request EXCEPT ![slot] = "null"]
      BY <2>3 DEF WaitOneTest, WaitAllTest, Release
    <3> QED BY <1>t, <3>1 DEF TypeOK
  <2>4. CASE SendMeta \/ CallWaitForOne \/ WaitOneProgress \/ CallWaitForAll
             \/ WaitAllEnd \/ EndProgress \/ SendDone \/ Ended \/ UNCHANGED vars
    <3>1. UNCHANGED <<next, wire, buffer, request>>
      BY <2>4 DEF SendMeta, CallWaitForOne, WaitOneProgress, CallWaitForAll,
                  WaitAllEnd, EndProgress, SendDone, Ended, vars
    <3> QED BY <3>1
  <2> QED BY <2>1, <2>2, <2>3, <2>4 DEF Thread
<1> QED BY <1>1 DEF WireInOrder, HadASlot

Ordered == WireInOrder /\ HadASlot

LEMMA OrderedInit == Init => Ordered
<1> SUFFICES ASSUME Init PROVE Ordered
  OBVIOUS
<1>1. Len(wire) = 0 /\ next = 1
  BY EmptySeq DEF Init
<1> QED BY <1>1 DEF Ordered, WireInOrder, HadASlot

LEMMA OrderedNext == Inv /\ Ordered /\ [Next]_vars => Ordered'
<1> SUFFICES ASSUME Inv, WireInOrder, HadASlot, [Next]_vars
             PROVE  WireInOrder' /\ HadASlot'
  BY DEF Ordered
<1>1. CASE Receiver
  <2> PICK i \in 1..Len(wire) : ReadAt(i)
    BY <1>1 DEF Receiver, Read
  <2>1. WireInOrder'
    BY ReadTakes
  <2>2. wire[i][2] \in Slot
    BY AnnouncedHere
  <2>3. \A t \in Slot : request'[t] = "announced" => request[t] = "announced"
    BY <2>2 DEF ReadAt, Inv, TypeOK
  <2>4. HadASlot'
    BY <2>3 DEF ReadAt, HadASlot
  <2> QED BY <2>1, <2>4
<1>2. CASE \E s \in Slot : SendFrame(s)
  BY <1>2, SendPuts
<1>3. CASE ~Receiver /\ ~(\E s \in Slot : SendFrame(s))
  BY <1>3, OthersLeave DEF Next
<1> QED BY <1>1, <1>2, <1>3

\* Frames on the wire that are not in slot s are fewer than the slots.
LEMMA FewElsewhere ==
    ASSUME Inv, NEW s \in Slot, NEW F, F \subseteq Announced,
           request[s] # "announced" \/ buffer[s] \notin F
    PROVE  IsFiniteSet(F) /\ Cardinality(F) < Depth
<1> DEFINE others == Slot \ {s}
           at == [g \in F |-> CHOOSE t \in Slot : request[t] = "announced" /\ buffer[t] = g]
<1>2. \A g \in F : at[g] \in Slot /\ request[at[g]] = "announced" /\ buffer[at[g]] = g
  <2> SUFFICES ASSUME NEW g \in F
               PROVE  \E t \in Slot : request[t] = "announced" /\ buffer[t] = g
    OBVIOUS
  <2>1. PICK i \in 1..Len(wire) : wire[i][1] = g
    BY DEF Announced
  <2> QED BY <2>1, AnnouncedHere DEF Inv, WireInSlots
<1>3. \A g \in F : at[g] \in others
  BY <1>2
<1>4. at \in [F -> others]
  BY <1>3
<1> HIDE DEF at, others
<1>5. at \in Injection(F, others)
  BY <1>2, <1>4 DEF Injection, IsInjective
<1>6. IsFiniteSet(others) /\ Cardinality(others) = Depth - 1
  <2>1. IsFiniteSet(Slot) /\ Cardinality(Slot) = Depth
    BY FS_Interval DEF Slot
  <2> QED BY <2>1, FS_RemoveElement DEF others
<1>7. IsFiniteSet(F) /\ Cardinality(F) <= Depth - 1
  BY <1>5, <1>6, FS_Injection
<1>8. Cardinality(F) \in Nat
  BY <1>7, FS_CardinalityType
<1> QED BY <1>7, <1>8

\* So are those older than a frame sent, which had a slot none of them is in;
LEMMA FewOlder ==
    ASSUME Inv, Ordered, NEW f \in 1..next-1, NEW F,
           F \subseteq Announced, \A g \in F : g < f
    PROVE  IsFiniteSet(F) /\ Cardinality(F) < Depth
<1>1. PICK s \in Slot : ~(request[s] = "announced" /\ buffer[s] < f)
  BY DEF Ordered, HadASlot
<1>2. request[s] # "announced" \/ buffer[s] \notin F
  BY <1>1
<1> QED BY <1>2, FewElsewhere

\* and all of them, when a slot is free.
LEMMA RoomForOne ==
    ASSUME Inv, NEW s \in Slot, request[s] = "null"
    PROVE  Cardinality(Announced) < Depth
BY FewElsewhere

\* A sender that has sent the done frame has nothing on the wire.
LEMMA EmptyAtTheEnd ==
    ASSUME Inv, pc \in {"done", "finished"}
    PROVE  next = Total + 1 /\ Announced = {}
<1>1. next = Total + 1 /\ \A s \in Slot : request[s] = "null"
  BY DEF Inv, Ending
<1>2. \A i \in 1..Len(wire) : wire[i][2] \in Slot /\ request[wire[i][2]] = "announced"
  BY AnnouncedHere DEF Inv, WireInSlots
<1> QED BY <1>1, <1>2 DEF Announced
----------------------------------------------------------------------------
(* The lane is a window of Depth sends.                                    *)

\* The frames sent and not retired are in different slots.
FewInSlots == (next - 1) - Cardinality(Retired) <= Depth

LEMMA FewOpen == TypeOK => FewInSlots
<1> SUFFICES ASSUME TypeOK PROVE FewInSlots
  OBVIOUS
<1> DEFINE sent == 1..next-1
           open == sent \ Retired
           at == [f \in open |-> CHOOSE s \in Slot : buffer[s] = f]
<1>1. next \in 1..Total+1 /\ Retired \subseteq sent
  BY DEF TypeOK, Retired
<1>2. IsFiniteSet(sent) /\ Cardinality(sent) = next - 1
  <2>1. 1 \in Int /\ next - 1 \in Int
    BY <1>1
  <2> QED BY <1>1, <2>1, FS_Interval
<1>3. IsFiniteSet(Slot) /\ Cardinality(Slot) = Depth
  BY FS_Interval DEF Slot
<1>4. \A f \in open : at[f] \in Slot /\ buffer[at[f]] = f
  BY DEF Retired
<1> HIDE DEF at
<1>5. at \in Injection(open, Slot)
  <2>1. at \in [open -> Slot]
    BY <1>4 DEF at
  <2> QED BY <1>4, <2>1 DEF Injection, IsInjective
<1>6. Cardinality(open) <= Depth
  BY <1>3, <1>5, FS_Injection
<1> HIDE DEF sent
<1>7. Cardinality(open) = Cardinality(sent) - Cardinality(Retired)
  <2>1. sent \cap Retired = Retired
    BY <1>1
  <2>2. Cardinality(sent \ Retired) = Cardinality(sent) - Cardinality(sent \cap Retired)
    BY <1>2, FS_Difference
  <2> QED BY <2>1, <2>2
<1>8. Cardinality(open) = (next - 1) - Cardinality(Retired)
  BY <1>2, <1>7
<1> QED BY <1>6, <1>8 DEF FewInSlots

LEMMA OneLess ==
    ASSUME NEW a \in Int, NEW b \in Int, NEW n \in Int, a <= b, b <= n + 1
    PROVE  b - 1 \in (a - 1)..n
OBVIOUS

\* What makes a step one of a window.
LEMMA MovesOne ==
    ASSUME TypeOK, TypeOK', next <= next',
           Retired \subseteq Retired', FewInSlots'
    PROVE  Window!Moves
<1>1. Retired' \in SUBSET (1..next'-1)
  BY DEF Retired
<1>2. next' - 1 \in (next - 1)..Total
  <2>1. next \in 1..Total+1 /\ next' \in 1..Total+1
    BY DEF TypeOK
  <2>2. /\ next \in Int /\ next' \in Int
        /\ next' <= Total + 1
    BY <2>1
  <2>3. \A a, b, n \in Int : a <= b /\ b <= n + 1 => b - 1 \in (a - 1)..n
    BY OneLess
  <2>4. Total \in Int
    OBVIOUS
  <2> QED BY <2>2, <2>3, <2>4, Zenon
<1>3. Window!Cardinality(Retired') = Cardinality(Retired')
  BY DEF Window!Cardinality, Cardinality
<1> QED BY <1>1, <1>2, <1>3 DEF Window!Moves, FewInSlots

\* A slot gets a request only together with the next frame.
LEMMA StaysRetired ==
    ASSUME TypeOK, next' \in {next, next + 1},
           \A s \in Slot : \/ request'[s] = "null"
                           \/ request[s] # "null" /\ buffer'[s] = buffer[s]
                           \/ buffer'[s] = next
    PROVE  Retired \subseteq Retired'
<1> SUFFICES ASSUME NEW f \in Retired PROVE f \in Retired'
  OBVIOUS
<1>1. f \in 1..next-1 /\ \A s \in Slot : request[s] = "null" \/ buffer[s] # f
  BY DEF Retired
<1>2. f \in 1..next'-1 /\ f # next
  BY <1>1 DEF TypeOK
<1>3. \A s \in Slot : request'[s] = "null" \/ buffer'[s] # f
  BY <1>1, <1>2
<1> QED BY <1>2, <1>3 DEF Retired

LEMMA Onward ==
    ASSUME Inv, Next
    PROVE  Retired \subseteq Retired' /\ next' \in {next, next + 1}
<1>t. TypeOK
  BY DEF Inv
<1>1. CASE Receiver
  <2> PICK i \in 1..Len(wire) : ReadAt(i)
    BY <1>1 DEF Receiver, Read
  <2>1. wire[i][2] \in Slot /\ request[wire[i][2]] = "announced"
    BY <1>t, ElementOfSeq DEF Inv, WireInSlots, TypeOK
  <2>2. /\ request' = [request EXCEPT ![wire[i][2]] = "read"]
        /\ UNCHANGED <<next, buffer>>
    BY DEF ReadAt
  <2>3. \A s \in Slot : request'[s] # "null" => request[s] # "null"
    BY <1>t, <2>1, <2>2 DEF TypeOK
  <2> QED BY <1>t, <2>2, <2>3, StaysRetired
<1>2. CASE \E s \in Slot : Complete(s)
  BY <1>t, <1>2, StaysRetired DEF Complete, TypeOK
<1>3. CASE \E s \in Slot : SendFrame(s)
  <2> PICK s \in Slot : SendFrame(s)
    BY <1>3
  <2>1. /\ next' = next + 1 /\ buffer' = [buffer EXCEPT ![s] = next]
        /\ request' = request \/ request' = [request EXCEPT ![s] = "announced"]
    BY DEF SendFrame, Announce
  <2>2. /\ buffer'[s] = next
        /\ \A r \in Slot : r # s => buffer'[r] = buffer[r] /\ request'[r] = request[r]
    BY <1>t, <2>1 DEF TypeOK
  <2> QED BY <1>t, <2>1, <2>2, StaysRetired
<1>4. CASE \E s \in Slot : SendFrameFails(s)
  <2> PICK s \in Slot : SendFrameFails(s)
    BY <1>4
  <2>1. buffer' = [buffer EXCEPT ![s] = next] /\ UNCHANGED <<next, request>>
    BY DEF SendFrameFails
  <2>2. /\ buffer'[s] = next
        /\ \A r \in Slot : r # s => buffer'[r] = buffer[r]
    BY <1>t, <2>1 DEF TypeOK
  <2> QED BY <1>t, <2>1, <2>2, StaysRetired
<1>5. CASE WaitOneTest \/ WaitAllTest
  <2>1. /\ UNCHANGED <<next, buffer>>
        /\ request' = request \/ request' = [request EXCEPT ![slot] = "null"]
    BY <1>5 DEF WaitOneTest, WaitAllTest, Release
  <2>2. \A s \in Slot : request'[s] # "null" => request[s] # "null"
    BY <1>t, <2>1 DEF TypeOK
  <2> QED BY <1>t, <2>1, <2>2, StaysRetired
<1>6. CASE SendMeta \/ CallWaitForOne \/ WaitOneProgress \/ CallWaitForAll
           \/ WaitAllEnd \/ EndProgress \/ SendDone \/ Ended
  <2>1. UNCHANGED <<next, buffer, request>>
    BY <1>6 DEF SendMeta, CallWaitForOne, WaitOneProgress, CallWaitForAll,
                WaitAllEnd, EndProgress, SendDone, Ended, vars
  <2> QED BY <1>t, <2>1, StaysRetired
<1> QED BY <1>1, <1>2, <1>3, <1>4, <1>5, <1>6 DEF Next, Thread

LEMMA StepsInWindow ==
    Inv /\ Inv' /\ [Next]_vars => [Window!Advance \/ Window!Fail]_(Window!wvars)
<1> SUFFICES ASSUME Inv, Inv', [Next]_vars
             PROVE  Window!Advance \/ Window!Fail \/ UNCHANGED Window!wvars
  OBVIOUS
<1>1. CASE UNCHANGED vars
  BY <1>1 DEF vars, Window!wvars, Retired
<1>2. CASE Next
  <2>1. TypeOK /\ TypeOK'
    BY DEF Inv
  <2>2. FewInSlots'
    BY <2>1, FewOpen, PTL
  <2>3. Window!Moves
    <3>1. Retired \subseteq Retired' /\ next' \in {next, next + 1} /\ next \in Int
      BY <1>2, <2>1, Onward DEF TypeOK
    <3>2. next <= next'
      BY <3>1
    <3> QED BY <2>1, <2>2, <3>1, <3>2, MovesOne
  <2>4. CASE pc # "failed"
    BY <2>3, <2>4 DEF Window!Advance, Window!Fail
  <2>5. CASE pc = "failed"
    <3>1. UNCHANGED <<pc, next, buffer>> /\ (Receiver \/ UNCHANGED request)
      BY <1>2, <2>5 DEF Next, Receiver, Read, ReadAt, Complete, Progressing, Thread, SendMeta,
            SendFrame, SendFrameFails, CallWaitForOne, WaitOneTest, WaitOneProgress,
            CallWaitForAll, WaitAllTest, WaitAllEnd, EndProgress, SendDone, Ended, vars
    <3>2. \A s \in Slot : request'[s] = "null" <=> request[s] = "null"
      <4>1. CASE Receiver
        <5> PICK i \in 1..Len(wire) : ReadAt(i)
          BY <4>1 DEF Receiver, Read
        <5>1. wire[i][2] \in Slot /\ request[wire[i][2]] = "announced"
          BY <2>1, ElementOfSeq DEF Inv, WireInSlots, TypeOK
        <5>2. request' = [request EXCEPT ![wire[i][2]] = "read"]
          BY DEF ReadAt
        <5> QED BY <2>1, <5>1, <5>2 DEF TypeOK
      <4> QED BY <3>1, <4>1
    <3>3. Retired' = Retired
      BY <3>1, <3>2 DEF Retired
    <3> QED BY <3>1, <3>3 DEF Window!wvars
  <2> QED BY <2>4, <2>5
<1> QED BY <1>1, <1>2

\* Frames are sent in order, each is retired once, and at most Depth are in
\* slots that are not free, also when a chunk cannot be read: the safety of
\* ImplementsWindow.
THEOREM WindowRespected ==
    Spec => Window!Init /\ [][Window!Advance \/ Window!Fail]_(Window!wvars)
<1>1. Init => Window!Init
  BY DEF Init, Window!Init, Retired
<1> QED BY <1>1, Invariance, StepsInWindow, PTL DEF Spec
=============================================================================
