--------------------------- MODULE TransferProofs ---------------------------
(***************************************************************************)
(* Proofs about a transfer for any lanes, chunks, assignment, depths and   *)
(* number of faults.                                                       *)
(*                                                                         *)
(* The receiver only counts chunks.  That the right count means the right  *)
(* file rests on this: a frame is in flight, in a slot of the receiver or  *)
(* processed, one after the other and once (Lifecycle); the counter is the *)
(* number of frames processed (CountIsExact); and the file holds the bytes *)
(* of exactly those frames (FileIsProcessed).  There are as many frames as *)
(* chunks, so when the count is complete every frame has been processed.   *)
(***************************************************************************)
EXTENDS Transfer, FiniteSetTheorems, TLAPS

Arrived == landing \cup processed

\* A frame that has been announced is in one of three places.
Lifecycle ==
    /\ \A f \in Frame : f \in flight \cup Arrived <=> f[2] < next[f[1]]
    /\ flight \cap Arrived = {}
    /\ landing \cap processed = {}

\* What its bytes are in the sender's slot and in the receiver's.
BytesOnTheWay ==
    /\ \A f \in flight \cup Arrived : sent[f] \in Content
    /\ \A f \in Arrived : got[f] \in Data

\* Nothing arrives before the metadata gate has been passed.
Gate ==
    ~metaReady => /\ \A l \in Lanes : rpc[l] \in {"meta", "failed"}
                  /\ Arrived = {}

\* The file holds the bytes of the frames processed and no others.
FileIsProcessed ==
    IF sink THEN \A c \in Chunks : file[c] = "stale"
    ELSE /\ IF metaReady THEN \A c \in Chunks : file[c] # "stale"
                         ELSE \A c \in Chunks : file[c] \in {"stale", "hole"}
         /\ \A f \in processed :
               /\ file[ChunkOf(f)] = got[f]
               /\ ChunkVerify(rverify) => got[f] = sent[f]
         /\ \A f \in Frame \ processed :
               /\ file[ChunkOf(f)] \in {"stale", "hole", "torn"}
               /\ file[ChunkOf(f)] = "torn" => rpc[f[1]] = "failed"

SenderEnds ==
    /\ \A l \in Lanes :
          spc[l] = "finished" =>
              next[l] > Len(Assign[l]) /\ OfLane(l, flight) \subseteq Eager
    /\ sexit = "0" => \A l \in Lanes : spc[l] = "finished"

ReceiverSucceeds ==
    /\ rexit # "running" => \A l \in Lanes : rpc[l] \in {"finished", "failed"}
    /\ rexit = "0" =>
          /\ metaReady
          /\ received = Cardinality(Chunks)
          /\ FileVerify(rverify) /\ ~sink => \A c \in Chunks : file[c] = "old"

Inv ==
    /\ TypeOK
    /\ Lifecycle
    /\ BytesOnTheWay
    /\ Gate
    /\ CountIsExact
    /\ FileIsProcessed
    /\ SenderEnds
    /\ ReceiverSucceeds
----------------------------------------------------------------------------
(* Frames.                                                                 *)

LEMMA FrameParts ==
    ASSUME NEW f \in Frame
    PROVE  /\ f[1] \in Lanes /\ f[2] \in 1..Len(Assign[f[1]])
           /\ f = <<f[1], f[2]>>
           /\ ChunkOf(f) \in Chunks
<1>1. PICK l \in Lanes : f \in {l} \X DOMAIN Assign[l]
  BY DEF Frame
<1>2. Assign[l] \in Seq(Chunks)
  BY AssignAssumption
<1>3. f[1] = l /\ f[2] \in DOMAIN Assign[l] /\ f = <<f[1], f[2]>>
  BY <1>1
<1>4. DOMAIN Assign[l] = 1..Len(Assign[l])
  BY <1>2
<1> QED BY <1>2, <1>3, <1>4 DEF ChunkOf

LEMMA FrameOf ==
    ASSUME NEW l \in Lanes, NEW i \in Nat \ {0}, i <= Len(Assign[l])
    PROVE  <<l, i>> \in Frame
<1>1. Assign[l] \in Seq(Chunks)
  BY AssignAssumption
<1>2. i \in DOMAIN Assign[l]
  BY <1>1
<1> QED BY <1>2 DEF Frame

\* There are as many frames as chunks.
LEMMA FrameCount ==
    IsFiniteSet(Frame) /\ Cardinality(Frame) = Cardinality(Chunks)
<1> DEFINE carries == [f \in Frame |-> ChunkOf(f)]
<1>1. carries \in [Frame -> Chunks]
  BY FrameParts
<1>2. carries \in Injection(Frame, Chunks)
  BY <1>1, AssignAssumption DEF Injection, IsInjective
<1>3. carries \in Surjection(Frame, Chunks)
  BY <1>1, AssignAssumption DEF Surjection
<1> HIDE DEF carries
<1> QED BY <1>2, <1>3, ChunksAssumption, FS_Injection

\* The counter of a set of frames is bounded, and complete only for all.
LEMMA CountBound ==
    ASSUME NEW S, S \subseteq Frame
    PROVE  /\ IsFiniteSet(S) /\ Cardinality(S) \in 0..Cardinality(Chunks)
           /\ Cardinality(S) = Cardinality(Chunks) => S = Frame
BY FrameCount, FS_Subset, FS_CardinalityType
----------------------------------------------------------------------------
LEMMA InitInv == Init => Inv
<1> SUFFICES ASSUME Init PROVE Inv
  OBVIOUS
<1>1. TypeOK
  <2>1. 0 \in 0..Cardinality(Chunks) /\ 0 \in 0..MaxFaults
    BY ChunksAssumption, MaxFaultsAssumption, FS_CardinalityType
  <2>2. /\ sverify \in Verify /\ rverify \in Verify /\ sink \in BOOLEAN
        /\ source \in [Chunks -> Content]
        /\ faults \in 0..MaxFaults
    BY <2>1 DEF Init, Content
  <2>3. /\ spc \in [Lanes -> {"connect", "send", "finished", "failed"}]
        /\ next \in [Lanes -> Nat \ {0}]
        /\ sexit \in {"running", "0", "2"}
        /\ rpc \in [Lanes -> {"meta", "receive", "finished", "failed"}]
    BY DEF Init
  <2>4. /\ sent \in [Frame -> Content \cup {"none"}]
        /\ got \in [Frame -> Data \cup {"none"}]
        /\ flight \subseteq Frame /\ landing \subseteq Frame
        /\ processed \subseteq Frame
        /\ posted \in [Lanes -> Nat] /\ atOnce \subseteq landing
        /\ \A l \in Lanes : posted[l] <= Len(Assign[l])
    BY AssignAssumption DEF Init
  <2>5. /\ metaReady \in BOOLEAN
        /\ file \in [Chunks -> Data \cup {"stale", "hole", "torn"}]
        /\ received \in 0..Cardinality(Chunks)
        /\ sha \in {"unchecked", "match", "mismatch"}
        /\ rexit \in {"running", "0", "1", "2"}
    BY <2>1 DEF Init
  <2> QED BY <2>2, <2>3, <2>4, <2>5 DEF TypeOK
<1>2. Lifecycle
  <2>1. \A f \in Frame : ~(f[2] < next[f[1]])
    BY FrameParts DEF Init
  <2> QED BY <2>1 DEF Init, Lifecycle, Arrived
<1>3. CountIsExact
  BY FS_EmptySet DEF Init, CountIsExact
<1>4. FileIsProcessed
  BY FrameParts DEF Init, FileIsProcessed
<1>5. BytesOnTheWay /\ Gate /\ SenderEnds /\ ReceiverSucceeds
  BY DEF Init, BytesOnTheWay, Gate, SenderEnds, ReceiverSucceeds, Arrived
<1> QED BY <1>1, <1>2, <1>3, <1>4, <1>5 DEF Inv
----------------------------------------------------------------------------
(* The sender's actions.                                                   *)

LEMMA EditSourceInv == ASSUME Inv, NEW c \in Chunks, EditSource(c) PROVE Inv'
<1> USE DEF EditSource, Fault, options, sender, lanes, receiver
<1>1. TypeOK'
  BY MaxFaultsAssumption DEF Inv, TypeOK, Content
<1>2. Lifecycle' /\ BytesOnTheWay' /\ Gate' /\ CountIsExact'
  BY DEF Inv, Lifecycle, BytesOnTheWay, Gate, CountIsExact, Arrived
<1>3. FileIsProcessed'
  BY DEF Inv, FileIsProcessed
<1>4. SenderEnds' /\ ReceiverSucceeds'
  BY DEF Inv, SenderEnds, ReceiverSucceeds
<1> QED BY <1>1, <1>2, <1>3, <1>4 DEF Inv

\* The steps of a sending thread that only change its program counter.
LEMMA SenderPcInv ==
    ASSUME Inv, NEW l \in Lanes, SendMeta(l) \/ SendFrameFails(l) \/ FinishSend(l)
    PROVE  Inv'
<1> USE DEF SendMeta, SendFrameFails, FinishSend, Fault, options, lanes, receiver
<1>1. TypeOK'
  <2>1. \E v \in {"send", "finished", "failed"} : spc' = [spc EXCEPT ![l] = v]
    OBVIOUS
  <2>2. spc' \in [Lanes -> {"connect", "send", "finished", "failed"}]
    <3> HIDE DEF SendMeta, SendFrameFails, FinishSend
    <3> QED BY <2>1 DEF Inv, TypeOK
  <2>3. faults' \in 0..MaxFaults
    BY MaxFaultsAssumption DEF Inv, TypeOK
  <2>4. UNCHANGED <<options, source, next, sexit, lanes, receiver>>
    OBVIOUS
  <2> QED BY <2>2, <2>3, <2>4 DEF Inv, TypeOK
<1>2. Lifecycle' /\ BytesOnTheWay' /\ Gate' /\ CountIsExact'
  BY DEF Inv, Lifecycle, BytesOnTheWay, Gate, CountIsExact, Arrived
<1>3. FileIsProcessed'
  BY DEF Inv, FileIsProcessed
<1>4. SenderEnds'
  BY DEF Inv, TypeOK, SenderEnds, AllComplete, OfLane
<1>5. ReceiverSucceeds'
  BY DEF Inv, ReceiverSucceeds
<1> QED BY <1>1, <1>2, <1>3, <1>4, <1>5 DEF Inv

LEMMA SendFrameInv == ASSUME Inv, NEW l \in Lanes, SendFrame(l) PROVE Inv'
<1> DEFINE f == <<l, next[l]>>
<1>1. /\ sent' = [sent EXCEPT ![f] = source[ChunkOf(f)]]
      /\ flight' = flight \cup {f}
      /\ next' = [next EXCEPT ![l] = next[l] + 1]
      /\ spc[l] = "send"
      /\ UNCHANGED <<options, source, faults, spc, sexit, got, landing, posted,
                     atOnce, receiver>>
  BY DEF SendFrame
<1>2. f \in Frame /\ f[1] = l /\ f[2] = next[l] /\ next[l] \in Nat \ {0}
  BY FrameOf DEF SendFrame, Inv, TypeOK
<1>3. source[ChunkOf(f)] \in Content
  BY <1>2, FrameParts DEF Inv, TypeOK
<1>4. f \notin flight \cup Arrived
  BY <1>2 DEF Inv, Lifecycle
<1> HIDE DEF f
<1>5. TypeOK'
  BY <1>1, <1>2, <1>3 DEF Inv, TypeOK, options, receiver
<1>6. Arrived' = Arrived /\ landing' = landing /\ processed' = processed
  BY <1>1 DEF Arrived, receiver
<1>7. Lifecycle'
  <2> SUFFICES ASSUME NEW g \in Frame
               PROVE  g \in flight' \cup Arrived <=> g[2] < next'[g[1]]
    BY <1>1, <1>4, <1>6 DEF Lifecycle, Inv
  <2>1. g[1] \in Lanes /\ g[2] \in Nat /\ g = <<g[1], g[2]>>
    BY FrameParts
  <2>2. next[g[1]] \in Nat
    BY <2>1 DEF Inv, TypeOK
  <2>3. f = <<l, next[l]>>
    BY DEF f
  <2>4. next'[g[1]] = IF g[1] = l THEN next[l] + 1 ELSE next[g[1]]
    BY <1>1, <2>1 DEF Inv, TypeOK
  <2>5. g = f <=> g[1] = l /\ g[2] = next[l]
    BY <2>1, <2>3
  <2>6. g \in flight \cup Arrived <=> g[2] < next[g[1]]
    BY DEF Inv, Lifecycle
  <2> QED BY <1>1, <1>2, <2>1, <2>2, <2>4, <2>5, <2>6
<1>8. BytesOnTheWay'
  BY <1>1, <1>2, <1>3, <1>4, <1>6 DEF Inv, BytesOnTheWay, Arrived, Lifecycle, TypeOK
<1>9. Gate' /\ CountIsExact'
  BY <1>1, <1>6 DEF Inv, Gate, CountIsExact, receiver
<1>10. FileIsProcessed'
  BY <1>1, <1>2, <1>4 DEF Inv, FileIsProcessed, receiver, options, TypeOK, Arrived
<1>11. SenderEnds'
  BY <1>1, <1>2 DEF Inv, SenderEnds, OfLane, TypeOK
<1>12. ReceiverSucceeds'
  BY <1>1 DEF Inv, ReceiverSucceeds, receiver, options
<1> QED BY <1>5, <1>7, <1>8, <1>9, <1>10, <1>11, <1>12 DEF Inv

LEMMA SenderExitInv == ASSUME Inv, SenderExit PROVE Inv'
<1> USE DEF SenderExit, options, lanes, receiver
<1>1. TypeOK'
  BY DEF Inv, TypeOK
<1>2. Lifecycle' /\ BytesOnTheWay' /\ Gate' /\ CountIsExact'
  BY DEF Inv, Lifecycle, BytesOnTheWay, Gate, CountIsExact, Arrived
<1>3. FileIsProcessed'
  BY DEF Inv, FileIsProcessed
<1>4. SenderEnds' /\ ReceiverSucceeds'
  BY DEF Inv, SenderEnds, ReceiverSucceeds
<1> QED BY <1>1, <1>2, <1>3, <1>4 DEF Inv
----------------------------------------------------------------------------
(* The lanes.                                                              *)

\* A frame of the wire comes into the receiver's slot, the data of another
\* may be damaged, the thread may have posted a receive.
LEMMA LandInv ==
    ASSUME Inv, NEW F, F \subseteq flight, metaReady \/ F = {},
           flight' = flight \ F, landing' = landing \cup F, atOnce' \subseteq landing',
           got' \in [Frame -> Data \cup {"none"}],
           \A f \in Arrived \cup F : got'[f] \in Data,
           \A f \in processed : got'[f] = got[f],
           posted' \in [Lanes -> Nat], \A l \in Lanes : posted'[l] <= Len(Assign[l]),
           faults' \in 0..MaxFaults,
           UNCHANGED <<options, source, sender, sent, receiver>>
    PROVE  Inv'
<1>1. processed' = processed /\ Arrived' = Arrived \cup F /\ F \subseteq Frame
  BY DEF Arrived, receiver, Inv, TypeOK
<1>2. TypeOK'
  BY <1>1 DEF Inv, TypeOK, options, sender, receiver
<1>3. Lifecycle' /\ BytesOnTheWay'
  BY <1>1 DEF Inv, TypeOK, Lifecycle, BytesOnTheWay, Arrived, sender
<1>4. Gate'
  BY <1>1 DEF Inv, Gate, receiver
<1>5. CountIsExact' /\ ReceiverSucceeds'
  BY DEF Inv, CountIsExact, ReceiverSucceeds, receiver, options
<1>6. FileIsProcessed'
  BY <1>1 DEF Inv, TypeOK, FileIsProcessed, receiver, options
<1>7. SenderEnds'
  BY DEF Inv, SenderEnds, sender, OfLane
<1> QED BY <1>2, <1>3, <1>4, <1>5, <1>6, <1>7 DEF Inv

LEMMA FetchInv ==
    ASSUME Inv, NEW f \in Frame,
           FetchIntact(f) \/ FetchWhileClosing(f) \/ FetchFreed(f)
    PROVE  Inv'
<1>1. f \in flight /\ (CanFetch(f) \/ StillFetches(f))
  BY DEF FetchIntact, FetchWhileClosing, FetchFreed, CanFetch, StillFetches,
         HasReceive, Arrives
<1>2. PICK d \in Data : Fetch(f, d)
  <2>1. sent[f] \in Data
    BY <1>1 DEF Inv, BytesOnTheWay, Data
  <2> QED BY <2>1 DEF FetchIntact, FetchWhileClosing, FetchFreed, Data
<1>3. metaReady
  <2>1. rpc[f[1]] = "receive" \/ Arrived # {}
    BY <1>1 DEF CanFetch, Polling, StillFetches, OfLane, Arrived
  <2> QED BY <2>1, FrameParts DEF Inv, Gate
<1>4. /\ got' = [got EXCEPT ![f] = d]
      /\ flight' = flight \ {f} /\ landing' = landing \cup {f}
      /\ UNCHANGED <<options, source, faults, sender, sent, posted, atOnce, receiver>>
  BY <1>2 DEF Fetch
<1>5. got \in [Frame -> Data \cup {"none"}] /\ f \notin processed
      /\ \A g \in Arrived : got[g] \in Data /\ g \in Frame
  BY <1>1 DEF Inv, TypeOK, Lifecycle, BytesOnTheWay, Arrived
<1>6. /\ got' \in [Frame -> Data \cup {"none"}]
      /\ \A g \in Arrived \cup {f} : got'[g] \in Data
      /\ \A g \in processed : got'[g] = got[g]
  BY <1>4, <1>5 DEF Arrived
<1>7. /\ faults' \in 0..MaxFaults /\ posted' \in [Lanes -> Nat]
      /\ atOnce' \subseteq landing'
      /\ \A l \in Lanes : posted'[l] <= Len(Assign[l])
  BY <1>4 DEF Inv, TypeOK
<1> DEFINE F == {f}
<1>8. /\ F \subseteq flight /\ flight' = flight \ F /\ landing' = landing \cup F
      /\ \A g \in Arrived \cup F : got'[g] \in Data
  BY <1>1, <1>4, <1>6
<1> HIDE DEF F
<1> QED BY <1>3, <1>4, <1>6, <1>7, <1>8, LandInv

LEMMA DamageInv == ASSUME Inv, NEW f \in Frame, Damage(f) PROVE Inv'
<1>1. /\ f \in landing /\ got' = [got EXCEPT ![f] = "damaged"]
      /\ UNCHANGED <<options, source, sender, sent, flight, landing, posted,
                     atOnce, receiver>>
      /\ faults' \in 0..MaxFaults
  BY MaxFaultsAssumption DEF Damage, Fault, Inv, TypeOK
<1>2. got \in [Frame -> Data \cup {"none"}] /\ f \notin processed
      /\ \A g \in Arrived : got[g] \in Data /\ g \in Frame
  BY <1>1 DEF Inv, TypeOK, Lifecycle, BytesOnTheWay, Arrived
<1>3. /\ got' \in [Frame -> Data \cup {"none"}]
      /\ \A g \in Arrived \cup {} : got'[g] \in Data
      /\ \A g \in processed : got'[g] = got[g]
  BY <1>1, <1>2 DEF Arrived, Data
<1>4. /\ posted' \in [Lanes -> Nat] /\ atOnce' \subseteq landing'
      /\ \A l \in Lanes : posted'[l] <= Len(Assign[l])
      /\ flight' = flight \ {} /\ landing' = landing \cup {}
  BY <1>1 DEF Inv, TypeOK
<1> DEFINE F == {}
<1>5. /\ F \subseteq flight /\ flight' = flight \ F /\ landing' = landing \cup F
      /\ \A g \in Arrived \cup F : got'[g] \in Data
      /\ F = {}
  BY <1>3, <1>4
<1> HIDE DEF F
<1> QED BY <1>1, <1>3, <1>4, <1>5, LandInv

\* What post_recv does: the frames F, none or one, are in their slots at once.
LEMMA PostTakes ==
    ASSUME Inv, NEW l \in Lanes, MoreToPost(l),
           NEW rest, rest \subseteq landing, PostReceive(l, rest), atOnce \subseteq rest
    PROVE  \E F \in SUBSET flight :
              /\ flight' = flight \ F /\ landing' = rest \cup F
              /\ atOnce' \subseteq landing'
              /\ got' \in [Frame -> Data \cup {"none"}]
              /\ \A f \in Arrived \cup F : got'[f] \in Data
              /\ \A f \in Arrived : got'[f] = got[f]
              /\ posted' \in [Lanes -> Nat]
              /\ \A m \in Lanes : posted'[m] <= Len(Assign[m])
<1>1. /\ got \in [Frame -> Data \cup {"none"}] /\ flight \subseteq Frame
      /\ flight \cap Arrived = {}
      /\ \A g \in Arrived : got[g] \in Data /\ g \in Frame
      /\ \A g \in flight : sent[g] \in Data
  BY DEF Inv, TypeOK, Lifecycle, BytesOnTheWay, Arrived, Data
<1>2. /\ posted' \in [Lanes -> Nat]
      /\ \A m \in Lanes : posted'[m] <= Len(Assign[m])
  <2>1. posted' = [posted EXCEPT ![l] = posted[l] + 1] /\ posted[l] < Len(Assign[l])
    BY DEF PostReceive, MoreToPost
  <2>2. Len(Assign[l]) \in Nat
    BY AssignAssumption
  <2> QED BY <2>1, <2>2 DEF Inv, TypeOK
<1>3. CASE landing' = rest /\ UNCHANGED <<got, flight, atOnce>>
  <2>1. flight' = flight \ {} /\ landing' = rest \cup {}
    BY <1>3
  <2>2. /\ got' \in [Frame -> Data \cup {"none"}]
        /\ \A f \in Arrived \cup {} : got'[f] \in Data
        /\ \A f \in Arrived : got'[f] = got[f]
        /\ atOnce' \subseteq landing'
    BY <1>1, <1>3
  <2>3. {} \in SUBSET flight
    OBVIOUS
  <2> QED BY <1>2, <2>1, <2>2, <2>3
<1>4. ASSUME NEW f, f \in flight,
             got' = [got EXCEPT ![f] = sent[f]],
             flight' = flight \ {f}, landing' = rest \cup {f},
             atOnce' = atOnce \cup {f}
      PROVE  \E F \in SUBSET flight :
                /\ flight' = flight \ F /\ landing' = rest \cup F
                /\ atOnce' \subseteq landing'
                /\ got' \in [Frame -> Data \cup {"none"}]
                /\ \A g \in Arrived \cup F : got'[g] \in Data
                /\ \A g \in Arrived : got'[g] = got[g]
                /\ posted' \in [Lanes -> Nat]
                /\ \A m \in Lanes : posted'[m] <= Len(Assign[m])
  <2>1. /\ got' \in [Frame -> Data \cup {"none"}]
        /\ \A g \in Arrived \cup {f} : got'[g] \in Data
        /\ \A g \in Arrived : got'[g] = got[g]
        /\ atOnce' \subseteq landing'
    BY <1>1, <1>4
  <2>2. {f} \in SUBSET flight
    BY <1>4
  <2> QED BY <1>2, <1>4, <2>1, <2>2
<1> QED BY <1>3, <1>4 DEF PostReceive, Arrives

LEMMA PrePostInv == ASSUME Inv, NEW l \in Lanes, PrePost(l) PROVE Inv'
<1>1. /\ MoreToPost(l) /\ rpc[l] = "receive" /\ PostReceive(l, landing)
      /\ UNCHANGED <<options, source, faults, sender, sent, receiver>>
  BY DEF PrePost, Posting
<1>2. atOnce \subseteq landing /\ faults' \in 0..MaxFaults /\ processed \subseteq Arrived
  BY <1>1 DEF Inv, TypeOK, Arrived
<1>3. PICK F \in SUBSET flight :
              /\ flight' = flight \ F /\ landing' = landing \cup F
              /\ atOnce' \subseteq landing'
              /\ got' \in [Frame -> Data \cup {"none"}]
              /\ \A f \in Arrived \cup F : got'[f] \in Data
              /\ \A f \in Arrived : got'[f] = got[f]
              /\ posted' \in [Lanes -> Nat]
              /\ \A m \in Lanes : posted'[m] <= Len(Assign[m])
  BY <1>1, <1>2, PostTakes
<1>4. metaReady
  BY <1>1 DEF Inv, Gate
<1> QED BY <1>1, <1>2, <1>3, <1>4, LandInv
----------------------------------------------------------------------------
(* The receiver's actions.                                                 *)

LEMMA ApplyMetaInv == ASSUME Inv, NEW l \in Lanes, ApplyMeta(l) PROVE Inv'
<1> USE DEF ApplyMeta
<1>1. TypeOK'
  BY DEF Inv, TypeOK, options, sender, lanes
<1>2. Lifecycle' /\ BytesOnTheWay' /\ Gate' /\ CountIsExact'
  BY DEF Inv, Lifecycle, BytesOnTheWay, Gate, CountIsExact, Arrived, sender, lanes
<1>3. FileIsProcessed'
  <2>1. UNCHANGED <<sink, rverify, processed, got, sent>> /\ metaReady'
    BY DEF options, lanes
  <2>2. CASE Opens
    <3>1. processed = {} /\ ~sink
      BY <2>2 DEF Opens, Inv, Gate, Arrived
    <3>2. file' = [c \in Chunks |-> "hole"]
      BY <2>2
    <3> QED BY <2>1, <3>1, <3>2, FrameParts DEF FileIsProcessed
  <2>3. CASE ~Opens
    <3>1. file' = file /\ (sink \/ metaReady)
      BY <2>3 DEF Opens
    <3>2. \A m \in Lanes : rpc[m] = "failed" => rpc'[m] = "failed"
      BY DEF Inv, TypeOK
    <3> QED BY <2>1, <3>1, <3>2, FrameParts DEF Inv, FileIsProcessed
  <2> QED BY <2>2, <2>3
<1>4. SenderEnds'
  BY DEF Inv, SenderEnds, sender, lanes, OfLane
<1>5. ReceiverSucceeds'
  BY DEF Inv, ReceiverSucceeds
<1> QED BY <1>1, <1>2, <1>3, <1>4, <1>5 DEF Inv

LEMMA ApplyMetaFailsInv ==
    ASSUME Inv, NEW l \in Lanes, ApplyMetaFails(l) PROVE Inv'
<1> USE DEF ApplyMetaFails
<1>1. TypeOK'
  <2>1. faults' \in 0..MaxFaults
    BY MaxFaultsAssumption DEF Fault, Inv, TypeOK
  <2>2. file' \in [Chunks -> Data \cup {"stale", "hole", "torn"}]
    BY DEF Inv, TypeOK
  <2> QED BY <2>1, <2>2 DEF Inv, TypeOK, options, sender, lanes
<1>2. Lifecycle' /\ BytesOnTheWay' /\ CountIsExact'
  BY DEF Inv, Lifecycle, BytesOnTheWay, CountIsExact, Arrived, sender, lanes
<1>3. Gate'
  BY DEF Inv, Gate, TypeOK, Arrived, lanes
<1>4. FileIsProcessed'
  <2>1. /\ UNCHANGED <<sink, rverify, processed, got, sent, metaReady>>
        /\ processed = {} /\ ~sink /\ ~metaReady
    BY DEF options, lanes, Opens, Inv, Gate, Arrived
  <2>2. \A c \in Chunks : file'[c] \in {"stale", "hole"}
    BY <2>1 DEF Inv, FileIsProcessed
  <2> QED BY <2>1, <2>2, FrameParts DEF FileIsProcessed
<1>5. SenderEnds'
  BY DEF Inv, SenderEnds, sender, lanes, OfLane
<1>6. ReceiverSucceeds'
  BY DEF Inv, ReceiverSucceeds
<1> QED BY <1>1, <1>2, <1>3, <1>4, <1>5, <1>6 DEF Inv

\* The frames taken by the receive that process_slot's slot is posted for.
LEMMA ProcessTakes ==
    ASSUME Inv, NEW f \in Frame, Process(f)
    PROVE  \E F \in SUBSET flight :
              /\ flight' = flight \ F /\ landing' = (landing \ {f}) \cup F
              /\ atOnce' \subseteq landing'
              /\ got' \in [Frame -> Data \cup {"none"}]
              /\ \A g \in Arrived \cup F : got'[g] \in Data
              /\ \A g \in Arrived : got'[g] = got[g]
              /\ posted' \in [Lanes -> Nat]
              /\ \A m \in Lanes : posted'[m] <= Len(Assign[m])
<1>1. CASE f \notin atOnce /\ MoreToPost(f[1]) /\ PostReceive(f[1], Taken(f))
  <2> DEFINE rest == landing \ {f}
             l == f[1]
  <2>1. /\ l \in Lanes /\ MoreToPost(l) /\ PostReceive(l, rest)
        /\ rest \subseteq landing /\ atOnce \subseteq rest
    BY <1>1, FrameParts DEF Taken, Inv, TypeOK
  <2> HIDE DEF l
  <2>2. \E F \in SUBSET flight :
              /\ flight' = flight \ F /\ landing' = rest \cup F
              /\ atOnce' \subseteq landing'
              /\ got' \in [Frame -> Data \cup {"none"}]
              /\ \A g \in Arrived \cup F : got'[g] \in Data
              /\ \A g \in Arrived : got'[g] = got[g]
              /\ posted' \in [Lanes -> Nat]
              /\ \A m \in Lanes : posted'[m] <= Len(Assign[m])
    <3> HIDE DEF rest
    <3> QED BY <2>1, PostTakes
  <2> QED BY <2>2
<1>2. CASE /\ landing' = Taken(f) /\ atOnce' = atOnce \ {f}
           /\ UNCHANGED <<got, flight, posted>>
  <2>1. /\ flight' = flight \ {} /\ landing' = (landing \ {f}) \cup {}
        /\ {} \in SUBSET flight
    BY <1>2 DEF Taken
  <2>2. /\ got' \in [Frame -> Data \cup {"none"}]
        /\ \A g \in Arrived \cup {} : got'[g] \in Data
        /\ \A g \in Arrived : got'[g] = got[g]
        /\ posted' \in [Lanes -> Nat]
        /\ \A m \in Lanes : posted'[m] <= Len(Assign[m])
        /\ atOnce' \subseteq landing'
    BY <1>2 DEF Inv, TypeOK, BytesOnTheWay, Taken
  <2> QED BY <2>1, <2>2
<1> QED BY <1>1, <1>2 DEF Process

LEMMA ProcessInv == ASSUME Inv, NEW f \in Frame, Process(f) PROVE Inv'
<1>0. PICK F \in SUBSET flight :
              /\ flight' = flight \ F /\ landing' = (landing \ {f}) \cup F
              /\ atOnce' \subseteq landing'
              /\ got' \in [Frame -> Data \cup {"none"}]
              /\ \A g \in Arrived \cup F : got'[g] \in Data
              /\ \A g \in Arrived : got'[g] = got[g]
              /\ posted' \in [Lanes -> Nat]
              /\ \A m \in Lanes : posted'[m] <= Len(Assign[m])
  BY ProcessTakes
<1>1. /\ f \in landing /\ f \notin processed /\ rpc[f[1]] = "receive"
      /\ ChunkVerify(rverify) => got[f] = sent[f]
      /\ processed' = processed \cup {f}
      /\ received' = received + 1
      /\ file' = IF sink THEN file ELSE [file EXCEPT ![ChunkOf(f)] = got[f]]
      /\ UNCHANGED <<options, source, faults, sender, sent, rpc, metaReady, sha,
                     rexit>>
  BY DEF Process, Turn, ChecksumOk, Inv, Lifecycle
<1>2. f[1] \in Lanes /\ ChunkOf(f) \in Chunks /\ got[f] \in Data
  BY <1>1, FrameParts DEF Inv, BytesOnTheWay, Arrived
<1>3. /\ Arrived' = Arrived \cup F /\ f \in Arrived /\ F \subseteq Frame
      /\ F \cap Arrived = {} /\ processed \subseteq Arrived
  BY <1>0, <1>1 DEF Arrived, Inv, TypeOK, Lifecycle
<1>4. CountIsExact'
  <2>1. IsFiniteSet(processed) /\ processed' = processed \cup {f}
    BY <1>1, CountBound DEF Inv, TypeOK
  <2> QED BY <1>1, <2>1, FS_AddElement DEF Inv, CountIsExact
<1>5. TypeOK'
  <2>1. processed' \subseteq Frame
    BY <1>1 DEF Inv, TypeOK
  <2>2. received' \in 0..Cardinality(Chunks)
    BY <1>4, <2>1, CountBound DEF CountIsExact
  <2>3. file' \in [Chunks -> Data \cup {"stale", "hole", "torn"}]
    BY <1>1, <1>2 DEF Inv, TypeOK
  <2>4. flight' \subseteq Frame /\ landing' \subseteq Frame
    BY <1>0 DEF Inv, TypeOK
  <2> QED BY <1>0, <1>1, <2>1, <2>2, <2>3, <2>4 DEF Inv, TypeOK, options, sender
<1>6. Lifecycle' /\ BytesOnTheWay'
  BY <1>0, <1>1, <1>3 DEF Inv, Lifecycle, BytesOnTheWay, Arrived, sender
<1>7. Gate'
  BY <1>1, <1>3 DEF Inv, Gate
<1>8. FileIsProcessed'
  <2>1. CASE sink
    BY <1>1, <2>1 DEF Inv, FileIsProcessed, options
  <2>2. CASE ~sink
    <3>1. metaReady
      BY <1>3 DEF Inv, Gate
    <3>2. \A c \in Chunks :
            file'[c] = IF c = ChunkOf(f) THEN got[f] ELSE file[c]
      BY <1>1, <1>2, <2>2 DEF Inv, TypeOK
    <3>3. \A g \in Frame : g # f => ChunkOf(g) # ChunkOf(f)
      BY AssignAssumption
    <3>4. \A c \in Chunks : file'[c] # "stale"
      BY <1>2, <2>2, <3>1, <3>2 DEF Inv, FileIsProcessed, Data, Content
    <3>5. ASSUME NEW g \in processed'
          PROVE  /\ file'[ChunkOf(g)] = got'[g]
                 /\ ChunkVerify(rverify) => got'[g] = sent[g]
      <4>0. g \in Arrived /\ got'[g] = got[g]
        BY <1>0, <1>1, <1>3
      <4>1. CASE g = f
        BY <1>1, <1>2, <3>2, <4>0, <4>1
      <4>2. CASE g # f
        <5>1. g \in processed /\ g \in Frame
          BY <1>1, <4>2 DEF Inv, TypeOK
        <5> QED BY <2>2, <3>2, <3>3, <4>0, <4>2, <5>1, FrameParts
                DEF Inv, FileIsProcessed
      <4> QED BY <4>1, <4>2
    <3>6. ASSUME NEW g \in Frame \ processed'
          PROVE  /\ file'[ChunkOf(g)] \in {"stale", "hole", "torn"}
                 /\ file'[ChunkOf(g)] = "torn" => rpc[g[1]] = "failed"
      <4>1. g \in Frame \ processed /\ g # f
        BY <1>1
      <4> QED BY <2>2, <3>2, <3>3, <4>1, FrameParts DEF Inv, FileIsProcessed
    <3> QED BY <1>1, <2>2, <3>1, <3>4, <3>5, <3>6 DEF FileIsProcessed, options
  <2> QED BY <2>1, <2>2
<1>9. SenderEnds'
  BY <1>0, <1>1 DEF Inv, SenderEnds, sender, OfLane
<1>10. ReceiverSucceeds'
  BY <1>1, <1>2 DEF Inv, ReceiverSucceeds
<1> QED BY <1>4, <1>5, <1>6, <1>7, <1>8, <1>9, <1>10 DEF Inv

\* A receiving thread throws, or comes to its end.
LEMMA ReceiverPcInv ==
    ASSUME Inv, NEW l \in Lanes,
           rpc[l] = "receive", UNCHANGED <<options, source, sender, lanes,
              metaReady, received, processed, sha, rexit>>,
           faults' \in 0..MaxFaults,
           \/ rpc' = [rpc EXCEPT ![l] = "finished"] /\ file' = file
           \/ /\ rpc' = [rpc EXCEPT ![l] = "failed"]
              /\ \/ file' = file
                 \/ /\ ~sink
                    /\ \E f \in landing : /\ f[1] = l
                                          /\ file' = [file EXCEPT ![ChunkOf(f)] = "torn"]
    PROVE  Inv'
<1> USE DEF options, sender, lanes
<1>1. landing \subseteq Frame /\ landing \cap processed = {}
  BY DEF Inv, TypeOK, Lifecycle
<1>2. \A f \in Frame : f[1] \in Lanes /\ ChunkOf(f) \in Chunks
  BY FrameParts
<1>3. TypeOK'
  <2>1. file' \in [Chunks -> Data \cup {"stale", "hole", "torn"}]
    BY <1>1, <1>2 DEF Inv, TypeOK
  <2>2. \E v \in {"finished", "failed"} : rpc' = [rpc EXCEPT ![l] = v]
    OBVIOUS
  <2>3. rpc' \in [Lanes -> {"meta", "receive", "finished", "failed"}]
    BY <2>2 DEF Inv, TypeOK
  <2> QED BY <2>1, <2>3 DEF Inv, TypeOK
<1>4. Lifecycle' /\ BytesOnTheWay' /\ CountIsExact'
  BY DEF Inv, Lifecycle, BytesOnTheWay, CountIsExact, Arrived
<1>5. Gate'
  BY DEF Inv, Gate, TypeOK, Arrived
<1>6. FileIsProcessed'
  <2>1. metaReady
    BY DEF Inv, Gate
  <2>2. \A m \in Lanes : rpc[m] = "failed" => rpc'[m] = "failed"
    BY DEF Inv, TypeOK
  <2>3. CASE file' = file
    BY <1>2, <2>1, <2>2, <2>3 DEF Inv, FileIsProcessed
  <2>4. CASE /\ ~sink /\ rpc' = [rpc EXCEPT ![l] = "failed"]
             /\ \E f \in landing : f[1] = l /\ file' = [file EXCEPT ![ChunkOf(f)] = "torn"]
    <3>1. PICK f \in landing : f[1] = l /\ file' = [file EXCEPT ![ChunkOf(f)] = "torn"]
      BY <2>4
    <3>2. f \in Frame /\ f \notin processed
      BY <1>1
    <3>3. \A c \in Chunks :
            file'[c] = IF c = ChunkOf(f) THEN "torn" ELSE file[c]
      BY <1>2, <3>1, <3>2 DEF Inv, TypeOK
    <3>4. \A g \in Frame : g # f => ChunkOf(g) # ChunkOf(f)
      BY <3>2, AssignAssumption
    <3>5. \A c \in Chunks : file'[c] # "stale"
      BY <2>1, <2>4, <3>3 DEF Inv, FileIsProcessed
    <3>6. ASSUME NEW g \in processed
          PROVE  /\ file'[ChunkOf(g)] = got[g]
                 /\ ChunkVerify(rverify) => got[g] = sent[g]
      <4>1. g \in Frame /\ g # f
        BY <3>2 DEF Inv, TypeOK
      <4> QED BY <1>2, <2>4, <3>3, <3>4, <4>1 DEF Inv, FileIsProcessed
    <3>7. ASSUME NEW g \in Frame \ processed
          PROVE  /\ file'[ChunkOf(g)] \in {"stale", "hole", "torn"}
                 /\ file'[ChunkOf(g)] = "torn" => rpc'[g[1]] = "failed"
      <4>1. CASE g = f
        BY <1>2, <2>4, <3>1, <3>2, <3>3, <4>1 DEF Inv, TypeOK
      <4>2. CASE g # f
        BY <1>2, <2>2, <2>4, <3>3, <3>4, <4>2 DEF Inv, FileIsProcessed
      <4> QED BY <4>1, <4>2
    <3> QED BY <2>1, <2>4, <3>5, <3>6, <3>7 DEF FileIsProcessed
  <2> QED BY <2>3, <2>4
<1>7. SenderEnds'
  BY DEF Inv, SenderEnds, OfLane
<1>8. ReceiverSucceeds'
  BY DEF Inv, ReceiverSucceeds
<1> QED BY <1>3, <1>4, <1>5, <1>6, <1>7, <1>8 DEF Inv

LEMMA ReceiverThreadInv ==
    ASSUME Inv, NEW f \in Frame, ProcessRefuses(f) \/ ProcessCannotWrite(f)
    PROVE  Inv'
<1>1. f[1] \in Lanes
  BY FrameParts
<1>2. CASE ProcessRefuses(f)
  <2>1. /\ rpc[f[1]] = "receive"
        /\ UNCHANGED <<options, source, sender, lanes, metaReady, received,
                       processed, sha, rexit>>
        /\ rpc' = [rpc EXCEPT ![f[1]] = "failed"] /\ file' = file
    BY <1>2 DEF ProcessRefuses, Turn
  <2>2. faults' \in 0..MaxFaults
    BY <1>2 DEF ProcessRefuses, Inv, TypeOK
  <2> QED BY <1>1, <2>1, <2>2, ReceiverPcInv
<1>3. CASE ProcessCannotWrite(f)
  <2>1. /\ rpc[f[1]] = "receive" /\ f \in landing /\ ~sink
        /\ UNCHANGED <<options, source, sender, lanes, metaReady, received,
                       processed, sha, rexit>>
        /\ rpc' = [rpc EXCEPT ![f[1]] = "failed"]
        /\ file' \in {file, [file EXCEPT ![ChunkOf(f)] = "torn"]}
    BY <1>3 DEF ProcessCannotWrite, Turn
  <2>2. faults' \in 0..MaxFaults
    BY <1>3, MaxFaultsAssumption DEF ProcessCannotWrite, Fault, Inv, TypeOK
  <2> QED BY <1>1, <2>1, <2>2, ReceiverPcInv
<1> QED BY <1>2, <1>3

LEMMA FinishReceiveInv == ASSUME Inv, NEW l \in Lanes, FinishReceive(l) PROVE Inv'
<1>1. /\ rpc[l] = "receive"
      /\ UNCHANGED <<options, source, sender, lanes, metaReady, received,
                     processed, sha, rexit>>
      /\ rpc' = [rpc EXCEPT ![l] = "finished"] /\ file' = file
  BY DEF FinishReceive
<1>2. faults' \in 0..MaxFaults
  BY DEF FinishReceive, Inv, TypeOK
<1> QED BY <1>1, <1>2, ReceiverPcInv

LEMMA ReceiverExitInv == ASSUME Inv, ReceiverExit PROVE Inv'
<1>1. /\ \A l \in Lanes : rpc[l] \in {"finished", "failed"}
      /\ UNCHANGED <<options, source, faults, sender, lanes, rpc, metaReady,
                     file, received, processed>>
  BY DEF ReceiverExit
<1>2. sha' \in {"unchecked", "match", "mismatch"} /\ rexit' \in {"0", "1", "2"}
  BY DEF ReceiverExit, Digest, Inv, TypeOK
<1>3. TypeOK'
  BY <1>1, <1>2 DEF Inv, TypeOK, options, sender, lanes
<1>4. Lifecycle' /\ BytesOnTheWay' /\ Gate' /\ CountIsExact'
  BY <1>1 DEF Inv, Lifecycle, BytesOnTheWay, Gate, CountIsExact, Arrived, sender, lanes
<1>5. FileIsProcessed'
  BY <1>1 DEF Inv, FileIsProcessed, options, lanes
<1>6. SenderEnds'
  BY <1>1 DEF Inv, SenderEnds, sender, lanes, OfLane
<1>7. ReceiverSucceeds'
  <2> SUFFICES ASSUME rexit' = "0"
               PROVE  /\ metaReady
                      /\ received = Cardinality(Chunks)
                      /\ FileVerify(rverify) /\ ~sink =>
                            \A c \in Chunks : file[c] = "old"
    BY <1>1 DEF ReceiverSucceeds, options
  <2>1. /\ \A l \in Lanes : rpc[l] = "finished"
        /\ received = Cardinality(Chunks) /\ sha' = Digest /\ sha' # "mismatch"
    BY DEF ReceiverExit
  <2>2. metaReady
    BY <2>1, LanesAssumption DEF Inv, Gate
  <2> QED BY <2>1, <2>2 DEF Digest
<1> QED BY <1>3, <1>4, <1>5, <1>6, <1>7 DEF Inv

LEMMA StutterInv == ASSUME Inv, UNCHANGED vars PROVE Inv'
<1> USE DEF vars, options, sender, lanes, receiver
<1>1. TypeOK'
  BY DEF Inv, TypeOK
<1>2. Lifecycle' /\ BytesOnTheWay' /\ Gate' /\ CountIsExact'
  BY DEF Inv, Lifecycle, BytesOnTheWay, Gate, CountIsExact, Arrived
<1>3. FileIsProcessed'
  BY DEF Inv, FileIsProcessed
<1>4. SenderEnds' /\ ReceiverSucceeds'
  BY DEF Inv, SenderEnds, ReceiverSucceeds, OfLane
<1> QED BY <1>1, <1>2, <1>3, <1>4 DEF Inv

LEMMA NextInv == Inv /\ [Next]_vars => Inv'
<1> SUFFICES ASSUME Inv, [Next]_vars PROVE Inv'
  OBVIOUS
<1>1. ASSUME NEW l \in Lanes, SenderThread(l) PROVE Inv'
  BY <1>1, SenderPcInv, SendFrameInv DEF SenderThread
<1>2. ASSUME NEW l \in Lanes, ReceiverThread(l) PROVE Inv'
  BY <1>2, ApplyMetaInv, PrePostInv, FinishReceiveInv, FetchInv, ProcessInv,
     ReceiverThreadInv
  DEF ReceiverThread, OfLane
<1>3. CASE SenderExit
  BY <1>3, SenderExitInv
<1>4. CASE ReceiverExit
  BY <1>4, ReceiverExitInv
<1>5. CASE Faulty
  BY <1>5, EditSourceInv, SenderPcInv, ApplyMetaFailsInv, FetchInv, DamageInv,
     ReceiverThreadInv
  DEF Faulty
<1>6. CASE UNCHANGED vars
  BY <1>6, StutterInv
<1> QED BY <1>1, <1>2, <1>3, <1>4, <1>5, <1>6 DEF Next, Working

\* The inductive invariant holds of every transfer.
THEOREM InvHolds == Spec => []Inv
BY InitInv, NextInv, PTL DEF Spec
----------------------------------------------------------------------------
(* What follows from the invariant.                                        *)

\* A complete count leaves no frame unprocessed.
LEMMA CompleteMeansAll ==
    ASSUME Inv, received = Cardinality(Chunks) PROVE processed = Frame
<1>1. processed \subseteq Frame /\ received = Cardinality(processed)
  BY DEF Inv, TypeOK, CountIsExact
<1> QED BY <1>1, CountBound

\* What success means for the chunk of a frame.
LEMMA SuccessOfFrame ==
    ASSUME Inv, rexit = "0", ~sink, NEW f \in Frame
    PROVE  /\ file[ChunkOf(f)] \in Data
           /\ ChunkVerify(rverify) => file[ChunkOf(f)] = sent[f]
           /\ FileVerify(rverify) => file[ChunkOf(f)] = "old"
<1>1. f \in processed
  BY CompleteMeansAll DEF Inv, ReceiverSucceeds
<1>2. file[ChunkOf(f)] = got[f] /\ (ChunkVerify(rverify) => got[f] = sent[f])
  BY <1>1 DEF Inv, FileIsProcessed
<1>3. got[f] \in Data
  BY <1>1 DEF Inv, BytesOnTheWay, Arrived
<1>4. FileVerify(rverify) => file[ChunkOf(f)] = "old"
  BY FrameParts DEF Inv, ReceiverSucceeds
<1> QED BY <1>2, <1>3, <1>4

\* The states of the transfer have the types the declarations in the code
\* give them; received_chunks never exceeds total_chunks.
THEOREM TypeCorrect == Spec => []TypeOK
<1>1. Inv => TypeOK
  BY DEF Inv
<1> QED BY <1>1, InvHolds, PTL

\* received_chunks counts the frames process_slot has accepted, each once,
\* whatever the lanes do concurrently.
THEOREM CountsEveryFrameOnce == Spec => []CountIsExact
<1>1. Inv => CountIsExact
  BY DEF Inv
<1> QED BY <1>1, InvHolds, PTL

\* Status 0 of rnic_recv means that every chunk is in the output file, as
\* read if chunks are verified, as hashed if the file is.
THEOREM OkIsFaithful == Spec => []OkMeansFaithful
<1>1. Inv => OkMeansFaithful
  BY SuccessOfFrame DEF OkMeansFaithful
<1> QED BY <1>1, InvHolds, PTL

\* With chunk verification process_slot writes no damaged bytes, in a failing
\* transfer no more than in one that succeeds.
THEOREM DamageStaysOut == Spec => []DamageKeptOut
<1>1. Inv => DamageKeptOut
  <2> SUFFICES ASSUME Inv, ChunkVerify(rverify), NEW c \in Chunks
               PROVE  file[c] # "damaged"
    BY DEF DamageKeptOut
  <2>1. PICK f \in Frame : ChunkOf(f) = c
    BY AssignAssumption
  <2>2. CASE sink
    BY <2>2 DEF Inv, FileIsProcessed
  <2>3. CASE ~sink /\ f \in processed
    <3>1. file[c] = sent[f]
      BY <2>1, <2>3 DEF Inv, FileIsProcessed
    <3>2. sent[f] \in Content
      BY <2>3 DEF Inv, BytesOnTheWay, Arrived
    <3> QED BY <3>1, <3>2 DEF Content
  <2>4. CASE ~sink /\ f \notin processed
    BY <2>1, <2>4 DEF Inv, FileIsProcessed
  <2> QED BY <2>2, <2>3, <2>4
<1> QED BY <1>1, InvHolds, PTL

\* Status 0 of rnic_send means that the receiver has every chunk not sent
\* eagerly in a slot: wait_for_all has returned in every lane.
THEOREM SenderOkIsFetched == Spec => []SenderOkMeansFetched
<1>1. Inv => SenderOkMeansFetched
  <2> SUFFICES ASSUME Inv, sexit = "0", NEW f \in Frame \ Eager
               PROVE  got[f] # "none"
    BY DEF SenderOkMeansFetched
  <2>1. f[1] \in Lanes /\ f[2] \in 1..Len(Assign[f[1]])
    BY FrameParts
  <2>2. Len(Assign[f[1]]) \in Nat /\ next[f[1]] \in Nat
    BY <2>1, AssignAssumption DEF Inv, TypeOK
  <2>3. next[f[1]] > Len(Assign[f[1]]) /\ OfLane(f[1], flight) \subseteq Eager
    BY <2>1 DEF Inv, SenderEnds
  <2>4. f \in flight \cup Arrived
    BY <2>1, <2>2, <2>3 DEF Inv, Lifecycle
  <2>5. f \notin flight
    BY <2>3 DEF OfLane
  <2> QED BY <2>4, <2>5 DEF Inv, BytesOnTheWay, Data, Content
<1> QED BY <1>1, InvHolds, PTL
----------------------------------------------------------------------------
(* The lanes together implement FileCopy.                                  *)

LEMMA InitCopies == Init => Copy!Init
BY DEF Init, Copy!Init

\* A step that writes no file and ends no receiver.
LEMMA OtherStep ==
    ASSUME UNCHANGED <<sink, file, rexit>> PROVE UNCHANGED Copy!fvars
BY DEF Copy!fvars

\* A chunk is written where there is a hole.
LEMMA WriteCopies ==
    ASSUME Inv, NEW f \in Frame \ processed, ~sink, rpc[f[1]] = "receive",
           NEW d \in Data \cup {"torn"},
           file' = [file EXCEPT ![ChunkOf(f)] = d], UNCHANGED <<sink, rexit>>
    PROVE  Copy!Next
<1>1. ChunkOf(f) \in Chunks /\ f[1] \in Lanes
  BY FrameParts
<1>2. metaReady
  BY <1>1 DEF Inv, Gate
<1>3. file[ChunkOf(f)] = "hole"
  BY <1>1, <1>2 DEF Inv, FileIsProcessed
<1>4. Copy!Write(ChunkOf(f))
  BY <1>3 DEF Copy!Write
<1> QED BY <1>1, <1>4 DEF Copy!Next

\* The file is emptied while nothing has been written.
LEMMA EmptyCopies ==
    ASSUME Inv, Opens, file' = [c \in Chunks |-> "hole"], UNCHANGED <<sink, rexit>>
    PROVE  Copy!Next
<1>1. Copy!Empty
  BY DEF Copy!Empty, Opens, Inv, FileIsProcessed
<1> QED BY <1>1 DEF Copy!Next

LEMMA ExitCopies == ASSUME Inv, ReceiverExit PROVE Copy!Next
<1>1. /\ rexit = "running" /\ rexit' \in {"0", "1", "2"}
      /\ UNCHANGED <<sink, file>>
  BY DEF ReceiverExit, options
<1>2. ASSUME rexit' = "0", ~sink PROVE Copy!Complete
  <2>1. processed = Frame
    BY <1>2, CompleteMeansAll DEF ReceiverExit
  <2>2. \A f \in Frame : file[ChunkOf(f)] \in Data
    BY <1>1, <1>2, <2>1 DEF Inv, FileIsProcessed, BytesOnTheWay, Arrived
  <2> QED BY <2>2, AssignAssumption DEF Copy!Complete
<1>3. CASE rexit' = "0"
  <2>1. Copy!Exit("ok")
    BY <1>1, <1>2, <1>3 DEF Copy!Exit
  <2> QED BY <2>1 DEF Copy!Next
<1>4. CASE rexit' \in {"1", "2"}
  <2>1. Copy!Exit("failed")
    BY <1>1, <1>4 DEF Copy!Exit
  <2> QED BY <2>1 DEF Copy!Next
<1> QED BY <1>1, <1>3, <1>4

LEMMA NextCopies == Inv /\ [Next]_vars => [Copy!Next]_(Copy!fvars)
<1> SUFFICES ASSUME Inv, [Next]_vars
             PROVE  Copy!Next \/ UNCHANGED Copy!fvars
  OBVIOUS
<1>1. ASSUME NEW l \in Lanes, SenderThread(l) PROVE UNCHANGED Copy!fvars
  BY <1>1, OtherStep
  DEF SenderThread, SendMeta, SendFrame, FinishSend, options, receiver
<1>2. ASSUME NEW l \in Lanes, ApplyMeta(l)
      PROVE  Copy!Next \/ UNCHANGED Copy!fvars
  BY <1>2, EmptyCopies, OtherStep DEF ApplyMeta, options
<1>3. ASSUME NEW l \in Lanes, ApplyMetaFails(l)
      PROVE  Copy!Next \/ UNCHANGED Copy!fvars
  BY <1>3, EmptyCopies, OtherStep DEF ApplyMetaFails, options
<1>4. ASSUME NEW f \in Frame, Process(f)
      PROVE  Copy!Next \/ UNCHANGED Copy!fvars
  <2>1. f \in Frame \ processed /\ got[f] \in Data
    BY <1>4 DEF Process, Turn, Inv, Lifecycle, BytesOnTheWay, Arrived
  <2>2. CASE sink
    BY <1>4, <2>2, OtherStep DEF Process, options
  <2>3. CASE ~sink
    BY <1>4, <2>1, <2>3, WriteCopies DEF Process, Turn, options
  <2> QED BY <2>2, <2>3
<1>5. ASSUME NEW f \in Frame, ProcessCannotWrite(f)
      PROVE  Copy!Next \/ UNCHANGED Copy!fvars
  <2>1. f \in Frame \ processed
    BY <1>5 DEF ProcessCannotWrite, Turn, Inv, Lifecycle
  <2>2. CASE file' = file
    BY <1>5, <2>2, OtherStep DEF ProcessCannotWrite, options
  <2>3. CASE file' = [file EXCEPT ![ChunkOf(f)] = "torn"]
    BY <1>5, <2>1, <2>3, WriteCopies DEF ProcessCannotWrite, Turn, options
  <2> QED BY <1>5, <2>2, <2>3 DEF ProcessCannotWrite
<1>6. ASSUME NEW l \in Lanes, PrePost(l) \/ FinishReceive(l)
      PROVE  UNCHANGED Copy!fvars
  BY <1>6, OtherStep DEF PrePost, FinishReceive, options, receiver
<1>7. ASSUME NEW f \in Frame,
             \/ FetchIntact(f) \/ FetchWhileClosing(f) \/ FetchFreed(f)
             \/ Damage(f) \/ ProcessRefuses(f)
      PROVE  UNCHANGED Copy!fvars
  BY <1>7, OtherStep
  DEF FetchIntact, FetchWhileClosing, FetchFreed, Fetch, Damage, ProcessRefuses,
      options, receiver
<1>8. ASSUME NEW l \in Lanes, SendFrameFails(l) PROVE UNCHANGED Copy!fvars
  BY <1>8, OtherStep DEF SendFrameFails, options, receiver
<1>9. ASSUME NEW c \in Chunks, EditSource(c) PROVE UNCHANGED Copy!fvars
  BY <1>9, OtherStep DEF EditSource, options, receiver
<1>10. CASE SenderExit
  BY <1>10, OtherStep DEF SenderExit, options, receiver
<1>11. CASE ReceiverExit
  BY <1>11, ExitCopies
<1>12. CASE UNCHANGED vars
  BY <1>12, OtherStep DEF vars, options, receiver
<1>13. ASSUME NEW l \in Lanes, ReceiverThread(l)
       PROVE  Copy!Next \/ UNCHANGED Copy!fvars
  BY <1>13, <1>2, <1>4, <1>6, <1>7 DEF ReceiverThread, OfLane
<1>14. CASE Faulty
  BY <1>14, <1>3, <1>5, <1>7, <1>8, <1>9 DEF Faulty
<1> QED BY <1>1, <1>10, <1>11, <1>12, <1>13, <1>14 DEF Next, Working

\* The threads of all lanes together empty the output file before they write,
\* write no chunk over, and report success only when all chunks are written.
THEOREM CopiesTheFile == Spec => ImplementsCopy
<1>1. Spec => Copy!Init /\ [][Copy!Next]_(Copy!fvars)
  BY InitCopies, NextCopies, InvHolds, PTL DEF Spec
<1> QED BY <1>1 DEF ImplementsCopy, Copy!Spec
=============================================================================
