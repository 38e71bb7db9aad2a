---------------------------- MODULE EnginesProofs ----------------------------
(***************************************************************************)
(* Proofs about both programs with any --engine each, any lanes, chunks    *)
(* and assignment.  A done frame is on its way, or heard, only from a      *)
(* sender whose chunks are all complete (ToldByFinished); what that is     *)
(* worth depends on the engines: a put is complete when it has landed,     *)
(* save for those of EarlyPuts (LandedIfComplete), a message that is not   *)
(* sent eagerly only when a receiver with the same --engine has fetched it *)
(* (NobodyFetches).                                                        *)
(* Then proofs about the lane with --engine rma, RmaLane.                  *)
(***************************************************************************)
EXTENDS Engines, RmaLane, SequenceTheorems, FiniteSetTheorems, TLAPS

\* Who says, or has heard, that a lane is done.
ToldByFinished ==
    \A l \in Lanes :
        /\ \A i \in 1..Len(toReceiver[l]) :
              toReceiver[l][i] = "done" => spc[l] = "finished"
        /\ rpc[l] = "finished" => spc[l] = "finished"
        /\ spc[l] = "finished" => AllComplete(l)

LandedIfComplete == sengine = "rma" => posted \ using \subseteq arrived \cup EarlyPuts

\* A receiver's thread is in the branch of its own --engine.
OwnBranch ==
    \A l \in Lanes :
        /\ rpc[l] \in {"map", "await"} => rengine = "rma"
        /\ rpc[l] \in {"frames", "done"} => rengine = "tag"

\* The loop over the frames ends with all of the lane's.
FramesTaken ==
    \A l \in Lanes :
        rengine = "tag" /\ rpc[l] \in {"done", "finished"} => Given[l] \subseteq arrived

\* Messages to a receiver that waits for puts stay where they are.
NobodyFetches ==
    sengine = "tag" /\ rengine = "rma" => posted \ Small \subseteq using

\* A sender that waits for the region of a receiver that has none.
NoRegion ==
    rengine = "tag" =>
        \A l \in Lanes :
            /\ toSender[l] = <<>>
            /\ sengine = "rma" => spc[l] \in {"meta", "info"}

Joined ==
    /\ sexit # "running" => \A l \in Lanes : spc[l] = "finished"
    /\ rexit # "running" => \A l \in Lanes : rpc[l] = "finished"

Inv ==
    /\ TypeOK
    /\ ToldByFinished
    /\ LandedIfComplete
    /\ OwnBranch
    /\ FramesTaken
    /\ NobodyFetches
    /\ NoRegion
    /\ Joined

USE LanesAssumption, ChunksAssumption, GivenAssumption
----------------------------------------------------------------------------

LEMMA LaneChunksType == \A l \in Lanes : IsFiniteSet(Given[l]) /\ LaneChunks(l) \in Nat
BY FS_Subset, FS_CardinalityType DEF LaneChunks

\* Saying and hearing on a stream keeps its type and its order.
LEMMA SaysWhat ==
    ASSUME NEW T, NEW s, s \in [Lanes -> Seq(T)], NEW t, NEW l \in Lanes, NEW frame \in T,
           t = [s EXCEPT ![l] = Append(@, frame)]
    PROVE  /\ t \in [Lanes -> Seq(T)]
           /\ \A k \in Lanes : \A i \in 1..Len(t[k]) :
                 (k = l /\ t[k][i] = frame) \/ (i \in 1..Len(s[k]) /\ t[k][i] = s[k][i])
<1>1. s[l] \in Seq(T)
  OBVIOUS
<1>2. /\ Append(s[l], frame) \in Seq(T)
      /\ Len(Append(s[l], frame)) = Len(s[l]) + 1
      /\ \A i \in 1..Len(s[l]) : Append(s[l], frame)[i] = s[l][i]
      /\ Append(s[l], frame)[Len(s[l]) + 1] = frame
      /\ Len(s[l]) \in Nat
  BY <1>1, AppendProperties, LenProperties
<1>3. t \in [Lanes -> Seq(T)]
  BY <1>2
<1>4. ASSUME NEW k \in Lanes, NEW i \in 1..Len(t[k])
      PROVE  (k = l /\ t[k][i] = frame) \/ (i \in 1..Len(s[k]) /\ t[k][i] = s[k][i])
  <2>1. CASE k # l
    BY <1>4, <2>1
  <2>2. CASE k = l
    <3>1. t[k] = Append(s[l], frame)
      BY <2>2
    <3>2. i \in 1..Len(s[l]) \/ i = Len(s[l]) + 1
      BY <1>2, <1>4, <3>1
    <3> QED BY <1>2, <2>2, <3>1, <3>2
  <2> QED BY <2>1, <2>2
<1> QED BY <1>3, <1>4

LEMMA HearsWhat ==
    ASSUME NEW T, NEW s, s \in [Lanes -> Seq(T)], NEW t, NEW l \in Lanes, s[l] # <<>>,
           t = [s EXCEPT ![l] = Tail(@)]
    PROVE  /\ t \in [Lanes -> Seq(T)]
           /\ 1 \in 1..Len(s[l]) /\ Head(s[l]) = s[l][1]
           /\ \A k \in Lanes : \A i \in 1..Len(t[k]) :
                 \E j \in 1..Len(s[k]) : t[k][i] = s[k][j]
<1>1. s[l] \in Seq(T)
  OBVIOUS
<1>2. /\ Tail(s[l]) \in Seq(T)
      /\ Len(Tail(s[l])) = Len(s[l]) - 1
      /\ \A i \in 1..Len(Tail(s[l])) : Tail(s[l])[i] = s[l][i + 1]
      /\ Len(s[l]) \in Nat /\ Len(s[l]) # 0
      /\ Head(s[l]) = s[l][1]
  BY <1>1, HeadTailProperties, LenProperties, EmptySeq
<1>3. t \in [Lanes -> Seq(T)]
  BY <1>2
<1>4. ASSUME NEW k \in Lanes, NEW i \in 1..Len(t[k])
      PROVE  \E j \in 1..Len(s[k]) : t[k][i] = s[k][j]
  <2>1. CASE k # l
    BY <1>4, <2>1
  <2>2. CASE k = l
    <3>1. t[k] = Tail(s[l])
      BY <2>2
    <3>2. i \in 1..Len(Tail(s[l]))
      BY <1>4, <3>1
    <3>3. t[k][i] = s[l][i + 1]
      BY <1>2, <3>1, <3>2
    <3>4. i + 1 \in 1..Len(s[l])
      BY <1>2, <3>2
    <3> QED BY <2>2, <3>3, <3>4
  <2> QED BY <2>1, <2>2
<1> QED BY <1>2, <1>3, <1>4

LEMMA InvInit == Init => Inv
<1> SUFFICES ASSUME Init PROVE Inv
  OBVIOUS
<1>1. [l \in Lanes |-> <<>>] \in [Lanes -> Seq({"meta", "done"})]
      /\ [l \in Lanes |-> <<>>] \in [Lanes -> Seq({"region"})]
  BY EmptySeq
<1>2. TypeOK
  BY <1>1 DEF Init, TypeOK
<1>3. ToldByFinished
  BY EmptySeq DEF Init, ToldByFinished
<1> QED BY <1>2, <1>3
        DEF Init, Inv, LandedIfComplete, OwnBranch, FramesTaken, NobodyFetches, NoRegion, Joined
----------------------------------------------------------------------------
(* One lemma per kind of step.                                             *)

\* The sender's thread of lane l goes on, saying something on the stream.
LEMMA SendMetaKeeps == ASSUME Inv, NEW l \in Lanes, SendMeta(l) PROVE Inv'
<1> USE DEF Inv
<1>1. /\ spc[l] = "meta" /\ spc' = [spc EXCEPT ![l] = AfterMeta]
      /\ toReceiver' = [toReceiver EXCEPT ![l] = Append(@, "meta")]
      /\ UNCHANGED <<sengine, rengine, rpc, toSender, posted, using, arrived, received,
                     sexit, rexit>>
  BY DEF SendMeta, SenderGoes, Says, chunks, exits
<1>2. /\ toReceiver' \in [Lanes -> Seq({"meta", "done"})]
      /\ \A k \in Lanes : \A i \in 1..Len(toReceiver'[k]) :
            \/ k = l /\ toReceiver'[k][i] = "meta"
            \/ i \in 1..Len(toReceiver[k]) /\ toReceiver'[k][i] = toReceiver[k][i]
  <2>1. toReceiver \in [Lanes -> Seq({"meta", "done"})] /\ "meta" \in {"meta", "done"}
    BY DEF TypeOK
  <2> QED BY <1>1, <2>1, SaysWhat
<1>3. AfterMeta \in {"info", "chunks"} /\ (sengine = "rma" => AfterMeta = "info")
  BY DEF AfterMeta
<1>4. TypeOK'
  BY <1>1, <1>2, <1>3 DEF TypeOK
<1>5. \A k \in Lanes : spc'[k] = "finished" <=> spc[k] = "finished"
  BY <1>1, <1>3 DEF TypeOK
<1>6. ToldByFinished'
  <2>1. \A k \in Lanes : AllComplete(k)' <=> AllComplete(k)
    BY <1>1 DEF AllComplete
  <2> QED BY <1>1, <1>2, <1>5, <2>1 DEF ToldByFinished
<1>7. NoRegion'
  BY <1>1, <1>3 DEF NoRegion, TypeOK
<1>8. LandedIfComplete' /\ OwnBranch' /\ FramesTaken' /\ NobodyFetches' /\ Joined'
  BY <1>1, <1>5 DEF LandedIfComplete, OwnBranch, FramesTaken, NobodyFetches, Joined
<1> QED BY <1>4, <1>6, <1>7, <1>8

LEMMA ReceiveInfoKeeps == ASSUME Inv, NEW l \in Lanes, ReceiveInfo(l) PROVE Inv'
<1> USE DEF Inv
<1>1. /\ spc[l] = "info" /\ spc' = [spc EXCEPT ![l] = "chunks"]
      /\ toSender[l] # <<>> /\ toSender' = [toSender EXCEPT ![l] = Tail(@)]
      /\ UNCHANGED <<sengine, rengine, rpc, toReceiver, posted, using, arrived, received,
                     sexit, rexit>>
  BY DEF ReceiveInfo, SenderGoes, Hears, chunks, exits
<1>2. toSender' \in [Lanes -> Seq({"region"})]
  <2>1. toSender \in [Lanes -> Seq({"region"})]
    BY DEF TypeOK
  <2> QED BY <1>1, <2>1, HearsWhat
<1>3. TypeOK'
  BY <1>1, <1>2 DEF TypeOK
<1>4. \A k \in Lanes : spc'[k] = "finished" <=> spc[k] = "finished"
  BY <1>1 DEF TypeOK
<1>5. ToldByFinished'
  <2>1. \A k \in Lanes : AllComplete(k)' <=> AllComplete(k)
    BY <1>1 DEF AllComplete
  <2> QED BY <1>1, <1>4, <2>1 DEF ToldByFinished
<1>6. rengine # "tag"
  BY <1>1 DEF NoRegion
<1>7. LandedIfComplete' /\ OwnBranch' /\ FramesTaken' /\ NobodyFetches' /\ Joined' /\ NoRegion'
  BY <1>1, <1>4, <1>6
     DEF LandedIfComplete, OwnBranch, FramesTaken, NobodyFetches, Joined, NoRegion
<1> QED BY <1>3, <1>5, <1>7

LEMMA SendDoneKeeps == ASSUME Inv, NEW l \in Lanes, SendDone(l) PROVE Inv'
<1> USE DEF Inv
<1>1. /\ AllComplete(l) /\ spc[l] = "chunks" /\ spc' = [spc EXCEPT ![l] = "finished"]
      /\ toReceiver' = [toReceiver EXCEPT ![l] = Append(@, "done")]
      /\ UNCHANGED <<sengine, rengine, rpc, toSender, posted, using, arrived, received,
                     sexit, rexit>>
  BY DEF SendDone, SenderGoes, Says, chunks, exits
<1>2. /\ toReceiver' \in [Lanes -> Seq({"meta", "done"})]
      /\ \A k \in Lanes : \A i \in 1..Len(toReceiver'[k]) :
            \/ k = l /\ toReceiver'[k][i] = "done"
            \/ i \in 1..Len(toReceiver[k]) /\ toReceiver'[k][i] = toReceiver[k][i]
  <2>1. toReceiver \in [Lanes -> Seq({"meta", "done"})] /\ "done" \in {"meta", "done"}
    BY DEF TypeOK
  <2> QED BY <1>1, <2>1, SaysWhat
<1>3. TypeOK'
  BY <1>1, <1>2 DEF TypeOK
<1>4. \A k \in Lanes : spc'[k] = "finished" <=> k = l \/ spc[k] = "finished"
  BY <1>1 DEF TypeOK
<1>5. ToldByFinished'
  <2>1. \A k \in Lanes : AllComplete(k)' <=> AllComplete(k)
    BY <1>1 DEF AllComplete
  <2> QED BY <1>1, <1>2, <1>4, <2>1 DEF ToldByFinished
<1>6. NoRegion'
  BY <1>1 DEF NoRegion
<1>7. LandedIfComplete' /\ OwnBranch' /\ FramesTaken' /\ NobodyFetches' /\ Joined'
  BY <1>1, <1>4 DEF LandedIfComplete, OwnBranch, FramesTaken, NobodyFetches, Joined
<1> QED BY <1>3, <1>5, <1>6, <1>7

\* A chunk is posted: its lane is not finished.
LEMMA PostKeeps ==
    ASSUME Inv, NEW l \in Lanes, NEW c \in Given[l], Post(l, c) PROVE Inv'
<1> USE DEF Inv
<1>1. /\ spc[l] = "chunks" /\ c \in Given[l] \ posted
      /\ posted' = posted \cup {c}
      /\ using' = using \cup {c} \/ (OwnAccord(c) /\ using' = using)
      /\ UNCHANGED <<sengine, rengine, spc, rpc, toReceiver, toSender, arrived, received,
                     sexit, rexit>>
  BY DEF Post, streams, exits
<1>2. c \in Chunks /\ c \notin using /\ c \notin arrived
  BY <1>1 DEF TypeOK
<1>0. /\ using' = using \/ using' = using \cup {c}
      /\ c \notin using' => IF sengine = "tag" THEN c \in Small ELSE c \in EarlyPuts
  BY <1>1, <1>2 DEF OwnAccord
<1>3. TypeOK'
  BY <1>0, <1>1, <1>2 DEF TypeOK
<1>4. ToldByFinished'
  <2>1. \A k \in Lanes : spc[k] = "finished" => c \notin Given[k]
    BY <1>1
  <2>2. \A k \in Lanes : spc[k] = "finished" /\ AllComplete(k) => AllComplete(k)'
    BY <1>0, <1>1, <2>1 DEF AllComplete
  <2> QED BY <1>1, <2>2 DEF ToldByFinished
<1>5. LandedIfComplete'
  BY <1>0, <1>1 DEF LandedIfComplete
<1>6. NobodyFetches'
  BY <1>0, <1>1 DEF NobodyFetches
<1>7. OwnBranch' /\ FramesTaken' /\ Joined' /\ NoRegion'
  BY <1>1 DEF OwnBranch, FramesTaken, Joined, NoRegion
<1> QED BY <1>3, <1>4, <1>5, <1>6, <1>7

\* A chunk arrives, fetched or landed, and its request completes.
LEMMA ArrivalKeeps ==
    ASSUME Inv, NEW c \in posted, received' \in Nat,
           arrived' = arrived \cup {c}, using' = using \ {c},
           sengine = "tag" => rengine = "tag",
           UNCHANGED <<sengine, rengine, spc, rpc, streams, posted, exits>>
    PROVE  Inv'
<1> USE DEF Inv
<1>1. UNCHANGED <<toReceiver, toSender, sexit, rexit>>
  BY DEF streams, exits
<1>2. TypeOK'
  BY <1>1 DEF TypeOK
<1>3. ToldByFinished'
  <2>1. \A k \in Lanes : AllComplete(k) => AllComplete(k)'
    BY DEF AllComplete
  <2> QED BY <1>1, <2>1 DEF ToldByFinished
<1>4. LandedIfComplete' /\ NobodyFetches'
  BY DEF LandedIfComplete, NobodyFetches
<1>5. FramesTaken'
  BY DEF FramesTaken
<1>6. OwnBranch' /\ Joined' /\ NoRegion'
  BY <1>1 DEF OwnBranch, Joined, NoRegion
<1> QED BY <1>2, <1>3, <1>4, <1>5, <1>6

\* UCX completes a request on its own.
LEMMA LeaveBufferKeeps ==
    ASSUME Inv, NEW c \in Chunks, LeaveBuffer(c) PROVE Inv'
<1> USE DEF Inv
<1>1. /\ IF sengine = "tag" THEN c \in Small ELSE c \in EarlyPuts
      /\ using' = using \ {c}
      /\ UNCHANGED <<sengine, rengine, spc, rpc, toReceiver, toSender, posted, arrived,
                     received, sexit, rexit>>
  BY DEF LeaveBuffer, OwnAccord, streams, exits
<1>2. TypeOK'
  BY <1>1 DEF TypeOK
<1>3. ToldByFinished'
  <2>1. \A k \in Lanes : AllComplete(k) => AllComplete(k)'
    BY <1>1 DEF AllComplete
  <2> QED BY <1>1, <2>1 DEF ToldByFinished
<1>4. LandedIfComplete' /\ NobodyFetches'
  BY <1>1 DEF LandedIfComplete, NobodyFetches
<1>5. OwnBranch' /\ FramesTaken' /\ Joined' /\ NoRegion'
  BY <1>1 DEF OwnBranch, FramesTaken, Joined, NoRegion
<1> QED BY <1>2, <1>3, <1>4, <1>5

\* The receiver's thread of lane l goes on, without a word from the sender
\* or after one.
LEMMA ReceiverKeeps ==
    ASSUME Inv, NEW l \in Lanes, NEW to,
           to \in {"map", "await", "frames", "done", "finished"},
           rpc' = [rpc EXCEPT ![l] = to], rpc[l] # "finished",
           to \in {"map", "await"} => rengine = "rma",
           to \in {"frames", "done"} => rengine = "tag",
           rengine = "tag" /\ to \in {"done", "finished"} => Given[l] \subseteq arrived,
           to = "finished" => spc[l] = "finished",
           \/ UNCHANGED toReceiver
           \/ toReceiver[l] # <<>> /\ toReceiver' = [toReceiver EXCEPT ![l] = Tail(@)],
           toSender' \in [Lanes -> Seq({"region"})],
           rengine = "tag" => UNCHANGED toSender,
           received' \in Nat,
           UNCHANGED <<sengine, rengine, spc, posted, using, arrived, exits>>
    PROVE  Inv'
<1> USE DEF Inv
<1>1. UNCHANGED <<sexit, rexit>>
  BY DEF exits
<1>2. /\ toReceiver' \in [Lanes -> Seq({"meta", "done"})]
      /\ \A k \in Lanes : \A i \in 1..Len(toReceiver'[k]) :
            \E j \in 1..Len(toReceiver[k]) : toReceiver'[k][i] = toReceiver[k][j]
  <2>1. toReceiver \in [Lanes -> Seq({"meta", "done"})]
    BY DEF TypeOK
  <2>2. CASE UNCHANGED toReceiver
    BY <2>1, <2>2
  <2>3. CASE toReceiver[l] # <<>> /\ toReceiver' = [toReceiver EXCEPT ![l] = Tail(@)]
    <3>1. l \in Lanes
      OBVIOUS
    <3> HIDE DEF Inv
    <3> QED BY ONLY <2>1, <2>3, <3>1, HearsWhat
  <2> QED BY <2>2, <2>3
<1>3. TypeOK'
  BY <1>1, <1>2 DEF TypeOK
<1>4. \A k \in Lanes : rpc'[k] = IF k = l THEN to ELSE rpc[k]
  BY DEF TypeOK
<1>5. ToldByFinished'
  <2>1. \A k \in Lanes : AllComplete(k)' <=> AllComplete(k)
    BY DEF AllComplete
  <2>2. \A k \in Lanes : \A i \in 1..Len(toReceiver'[k]) :
           toReceiver'[k][i] = "done" => spc'[k] = "finished"
    <3> SUFFICES ASSUME NEW k \in Lanes, NEW i \in 1..Len(toReceiver'[k]),
                        toReceiver'[k][i] = "done"
                 PROVE  spc'[k] = "finished"
      OBVIOUS
    <3>1. PICK j \in 1..Len(toReceiver[k]) : toReceiver'[k][i] = toReceiver[k][j]
      <4> HIDE DEF Inv
      <4> QED BY ONLY <1>2, k \in Lanes, i \in 1..Len(toReceiver'[k])
    <3> QED BY <3>1 DEF ToldByFinished
  <2>3. \A k \in Lanes : rpc'[k] = "finished" => spc'[k] = "finished"
    BY <1>4 DEF ToldByFinished
  <2> QED BY <2>1, <2>2, <2>3 DEF ToldByFinished
<1>6. OwnBranch' /\ FramesTaken'
  BY <1>4 DEF OwnBranch, FramesTaken
<1>7. Joined'
  BY <1>1, <1>4 DEF Joined
<1>8. LandedIfComplete' /\ NobodyFetches' /\ NoRegion'
  BY DEF LandedIfComplete, NobodyFetches, NoRegion
<1> QED BY <1>3, <1>5, <1>6, <1>7, <1>8

\* Hearing the first frame of the stream.
LEMMA HeardDone ==
    ASSUME Inv, NEW l \in Lanes, Hears(toReceiver, l, "done")
    PROVE  spc[l] = "finished" /\ Given[l] \subseteq posted \ using
<1>1. toReceiver \in [Lanes -> Seq({"meta", "done"})]
  BY DEF Inv, TypeOK
<1>2. toReceiver[l] # <<>> /\ Head(toReceiver[l]) = "done"
      /\ toReceiver' = [toReceiver EXCEPT ![l] = Tail(@)]
  BY DEF Hears
<1>3. 1 \in 1..Len(toReceiver[l]) /\ toReceiver[l][1] = "done"
  BY <1>1, <1>2, HearsWhat
<1> QED BY <1>3 DEF Inv, ToldByFinished, AllComplete

\* The loop has taken as many different chunks of the lane as it has.
LEMMA AllTaken ==
    ASSUME Inv, NEW l \in Lanes, Cardinality(arrived \cap Given[l]) >= LaneChunks(l)
    PROVE  Given[l] \subseteq arrived
<1>1. IsFiniteSet(Given[l]) /\ arrived \cap Given[l] \subseteq Given[l]
  BY LaneChunksType
<1>2. /\ Cardinality(arrived \cap Given[l]) <= Cardinality(Given[l])
      /\ Cardinality(arrived \cap Given[l]) = Cardinality(Given[l])
            => arrived \cap Given[l] = Given[l]
  BY <1>1, FS_Subset
<1>3. Cardinality(arrived \cap Given[l]) \in Nat /\ Cardinality(Given[l]) \in Nat
  BY <1>1, FS_Subset, FS_CardinalityType
<1>4. Cardinality(arrived \cap Given[l]) = Cardinality(Given[l])
  BY <1>2, <1>3 DEF LaneChunks
<1> QED BY <1>2, <1>4

LEMMA ReceiverThreadKeeps ==
    ASSUME Inv, NEW l \in Lanes, ReceiverThread(l) PROVE Inv'
<1>1. CASE ReceiveMeta(l)
  <2>1. /\ rpc[l] = "meta" /\ rpc' = [rpc EXCEPT ![l] = OwnEngine]
        /\ toReceiver[l] # <<>> /\ toReceiver' = [toReceiver EXCEPT ![l] = Tail(@)]
        /\ UNCHANGED <<toSender, received>>
        /\ UNCHANGED <<sengine, rengine, spc, posted, using, arrived, exits>>
    BY <1>1 DEF ReceiveMeta, ReceiverGoes, Hears, chunks
  <2>2. /\ OwnEngine \in {"map", "frames"}
        /\ OwnEngine = "map" <=> rengine = "rma"
        /\ rengine \in {"tag", "rma"}
    BY DEF OwnEngine, Inv, TypeOK, Engine
  <2>3. toSender' \in [Lanes -> Seq({"region"})] /\ received' \in Nat
    BY <2>1 DEF Inv, TypeOK
  <2> QED BY <2>1, <2>2, <2>3, ReceiverKeeps
<1>2. CASE MapRegion(l)
  <2>1. /\ rpc[l] = "map" /\ rpc' = [rpc EXCEPT ![l] = "await"]
        /\ toSender' = [toSender EXCEPT ![l] = Append(@, "region")]
        /\ UNCHANGED <<toReceiver, received>>
        /\ UNCHANGED <<sengine, rengine, spc, posted, using, arrived, exits>>
    BY <1>2 DEF MapRegion, ReceiverGoes, Says, chunks
  <2>2. toSender' \in [Lanes -> Seq({"region"})]
    <3>1. toSender \in [Lanes -> Seq({"region"})] /\ "region" \in {"region"}
      BY DEF Inv, TypeOK
    <3> QED BY <2>1, <3>1, SaysWhat
  <2>3. rengine = "rma" /\ received' \in Nat
    BY <2>1 DEF Inv, TypeOK, OwnBranch
  <2> QED BY <2>1, <2>2, <2>3, ReceiverKeeps
<1>3. CASE CountOnDone(l)
  <2>1. /\ rpc[l] = "await" /\ rpc' = [rpc EXCEPT ![l] = "finished"]
        /\ Hears(toReceiver, l, "done")
        /\ toReceiver[l] # <<>> /\ toReceiver' = [toReceiver EXCEPT ![l] = Tail(@)]
        /\ received' = received + LaneChunks(l) /\ UNCHANGED toSender
        /\ UNCHANGED <<sengine, rengine, spc, posted, using, arrived, exits>>
    BY <1>3 DEF CountOnDone, ReceiverGoes, Hears, chunks
  <2>2. spc[l] = "finished"
    BY <2>1, HeardDone
  <2>3. rengine = "rma" /\ toSender' \in [Lanes -> Seq({"region"})]
    BY <2>1 DEF Inv, TypeOK, OwnBranch
  <2>4. received' \in Nat
    BY <2>1, LaneChunksType DEF Inv, TypeOK
  <2> QED BY <2>1, <2>2, <2>3, <2>4, ReceiverKeeps
<1>4. CASE EndFrames(l)
  <2>1. /\ rpc[l] = "frames" /\ rpc' = [rpc EXCEPT ![l] = "done"]
        /\ Cardinality(arrived \cap Given[l]) >= LaneChunks(l)
        /\ UNCHANGED <<toReceiver, toSender, received>>
        /\ UNCHANGED <<sengine, rengine, spc, posted, using, arrived, exits>>
    BY <1>4 DEF EndFrames, ReceiverGoes, streams, chunks
  <2>2. Given[l] \subseteq arrived
    BY <2>1, AllTaken
  <2>3. rengine = "tag" /\ toSender' \in [Lanes -> Seq({"region"})] /\ received' \in Nat
    BY <2>1 DEF Inv, TypeOK, OwnBranch
  <2> QED BY <2>1, <2>2, <2>3, ReceiverKeeps
<1>5. CASE ReceiveDone(l)
  <2>1. /\ rpc[l] = "done" /\ rpc' = [rpc EXCEPT ![l] = "finished"]
        /\ Hears(toReceiver, l, "done")
        /\ toReceiver[l] # <<>> /\ toReceiver' = [toReceiver EXCEPT ![l] = Tail(@)]
        /\ UNCHANGED <<toSender, received>>
        /\ UNCHANGED <<sengine, rengine, spc, posted, using, arrived, exits>>
    BY <1>5 DEF ReceiveDone, ReceiverGoes, Hears, chunks
  <2>2. spc[l] = "finished"
    BY <2>1, HeardDone
  <2>3. /\ rengine = "tag" => Given[l] \subseteq arrived
        /\ toSender' \in [Lanes -> Seq({"region"})] /\ received' \in Nat
    BY <2>1 DEF Inv, TypeOK, FramesTaken
  <2> QED BY <2>1, <2>2, <2>3, ReceiverKeeps
<1>6. ASSUME NEW c \in Given[l], Process(l, c) PROVE Inv'
  <2>1. /\ rpc[l] = "frames" /\ c \in posted
        /\ received' = received + 1
        /\ arrived' = arrived \cup {c} /\ using' = using \ {c}
        /\ UNCHANGED <<sengine, rengine, spc, rpc, streams, posted, exits>>
    BY <1>6 DEF Process
  <2>2. rengine = "tag" /\ received' \in Nat
    BY <2>1 DEF Inv, TypeOK, OwnBranch
  <2> QED BY <2>1, <2>2, ArrivalKeeps
<1> QED BY <1>1, <1>2, <1>3, <1>4, <1>5, <1>6 DEF ReceiverThread

LEMMA InvNext == Inv /\ [Next]_vars => Inv'
<1> SUFFICES ASSUME Inv, [Next]_vars PROVE Inv'
  OBVIOUS
<1>1. ASSUME NEW l \in Lanes, SenderThread(l) PROVE Inv'
  <2>1. ASSUME NEW c \in Given[l], Post(l, c) PROVE Inv'
    BY <2>1, PostKeeps
  <2> QED BY <1>1, <2>1, SendMetaKeeps, ReceiveInfoKeeps, SendDoneKeeps DEF SenderThread
<1>2. ASSUME NEW l \in Lanes, ReceiverThread(l) PROVE Inv'
  BY <1>2, ReceiverThreadKeeps
<1>3. ASSUME NEW c \in Chunks, Land(c) PROVE Inv'
  <2>1. /\ sengine = "rma" /\ c \in posted
        /\ arrived' = arrived \cup {c} /\ using' = using \ {c}
        /\ UNCHANGED <<sengine, rengine, spc, rpc, streams, posted, exits>>
        /\ UNCHANGED received
    BY <1>3 DEF Land
  <2>2. received' \in Nat /\ sengine # "tag"
    BY <2>1 DEF Inv, TypeOK
  <2> QED BY <2>1, <2>2, ArrivalKeeps
<1>7. ASSUME NEW c \in Chunks, LeaveBuffer(c) PROVE Inv'
  BY <1>7, LeaveBufferKeeps
<1>4. CASE SenderExit
  <2>1. /\ \A l \in Lanes : spc[l] = "finished"
        /\ sexit' = "0"
        /\ UNCHANGED <<sengine, rengine, spc, rpc, toReceiver, toSender, posted, using,
                       arrived, received, rexit>>
    BY <1>4 DEF SenderExit, streams, chunks
  <2>2. TypeOK' /\ Joined'
    BY <2>1 DEF Inv, TypeOK, Joined
  <2>3. ToldByFinished'
    BY <2>1 DEF Inv, ToldByFinished, AllComplete
  <2> QED BY <2>1, <2>2, <2>3
          DEF Inv, LandedIfComplete, OwnBranch, FramesTaken, NobodyFetches, NoRegion
<1>5. CASE ReceiverExit
  <2>1. /\ \A l \in Lanes : rpc[l] = "finished"
        /\ rexit' \in {"0", "1"}
        /\ UNCHANGED <<sengine, rengine, spc, rpc, toReceiver, toSender, posted, using,
                       arrived, received, sexit>>
    BY <1>5 DEF ReceiverExit, streams, chunks
  <2>2. TypeOK' /\ Joined'
    BY <2>1 DEF Inv, TypeOK, Joined
  <2>3. ToldByFinished'
    BY <2>1 DEF Inv, ToldByFinished, AllComplete
  <2> QED BY <2>1, <2>2, <2>3
          DEF Inv, LandedIfComplete, OwnBranch, FramesTaken, NobodyFetches, NoRegion
<1>6. CASE UNCHANGED vars
  <2>1. UNCHANGED <<sengine, rengine, spc, rpc, toReceiver, toSender, posted, using,
                    arrived, received, sexit, rexit>>
    BY <1>6 DEF vars, streams, chunks, exits
  <2>2. TypeOK' /\ Joined'
    BY <2>1 DEF Inv, TypeOK, Joined
  <2>3. ToldByFinished'
    BY <2>1 DEF Inv, ToldByFinished, AllComplete
  <2> QED BY <2>1, <2>2, <2>3
          DEF Inv, LandedIfComplete, OwnBranch, FramesTaken, NobodyFetches, NoRegion
<1> QED BY <1>1, <1>2, <1>3, <1>4, <1>5, <1>6, <1>7 DEF Next

LEMMA Invariance == Spec => []Inv
<1> QED BY InvInit, InvNext, PTL DEF Spec
----------------------------------------------------------------------------
(* The theorems.                                                           *)

\* The variables of both programs keep their types.
THEOREM TypeCorrect == Spec => []TypeOK
<1>1. Inv => TypeOK
  BY DEF Inv
<1> QED BY Invariance, <1>1, PTL

\* With the same --engine on both sides a receiver that reports success has
\* every chunk but the puts that UCX has completed before they landed.
THEOREM OkIsArrived == Spec => []OkMeansArrived
<1>1. Inv => OkMeansArrived
  <2> SUFFICES ASSUME Inv, rexit = "0", sengine = rengine, NEW c \in Chunks \ arrived
               PROVE  sengine = "rma" /\ c \in EarlyPuts
    BY DEF OkMeansArrived
  <2>1. \A l \in Lanes : rpc[l] = "finished"
    BY DEF Inv, Joined
  <2>2. PICK l \in Lanes : c \in Given[l]
    OBVIOUS
  <2>3. rengine = "rma"
    BY <2>1, <2>2 DEF Inv, FramesTaken, TypeOK, Engine
  <2>4. Given[l] \subseteq posted \ using
    BY <2>1 DEF Inv, ToldByFinished, AllComplete
  <2> QED BY <2>2, <2>3, <2>4 DEF Inv, LandedIfComplete
<1> QED BY Invariance, <1>1, PTL

\* With different ones neither side reports success, as long as there is a
\* chunk that is not sent eagerly.
THEOREM MismatchFails == Spec => []MismatchNeverSucceeds
<1>1. Inv => MismatchNeverSucceeds
  <2> SUFFICES ASSUME Inv, sengine # rengine, NEW c \in Chunks \ Small,
                      sexit = "0" \/ rexit = "0"
               PROVE  FALSE
    BY DEF MismatchNeverSucceeds
  <2>1. \A l \in Lanes : spc[l] = "finished"
    BY DEF Inv, Joined, ToldByFinished
  <2>2. PICK l \in Lanes : c \in Given[l]
    OBVIOUS
  <2>3. c \in posted \ using
    BY <2>1, <2>2 DEF Inv, ToldByFinished, AllComplete
  <2>4. CASE sengine = "tag" /\ rengine = "rma"
    BY <2>3, <2>4 DEF Inv, NobodyFetches
  <2>5. CASE sengine = "rma" /\ rengine = "tag"
    BY <2>1, <2>2, <2>5 DEF Inv, NoRegion
  <2> QED BY <2>4, <2>5 DEF Inv, TypeOK, Engine
<1> QED BY Invariance, <1>1, PTL
----------------------------------------------------------------------------
(* A lane with --engine rma (RmaLane), for any depths, chunk size and       *)
(* chunks.  A put that has not landed, and that UCX does not complete      *)
(* early, has a posted request in some slot (FlyingIsHeld); the done frame *)
(* is sent when no slot has a request, so then there is no such put.       *)

USE DepthsAssumption, SizesAssumption, AssignedAssumption, EarlyAssumption

FlyingIsHeld ==
    \A p \in flying \ Early : \E s \in Slot : request[s] = "posted" /\ carries[s] = p

\* What each thread's progress says about the region and the requests.
RmaProgress ==
    /\ IF sthread = "info" THEN flying = {} ELSE length = RegionLength
    /\ sthread = "finished" => \A s \in Slot : request[s] = "null"
    /\ counted # 0 => sthread = "finished"

RmaInv == RmaTypeOK /\ FlyingIsHeld /\ RmaProgress

----------------------------------------------------------------------------

LEMMA LengthIsNat == Len(Assigned) \in Nat /\ \A p \in Put : Assigned[p] \in Nat
BY LenProperties, ElementOfSeq DEF Put

\* A remainder is smaller than what divides.
LEMMA RemainderBound ==
    ASSUME NEW a \in Nat, NEW b \in Nat \ {0} PROVE a % b \in 0..b-1
OBVIOUS

LEMMA RegionLengthType == RegionLength \in 0..Wrap-1
<1>1. RecvDepth * ChunkSize \in Nat
  OBVIOUS
<1> QED BY <1>1, RemainderBound DEF RegionLength

\* A slot of a row ends inside the first n of the row if and only if it is one
\* of them.
LEMMA SlotEnds ==
    ASSUME NEW r \in Nat, NEW n \in Nat \ {0}
    PROVE  /\ r < n => r * ChunkSize + ChunkSize <= n * ChunkSize
           /\ r >= n => r * ChunkSize + ChunkSize > n * ChunkSize
           /\ r >= n - 1 => r * ChunkSize + ChunkSize >= n * ChunkSize
<1>1. ASSUME r + 1 <= n PROVE r * ChunkSize + ChunkSize <= n * ChunkSize
  <2> DEFINE k == n - (r + 1)
  <2>1. k \in Nat /\ n = (r + 1) + k
    BY <1>1
  <2> HIDE DEF k
  <2>2. n * ChunkSize = r * ChunkSize + ChunkSize + k * ChunkSize
    <3>1. ((r + 1) + k) * ChunkSize = r * ChunkSize + ChunkSize + k * ChunkSize
      BY <2>1
    <3> QED BY <2>1, <3>1
  <2>3. k * ChunkSize \in Nat /\ r * ChunkSize \in Nat
    BY <2>1
  <2> QED BY <2>2, <2>3
<1>2. ASSUME r + 1 >= n PROVE r * ChunkSize + ChunkSize >= n * ChunkSize
  <2> DEFINE k == (r + 1) - n
  <2>1. k \in Nat /\ r + 1 = n + k
    BY <1>2
  <2> HIDE DEF k
  <2>2. (r + 1) * ChunkSize = n * ChunkSize + k * ChunkSize
    <3>1. (n + k) * ChunkSize = n * ChunkSize + k * ChunkSize
      BY <2>1
    <3> QED BY <2>1, <3>1
  <2>3. (r + 1) * ChunkSize = r * ChunkSize + ChunkSize
    OBVIOUS
  <2>4. k * ChunkSize \in Nat /\ n * ChunkSize \in Nat /\ r * ChunkSize \in Nat
    BY <2>1
  <2> QED BY <2>2, <2>3, <2>4
<1>3. ASSUME r >= n PROVE r * ChunkSize + ChunkSize > n * ChunkSize
  <2> DEFINE k == r - n
  <2>1. k \in Nat /\ r = n + k
    BY <1>3
  <2> HIDE DEF k
  <2>2. r * ChunkSize = n * ChunkSize + k * ChunkSize
    <3>1. (n + k) * ChunkSize = n * ChunkSize + k * ChunkSize
      BY <2>1
    <3> QED BY <2>1, <3>1
  <2>3. k * ChunkSize \in Nat /\ n * ChunkSize \in Nat
    BY <2>1
  <2> QED BY <2>2, <2>3
<1> QED BY <1>1, <1>2, <1>3

\* A put is inside the region the receiver has mapped if and only if its slot
\* is; when the product has wrapped, the last slot is outside.
LEMMA OffsetInside ==
    ASSUME NEW p \in Put
    PROVE  LET slot == Assigned[p] % SendDepth
               inside == Offset(p) + ChunkSize <= RegionLength
           IN  IF RecvDepth * ChunkSize < Wrap
               THEN inside <=> slot < RecvDepth
               ELSE slot >= RecvDepth - 1 => ~inside
<1> DEFINE r == Assigned[p] % SendDepth
           n == RecvDepth * ChunkSize
<1>1. r \in Nat
  <2>1. Assigned[p] \in Nat
    BY LengthIsNat
  <2>2. r \in 0..SendDepth-1
    BY <2>1, RemainderBound
  <2> HIDE DEF r
  <2> QED BY <2>2
<1>2. n \in Nat /\ RegionLength = n % Wrap
  BY DEF RegionLength
<1>3. RegionLength \in 0..Wrap-1
  BY RegionLengthType
<1>4. Offset(p) = r * ChunkSize
  BY DEF Offset
<1> HIDE DEF r
<1>5. r * ChunkSize \in Nat
  BY <1>1
<1>6. /\ r < RecvDepth => r * ChunkSize + ChunkSize <= n
      /\ r >= RecvDepth => r * ChunkSize + ChunkSize > n
      /\ r >= RecvDepth - 1 => r * ChunkSize + ChunkSize >= n
  BY <1>1, SlotEnds
<1> HIDE DEF n
<1>7. CASE n < Wrap
  <2>1. RegionLength = n
    BY <1>2, <1>7
  <2>2. Offset(p) + ChunkSize <= RegionLength <=> r < RecvDepth
    BY <1>1, <1>4, <1>5, <1>6, <1>2, <2>1
  <2> QED BY <1>7, <2>2 DEF r, n
<1>8. CASE ~(n < Wrap)
  <2>1. r >= RecvDepth - 1 => ~(Offset(p) + ChunkSize <= RegionLength)
    BY <1>2, <1>3, <1>4, <1>5, <1>6, <1>8
  <2> QED BY <1>8, <2>1 DEF r, n
<1> QED BY <1>7, <1>8

LEMMA RmaInvInit == ASSUME RmaInit PROVE RmaInv
<1>1. RmaTypeOK
  BY LengthIsNat DEF RmaInit, RmaTypeOK, Slot, Put
<1>2. FlyingIsHeld /\ RmaProgress
  BY DEF RmaInit, FlyingIsHeld, RmaProgress
<1> QED BY <1>1, <1>2 DEF RmaInv

LEMMA PostPutKeeps ==
    ASSUME RmaInv, NEW s \in Slot, PostPut(s)
    PROVE  RmaInv'
<1>0. PICK answer \in Returned(next) : request' = [request EXCEPT ![s] = answer]
  BY DEF PostPut
<1>1. /\ sthread = "put" /\ next \in Put /\ request[s] = "null"
      /\ carries' = [carries EXCEPT ![s] = next]
      /\ flying' = flying \cup {next} /\ next' = next + 1
      /\ UNCHANGED <<sthread, rthread, length, counted>>
  BY LengthIsNat DEF PostPut, MorePuts, IsFree, RmaInv, RmaTypeOK, Put
<1>2. answer \in {"posted", "null"} /\ (next \notin Early => answer = "posted")
  BY <1>0 DEF Returned
<1>3. RmaTypeOK'
  BY <1>0, <1>1, <1>2, LengthIsNat DEF RmaInv, RmaTypeOK, Put
<1>4. FlyingIsHeld'
  <2> SUFFICES ASSUME NEW p \in flying' \ Early
               PROVE  \E t \in Slot : request'[t] = "posted" /\ carries'[t] = p
    BY DEF FlyingIsHeld
  <2>1. CASE p = next
    <3>1. request'[s] = "posted" /\ carries'[s] = p
      BY <1>0, <1>1, <1>2, <2>1 DEF RmaInv, RmaTypeOK
    <3> QED BY <3>1
  <2>2. CASE p # next
    <3>1. PICK t \in Slot : request[t] = "posted" /\ carries[t] = p
      BY <1>1, <2>2 DEF RmaInv, FlyingIsHeld
    <3>2. t # s
      BY <1>1, <3>1
    <3>3. request'[t] = "posted" /\ carries'[t] = p
      BY <1>0, <1>1, <3>1, <3>2 DEF RmaInv, RmaTypeOK
    <3> QED BY <3>3
  <2> QED BY <2>1, <2>2
<1>5. RmaProgress'
  BY <1>1 DEF RmaInv, RmaProgress, RegionLength
<1> QED BY <1>3, <1>4, <1>5 DEF RmaInv

LEMMA RmaInvNext == ASSUME RmaInv, [RmaNext]_rmaVars PROVE RmaInv'
<1> USE DEF RmaInv
<1>1. CASE OpenRegion \/ EndPuts
  <2>1. /\ UNCHANGED <<next, request, carries, length, flying, counted>>
        /\ (sthread' = sthread \/ (sthread = "put" /\ sthread' = "wait"))
        /\ (rthread' = rthread \/ rthread' = "await")
    BY <1>1 DEF OpenRegion, EndPuts
  <2>2. RmaTypeOK'
    BY <2>1 DEF RmaTypeOK
  <2>3. FlyingIsHeld'
    BY <2>1 DEF FlyingIsHeld
  <2>4. RmaProgress'
    BY <2>1 DEF RmaProgress, RegionLength
  <2> QED BY <2>2, <2>3, <2>4
<1>2. CASE LearnRegion
  <2>1. RmaTypeOK'
    BY <1>2, RegionLengthType DEF LearnRegion, RmaTypeOK
  <2>2. FlyingIsHeld' /\ RmaProgress'
    BY <1>2 DEF LearnRegion, FlyingIsHeld, RmaProgress, RegionLength
  <2> QED BY <2>1, <2>2
<1>3. CASE SayDone
  <2>1. RmaTypeOK'
    BY <1>3 DEF SayDone, RmaTypeOK
  <2>2. FlyingIsHeld'
    BY <1>3 DEF SayDone, FlyingIsHeld
  <2>3. RmaProgress'
    BY <1>3 DEF SayDone, AllDone, IsFree, RmaProgress, RegionLength
  <2> QED BY <2>1, <2>2, <2>3
<1>4. CASE CountChunks
  <2>1. RmaTypeOK'
    BY <1>4 DEF CountChunks, RmaTypeOK
  <2>2. FlyingIsHeld' /\ RmaProgress'
    BY <1>4 DEF CountChunks, FlyingIsHeld, RmaProgress, RegionLength
  <2> QED BY <2>1, <2>2
<1>5. CASE \E s \in Slot : PostPut(s)
  BY <1>5, PostPutKeeps
<1>6. CASE \E s \in Slot : Release(s) \/ Complete(s)
  <2> PICK s \in Slot : Release(s) \/ Complete(s)
    BY <1>6
  <2>1. /\ UNCHANGED <<sthread, rthread, next, carries, length, flying, counted>>
        /\ sthread # "finished"
        /\ \/ request[s] = "complete" /\ request' = [request EXCEPT ![s] = "null"]
           \/ /\ carries[s] \notin flying \ Early
              /\ request' = [request EXCEPT ![s] = "complete"]
    BY DEF Release, Releases, Complete, Waiting
  <2>2. RmaTypeOK'
    BY <2>1 DEF RmaTypeOK
  <2>3. FlyingIsHeld'
    <3> SUFFICES ASSUME NEW p \in flying \ Early
                 PROVE  \E t \in Slot : request'[t] = "posted" /\ carries[t] = p
      BY <2>1 DEF FlyingIsHeld
    <3>1. PICK t \in Slot : request[t] = "posted" /\ carries[t] = p
      BY DEF FlyingIsHeld
    <3>2. request'[t] = "posted"
      BY <2>1, <3>1 DEF RmaTypeOK
    <3> QED BY <3>1, <3>2
  <2>4. RmaProgress'
    BY <2>1 DEF RmaProgress, RegionLength
  <2> QED BY <2>2, <2>3, <2>4
<1>7. CASE \E p \in Put : LandPut(p)
  <2>1. /\ flying' \subseteq flying
        /\ UNCHANGED <<sthread, rthread, next, request, carries, length, counted>>
    BY <1>7 DEF LandPut
  <2>2. RmaTypeOK'
    BY <2>1 DEF RmaTypeOK
  <2>3. FlyingIsHeld'
    BY <2>1 DEF FlyingIsHeld
  <2>4. RmaProgress'
    BY <2>1 DEF RmaProgress, RegionLength
  <2> QED BY <2>2, <2>3, <2>4
<1>8. CASE Ended \/ UNCHANGED rmaVars
  BY <1>8 DEF Ended, rmaVars, RmaTypeOK, FlyingIsHeld, RmaProgress, RegionLength
<1> QED BY <1>1, <1>2, <1>3, <1>4, <1>5, <1>6, <1>7, <1>8 DEF RmaNext, Sender, Receiver

LEMMA RmaInvariance == RmaSpec => []RmaInv
<1>1. RmaInit => RmaInv
  BY RmaInvInit
<1>2. RmaInv /\ [RmaNext]_rmaVars => RmaInv'
  BY RmaInvNext
<1> QED BY <1>1, <1>2, PTL DEF RmaSpec
----------------------------------------------------------------------------

\* Every variable of the lane stays in its type.
THEOREM RmaTypeCorrect == RmaSpec => []RmaTypeOK
<1>0. RmaSpec => []RmaInv
  BY RmaInvariance
<1>1. RmaInv => RmaTypeOK
  BY DEF RmaInv
<1> QED BY <1>0, <1>1, PTL

\* Whatever the two --depth options are, a put leaves the region exactly if
\* its slot is not one of the receiver's; if the product that is the region's
\* length has wrapped, puts to the receiver's last slot leave it, too.
THEOREM InsideRegion == RmaSpec => []InsideExactly
<1>0. RmaSpec => []RmaInv
  BY RmaInvariance
<1>1. RmaInv => InsideExactly
  <2> SUFFICES ASSUME RmaInv, NEW p \in flying
               PROVE  LET slot == Assigned[p] % SendDepth
                          inside == Offset(p) + ChunkSize <= length
                      IN  IF RecvDepth * ChunkSize < Wrap
                          THEN inside <=> slot < RecvDepth
                          ELSE slot >= RecvDepth - 1 => ~inside
    BY DEF InsideExactly
  <2>1. p \in Put /\ length = RegionLength
    BY DEF RmaInv, RmaTypeOK, RmaProgress
  <2> QED BY <2>1, OffsetInside
<1> QED BY <1>0, <1>1, PTL

\* The chunks counted on the done frame have landed, save for the puts that
\* UCX completes before they do.
THEOREM CountedLanded == RmaSpec => []CountedHaveLanded
<1>0. RmaSpec => []RmaInv
  BY RmaInvariance
<1>1. RmaInv => CountedHaveLanded
  <2> SUFFICES ASSUME RmaInv, counted # 0 PROVE flying \subseteq Early
    BY DEF CountedHaveLanded
  <2>1. \A s \in Slot : request[s] # "posted"
    BY DEF RmaInv, RmaProgress
  <2> QED BY <2>1 DEF RmaInv, FlyingIsHeld
<1> QED BY <1>0, <1>1, PTL
=============================================================================
