------------------------------- MODULE Engines -------------------------------
(***************************************************************************)
(* Both programs from --engine on: each chooses between tag messages and   *)
(* RMA by its own command line, and the metadata's engine is compared      *)
(* between lanes only, never with the receiver's own.  What the two say to *)
(* each other on the UCX stream of a lane (metadata, region, done frame),  *)
(* who waits for whom, and how the receiver comes to its count.            *)
(*                                                                         *)
(* The slots of a lane are left to SendLane, RecvLane and RmaLane.  A      *)
(* chunk sent by tag is fetched when the receiver has a receive for it;    *)
(* one that is sent eagerly is off the sender's hands before.  A put of    *)
(* EarlyPuts may be, too: ucp_put_nbx completes when the buffer may be     *)
(* used again, and no flush comes between the puts and the done frame.     *)
(***************************************************************************)
EXTENDS Integers, Sequences, FiniteSets

CONSTANTS Lanes,   \* the --lane options
          Chunks,  \* the chunks of the file: meta.total_chunks of them
          Given,   \* [Lanes -> SUBSET Chunks], the assignment of the sender
          Small,   \* the chunks sent eagerly with --engine tag
          EarlyPuts  \* those whose put UCX may complete before it lands

ASSUME LanesAssumption == IsFiniteSet(Lanes) /\ Lanes # {}
ASSUME ChunksAssumption ==
    IsFiniteSet(Chunks) /\ Small \subseteq Chunks /\ EarlyPuts \subseteq Chunks
\* ChunkAssignment's ExactlyOneLane.
ASSUME GivenAssumption ==
    /\ Given \in [Lanes -> SUBSET Chunks]
    /\ \A c \in Chunks : \E l \in Lanes : c \in Given[l]
    /\ \A l, k \in Lanes : l # k => Given[l] \cap Given[k] = {}

Engine == {"tag", "rma"}

VARIABLES
    sengine, rengine,  \* --engine of the sender and of the receiver
    spc, rpc,          \* the lane threads
    toReceiver,        \* the stream of a lane, one way
    toSender,          \* and the other
    posted,            \* the chunks sent or put
    using,             \* those whose request has not completed
    arrived,           \* those fetched by a receive, or landed in the region
    received,          \* SharedState: received_chunks
    sexit, rexit       \* exit statuses

streams == <<toReceiver, toSender>>
chunks == <<posted, using, arrived>>
exits == <<sexit, rexit>>
vars == <<sengine, rengine, spc, rpc, streams, chunks, received, exits>>

TypeOK ==
    /\ sengine \in Engine /\ rengine \in Engine
    /\ spc \in [Lanes -> {"meta", "info", "chunks", "finished"}]
    /\ rpc \in [Lanes -> {"meta", "map", "await", "frames", "done", "finished"}]
    /\ toReceiver \in [Lanes -> Seq({"meta", "done"})]
    /\ toSender \in [Lanes -> Seq({"region"})]
    /\ using \subseteq posted /\ posted \subseteq Chunks
    /\ arrived \subseteq posted
    /\ received \in Nat
    /\ sexit \in {"running", "0"} /\ rexit \in {"running", "0", "1"}

Init ==
    /\ sengine \in Engine /\ rengine \in Engine
    /\ spc = [l \in Lanes |-> "meta"]
    /\ rpc = [l \in Lanes |-> "meta"]
    /\ toReceiver = [l \in Lanes |-> <<>>]
    /\ toSender = [l \in Lanes |-> <<>>]
    /\ posted = {} /\ using = {} /\ arrived = {}
    /\ received = 0
    /\ sexit = "running" /\ rexit = "running"
----------------------------------------------------------------------------
(* The stream of a lane: send_all and recv_all.                            *)

Says(stream, l, frame) == stream' = [stream EXCEPT ![l] = Append(@, frame)]

Hears(stream, l, frame) ==
    /\ stream[l] # <<>> /\ Head(stream[l]) = frame
    /\ stream' = [stream EXCEPT ![l] = Tail(@)]

SenderGoes(l, from, to) ==
    /\ spc[l] = from /\ spc' = [spc EXCEPT ![l] = to]
    /\ UNCHANGED <<sengine, rengine, rpc, chunks, received, exits>>

ReceiverGoes(l, from, to) ==
    /\ rpc[l] = from /\ rpc' = [rpc EXCEPT ![l] = to]
    /\ UNCHANGED <<sengine, rengine, spc, chunks, exits>>
----------------------------------------------------------------------------
(* The sender's lane threads.                                              *)

\* With --engine rma the thread waits for the region.
AfterMeta == IF sengine = "rma" THEN "info" ELSE "chunks"

SendMeta(l) ==
    /\ SenderGoes(l, "meta", AfterMeta)
    /\ Says(toReceiver, l, "meta")
    /\ UNCHANGED toSender

ReceiveInfo(l) ==
    /\ SenderGoes(l, "info", "chunks")
    /\ Hears(toSender, l, "region")
    /\ UNCHANGED toReceiver

\* UCX may complete what was posted on its own, at once or later.
OwnAccord(c) == c \in (IF sengine = "tag" THEN Small ELSE EarlyPuts)

\* One turn of the chunk loop: post_tag_send and post_put return a request, or
\* none if they complete at once.
Post(l, c) ==
    /\ spc[l] = "chunks"
    /\ c \in Given[l] \ posted
    /\ posted' = posted \cup {c}
    /\ using' = using \cup {c} \/ (OwnAccord(c) /\ using' = using)
    /\ UNCHANGED <<sengine, rengine, spc, rpc, streams, arrived, received, exits>>

\* Mutation operator: the done frame does not wait for the requests.
AllPosted(l) == Given[l] \subseteq posted

\* The chunk loop is over and wait_for_all has returned.
AllComplete(l) == Given[l] \subseteq posted \ using

SendDone(l) ==
    /\ AllComplete(l)
    /\ SenderGoes(l, "chunks", "finished")
    /\ Says(toReceiver, l, "done")
    /\ UNCHANGED toSender

SenderExit ==
    /\ sexit = "running"
    /\ \A l \in Lanes : spc[l] = "finished"
    /\ sexit' = "0"
    /\ UNCHANGED <<sengine, rengine, spc, rpc, streams, chunks, received, rexit>>
----------------------------------------------------------------------------
(* The receiver's lane threads.                                            *)

\* The branch on the receiver's own option.
OwnEngine == IF rengine = "rma" THEN "map" ELSE "frames"

ReceiveMeta(l) ==
    /\ ReceiverGoes(l, "meta", OwnEngine)
    /\ Hears(toReceiver, l, "meta")
    /\ UNCHANGED <<toSender, received>>

\* The region is mapped and described to the sender.
MapRegion(l) ==
    /\ ReceiverGoes(l, "map", "await")
    /\ Says(toSender, l, "region")
    /\ UNCHANGED <<toReceiver, received>>

\* Mutation operator: the whole file's count instead of the lane's.
WholeFile(l) == Cardinality(Chunks)

\* lane_expected_chunks, from the metadata frame.
LaneChunks(l) == Cardinality(Given[l])

\* The done frame after RMA: the lane's chunks are counted unseen.
CountOnDone(l) ==
    /\ ReceiverGoes(l, "await", "finished")
    /\ Hears(toReceiver, l, "done")
    /\ received' = received + LaneChunks(l)
    /\ UNCHANGED toSender

\* A tag message is fetched and processed.
Process(l, c) ==
    /\ sengine = "tag" /\ rpc[l] = "frames"
    /\ c \in (posted \cap Given[l]) \ arrived
    /\ arrived' = arrived \cup {c}
    /\ using' = using \ {c}
    /\ received' = received + 1
    /\ UNCHANGED <<sengine, rengine, spc, rpc, streams, posted, exits>>

\* `completed < lane_expected_chunks' ends.
EndFrames(l) ==
    /\ Cardinality(arrived \cap Given[l]) >= LaneChunks(l)
    /\ ReceiverGoes(l, "frames", "done")
    /\ UNCHANGED <<streams, received>>

ReceiveDone(l) ==
    /\ ReceiverGoes(l, "done", "finished")
    /\ Hears(toReceiver, l, "done")
    /\ UNCHANGED <<toSender, received>>

\* A message that is not fetched, or a put that has not landed, is complete for
\* its sender.
LeaveBuffer(c) ==
    /\ c \in using /\ OwnAccord(c)
    /\ using' = using \ {c}
    /\ UNCHANGED <<sengine, rengine, spc, rpc, streams, posted, arrived, received, exits>>

\* A put lands, also while the receiver's thread is waiting.
Land(c) ==
    /\ sengine = "rma"
    /\ c \in posted \ arrived
    /\ arrived' = arrived \cup {c}
    /\ using' = using \ {c}
    /\ UNCHANGED <<sengine, rengine, spc, rpc, streams, posted, received, exits>>

\* main has joined all threads and compares the count.
ReceiverExit ==
    /\ rexit = "running"
    /\ \A l \in Lanes : rpc[l] = "finished"
    /\ rexit' = IF received = Cardinality(Chunks) THEN "0" ELSE "1"
    /\ UNCHANGED <<sengine, rengine, spc, rpc, streams, chunks, received, sexit>>
----------------------------------------------------------------------------
SenderThread(l) ==
    SendMeta(l) \/ ReceiveInfo(l) \/ SendDone(l) \/ \E c \in Given[l] : Post(l, c)

ReceiverThread(l) ==
    \/ ReceiveMeta(l) \/ MapRegion(l) \/ CountOnDone(l)
    \/ EndFrames(l) \/ ReceiveDone(l)
    \/ \E c \in Given[l] : Process(l, c)

Next ==
    \/ \E l \in Lanes : SenderThread(l) \/ ReceiverThread(l)
    \/ \E c \in Chunks : Land(c) \/ LeaveBuffer(c)
    \/ SenderExit \/ ReceiverExit

Spec == Init /\ [][Next]_vars

\* The threads are scheduled, and puts land.
FairSpec ==
    /\ Spec
    /\ \A l \in Lanes : WF_vars(SenderThread(l)) /\ WF_vars(ReceiverThread(l))
    /\ \A c \in Chunks : WF_vars(Land(c))
    /\ WF_vars(SenderExit) /\ WF_vars(ReceiverExit)
----------------------------------------------------------------------------
(* Properties.                                                             *)

\* With the same --engine, what the receiver lacks when it reports success is
\* at most the puts that UCX has completed early: nothing with --engine tag.
\* The chunks of an RMA lane are counted on a done frame that waits for the
\* requests only, so a put that is complete but has not landed is counted,
\* and its bytes come when the region is no longer mapped.
OkMeansArrived ==
    rexit = "0" /\ sengine = rengine =>
        Chunks \ arrived \subseteq (IF sengine = "rma" THEN EarlyPuts ELSE {})

\* Options that do not fit are never taken for a transfer: as long as there is
\* a chunk that has to be fetched, neither side succeeds.
MismatchNeverSucceeds ==
    sengine # rengine /\ Chunks \ Small # {} => sexit # "0" /\ rexit # "0"

\* Two ends with the same --engine always come to success together: no wait
\* for a region or a done frame is in vain, lanes without chunks included.
\* (Every message finds a receive here; RecvLane has the lanes that lose their
\* receives to eager frames and wait for ever.)
SameEngineSucceeds == sengine = rengine => <>(sexit = "0" /\ rexit = "0")
=============================================================================
