-------------------------------- MODULE Lane --------------------------------
(***************************************************************************)
(* A lane with --engine tag: the thread of the sender (SendLane) and that  *)
(* of the receiver (RecvLane) at the two ends of one UCX connection, slot  *)
(* by slot.                                                                *)
(*                                                                         *)
(* Each of the two modules assumes something of the other end: that it     *)
(* has receives outstanding for the oldest frames and reads them; that no  *)
(* more frames are unfetched than it has slots, and all are fetched before *)
(* the done frame.  Here nothing is assumed: the ends take part in each    *)
(* other's steps, and the composition is shown to implement both, as well  *)
(* as a lane of Transfer.                                                  *)
(***************************************************************************)
EXTENDS Integers, Sequences, FiniteSets

CONSTANTS SendDepth, RecvDepth,  \* --depth of the sender and of the receiver
          Total,                 \* the chunks of the lane
          Whole,                 \* the frames sent eagerly
          Unreadable,            \* the frames whose pread may fail
          Bad                    \* the frames process_slot may refuse

ASSUME DepthsAssumption == SendDepth \in Nat \ {0} /\ RecvDepth \in Nat \ {0}
ASSUME TotalAssumption == Total \in Nat
ASSUME FramesAssumption ==
    Whole \subseteq 1..Total /\ Unreadable \subseteq 1..Total /\ Bad \subseteq 1..Total

VARIABLES
    spc, sslot, any, next, srequest, buffer, wire, delivered,
    rpc, rslot, rrequest, frame, posted, completed, madeProgress, processed,
    receives, unexpected, arrived

svars == <<spc, sslot, any, next, srequest, buffer, wire, delivered>>
rvars == <<rpc, rslot, rrequest, frame, posted, completed, madeProgress,
           processed, receives, unexpected, arrived>>
vars == <<svars, rvars>>

S == INSTANCE SendLane
     WITH Depth <- SendDepth, pc <- spc, slot <- sslot, request <- srequest
R == INSTANCE RecvLane
     WITH Depth <- RecvDepth, Expected <- Total,
          pc <- rpc, slot <- rslot, request <- rrequest

Init == S!Init /\ R!Init
----------------------------------------------------------------------------
(* Steps of one end.                                                       *)

Sender ==
    /\ S!Thread \/ \E s \in S!Slot : S!Complete(s)
    /\ UNCHANGED rvars

\* recv_all returns the metadata once the sender has sent it.
ReceiveMeta == spc # "meta" /\ R!ReceiveMeta

\* recv_all returns the done frame once the sender has sent it.
ReceiveDone == spc = "finished" /\ R!TakeDone

Receiver ==
    /\ ReceiveMeta \/ R!LaneLoops \/ ReceiveDone
    /\ UNCHANGED svars

\* The receiver's worker is progressed, by its thread or by close_endpoint.
Listening == R!Progressing \/ rpc = "failed"

\* A frame the sender has announced, or copied, reaches the receiver.
Arrive ==
    /\ Listening
    /\ arrived < next - 1
    /\ R!Take
    /\ UNCHANGED svars
----------------------------------------------------------------------------
(* The joint step.                                                         *)

\* The receiver's worker reads the frame of its slot s out of the sender's.
Fetch(s) ==
    /\ Listening
    /\ R!Fetch(s)
    /\ \E i \in DOMAIN wire : wire[i][1] = frame[s] /\ S!ReadAt(i)

Ended ==
    /\ spc \in {"finished", "failed"} \/ rpc = "failed"
    /\ UNCHANGED vars

Next == Sender \/ Receiver \/ Arrive \/ (\E s \in R!Slot : Fetch(s)) \/ Ended

Spec == Init /\ [][Next]_vars

(***************************************************************************)
(* Both threads are scheduled; each worker, as long as its thread          *)
(* progresses it again and again, learns of what there is for it.          *)
(***************************************************************************)
Fairness ==
    /\ WF_vars(S!Thread /\ UNCHANGED rvars)
    /\ \A s \in S!Slot : SF_vars(S!Complete(s) /\ UNCHANGED rvars)
    /\ WF_vars(Receiver)
    /\ SF_vars(R!Progressing /\ Arrive)
    /\ \A s \in R!Slot : SF_vars(R!Progressing /\ Fetch(s))

FairSpec == Spec /\ Fairness
----------------------------------------------------------------------------
(* Properties.                                                             *)

\* What the two modules assume of the other end holds, also of one that has
\* thrown: the receiver reads only the oldest RecvDepth frames; at most
\* SendDepth are unfetched, and the done frame comes after all of them.
ImplementsBothEnds == S!Spec /\ R!Spec

NoneFails == spc # "failed" /\ rpc # "failed"

\* As long as neither throws, each end keeps the other going, as the modules
\* assume: whatever is announced is read, and frames keep coming.
KeepsBothGoing == []NoneFails => S!Fairness /\ R!Fairness

\* Whatever process_slot accepts has been read out of the buffer of that very
\* chunk, however the two ends reuse their slots; only of a sender that has
\* thrown the receiver may have read freed memory.
ProcessedIntact ==
    \A f \in processed :
        \/ <<f, f>> \in delivered
        \/ spc = "failed" /\ <<f, 0>> \in delivered

\* When the sender frees its slots no frame of the receiver is still to be
\* read out of them, also if the receiver's thread has failed.
NothingLeftToFetch ==
    spc = "finished" => R!Unfetched = {}

\* The lane comes to its end at both ends, unless one of them throws.
BothEnd == <>((spc = "finished" /\ rpc = "finished") \/ ~NoneFails)
----------------------------------------------------------------------------
(* The lane as one of Transfer, with --verify none and no eager frames.    *)

TFrames(F) == {<<1, f>> : f \in F}
Fetched == {d[1] : d \in delivered}
OnTheWay == (1..next-1) \ Fetched

\* What the receiver's slot has got of frame f.
Got(f) == IF f \notin Fetched THEN "none"
          ELSE IF <<f, f>> \in delivered THEN "old" ELSE "damaged"

SenderAt == CASE spc = "meta" -> "connect"
              [] spc \in {"finished", "failed"} -> spc
              [] OTHER -> "send"
ReceiverAt == IF rpc \in {"meta", "finished", "failed"} THEN rpc ELSE "receive"

Failures == Cardinality({t \in {<<"s", spc>>, <<"r", rpc>>} : t[2] = "failed"})

T == INSTANCE Transfer
     WITH Lanes <- {1}, Chunks <- 1..Total,
          Assign <- <<[f \in 1..Total |-> f]>>, Eager <- {}, MaxFaults <- 2,
          sverify <- "none", rverify <- "none", sink <- FALSE,
          source <- [c \in 1..Total |-> "old"], faults <- Failures,
          spc <- <<SenderAt>>, next <- <<next>>, sexit <- "running",
          sent <- [f \in TFrames(1..Total) |-> IF f[2] < next THEN "old" ELSE "none"],
          got <- [f \in TFrames(1..Total) |-> Got(f[2])],
          flight <- TFrames(OnTheWay),
          landing <- TFrames(Fetched \ processed),
          posted <- <<posted>>, atOnce <- {},
          rpc <- <<ReceiverAt>>, metaReady <- rpc # "meta",
          file <- [c \in 1..Total |->
                     IF c \in processed THEN Got(c)
                     ELSE IF rpc = "meta" THEN "stale" ELSE "hole"],
          received <- Cardinality(processed), processed <- TFrames(processed),
          sha <- "unchecked", rexit <- "running"

\* The two ends together do what Transfer takes a lane to do.
ImplementsTransfer == T!Spec
=============================================================================
