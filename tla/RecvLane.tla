------------------------------ MODULE RecvLane ------------------------------
(***************************************************************************)
(* One receiving lane thread of rnic_recv with --engine tag, down to its   *)
(* slots and UCX requests: the metadata, the initial posting, the polling  *)
(* loop, the done frame.                                                   *)
(*                                                                         *)
(* The UCX worker of the lane is external.  It is used by one thread only, *)
(* so requests change state only while that thread is inside a call that   *)
(* progresses the worker: lane.progress() and recv_all().  UCX matches the *)
(* messages of an endpoint with the posted receives in order; a message    *)
(* that finds no receive waits in the unexpected queue.  A message that    *)
(* is all there when its receive is posted completes in ucp_tag_recv_nbx   *)
(* itself (a null request); of a rendezvous message only the announcement  *)
(* is there, and the data is fetched afterwards.                           *)
(*                                                                         *)
(* The frames of the lane are 1 .. Expected, in the order they were sent.  *)
(***************************************************************************)
EXTENDS Integers, Sequences, FiniteSets

CONSTANTS Depth,      \* opt.depth of the receiver
          SendDepth,  \* opt.depth of the sender: its unfinished frames
          Expected,   \* lane_expected_chunks
          Whole,      \* the frames sent eagerly, which arrive with their data
          Bad         \* the frames process_slot may refuse

ASSUME DepthAssumption == Depth \in Nat \ {0}
ASSUME SendDepthAssumption == SendDepth \in Nat \ {0}
ASSUME ExpectedAssumption == Expected \in Nat
ASSUME FramesAssumption == Whole \subseteq 1..Expected /\ Bad \subseteq 1..Expected

Slot == 1..Depth
Frame == 1..Expected

\* The states of slot.request; "null" is nullptr.
Request == {"null", "posted", "fetching", "complete"}

VARIABLES pc,            \* where the lane thread is
          slot,          \* the loop variable of both loops over the slots
          request,       \* slots[s].request
          frame,         \* the frame in (or on its way to) the buffer, or 0
          posted,
          completed,
          madeProgress,
          processed,     \* the frames process_slot has accepted
          receives,      \* UCX: the slots whose receives are unmatched
          unexpected,    \* UCX: the frames no receive was posted for
          arrived        \* UCX: how many frames have reached this worker

thread == <<pc, slot, posted, completed, madeProgress, processed>>
vars == <<pc, slot, request, frame, posted, completed, madeProgress, processed,
          receives, unexpected, arrived>>

TypeOK ==
    /\ pc \in {"meta", "prepost", "poll", "progress", "done", "finished", "failed"}
    /\ slot \in 1..Depth+1
    /\ request \in [Slot -> Request]
    /\ frame \in [Slot -> 0..Expected]
    /\ posted \in 0..Expected
    /\ completed \in 0..Expected
    /\ madeProgress \in BOOLEAN
    /\ processed \subseteq Frame
    /\ receives \in Seq(Slot)
    /\ unexpected \in Seq(Frame)
    /\ arrived \in 0..Expected

Pending == {s \in Slot : request[s] # "null"}

Init ==
    /\ pc = "meta"
    /\ slot = 1
    /\ request = [s \in Slot |-> "null"]
    /\ frame = [s \in Slot |-> 0]
    /\ posted = 0
    /\ completed = 0
    /\ madeProgress = FALSE
    /\ processed = {}
    /\ receives = <<>>
    /\ unexpected = <<>>
    /\ arrived = 0
----------------------------------------------------------------------------
(* The UCX worker, while the lane thread progresses it.                    *)

Progressing == pc \in {"meta", "progress", "done"}

\* The frames the sender still holds a slot for: not fetched yet.
Unfetched ==
    {f \in Frame \ Whole :
        \/ \E i \in 1..Len(unexpected) : unexpected[i] = f
        \/ \E s \in Slot : request[s] = "fetching" /\ frame[s] = f}

NextFrame == arrived + 1

\* The next frame reaches the worker and takes the oldest receive, if any.
Take ==
    /\ arrived' = NextFrame
    /\ \/ /\ receives = <<>>
          /\ unexpected' = Append(unexpected, NextFrame)
          /\ UNCHANGED <<request, frame, receives>>
       \/ /\ receives # <<>>
          /\ frame' = [frame EXCEPT ![Head(receives)] = NextFrame]
          /\ request' = [request EXCEPT ![Head(receives)] =
                            IF NextFrame \in Whole THEN "complete" ELSE "fetching"]
          /\ receives' = Tail(receives)
          /\ UNCHANGED unexpected
    /\ UNCHANGED thread

\* The sender has announced one more frame: it had a slot for it.
OnTheWire == arrived < Expected /\ Cardinality(Unfetched) < SendDepth

Arrive == Progressing /\ OnTheWire /\ Take

Fetch(s) ==
    /\ request[s] = "fetching"
    /\ request' = [request EXCEPT ![s] = "complete"]
    /\ UNCHANGED <<frame, receives, unexpected, arrived, thread>>

Fetched(s) == Progressing /\ Fetch(s)

\* A thread that has thrown frees its slots before its lane, whose
\* close_endpoint progresses the worker: frames go on landing in memory that
\* was a slot.
WhileClosing ==
    /\ pc = "failed"
    /\ \/ OnTheWire /\ Take
       \/ \E s \in Slot : Fetch(s)

\* The worker has nothing more for this call of lane.progress().
EndProgress ==
    /\ pc = "progress"
    /\ pc' = "poll"
    /\ slot' = 1
    /\ madeProgress' = FALSE
    /\ UNCHANGED <<request, frame, posted, completed, processed, receives,
                   unexpected, arrived>>
----------------------------------------------------------------------------
(* Posting a receive into slot s (post_recv), after the thread has         *)
(* processed the frames of the set `before' in the same step.              *)

\* process_slot accepts the frames fs.
Accept(fs) ==
    /\ processed' = processed \cup fs
    /\ completed' = completed + Cardinality(fs)

\* No frame waits: the receive does.
PostWaits(s, before) ==
    /\ unexpected = <<>>
    /\ request' = [request EXCEPT ![s] = "posted"]
    /\ receives' = Append(receives, s)
    /\ Accept(before)
    /\ posted' = posted + 1
    /\ slot' = slot + 1
    /\ UNCHANGED <<pc, frame, unexpected>>

\* The receive takes the oldest frame that waits.
PostMatches(s) ==
    /\ unexpected # <<>>
    /\ frame' = [frame EXCEPT ![s] = Head(unexpected)]
    /\ unexpected' = Tail(unexpected)
    /\ UNCHANGED receives

PostFetches(s, before) ==
    /\ PostMatches(s)
    /\ Head(unexpected) \notin Whole
    /\ request' = [request EXCEPT ![s] = "fetching"]
    /\ Accept(before)
    /\ posted' = posted + 1
    /\ slot' = slot + 1
    /\ UNCHANGED pc

\* ucp_tag_recv_nbx returns null: the frame is processed at once.
PostCompletes(s, before) ==
    /\ PostMatches(s)
    /\ Head(unexpected) \in Whole
    /\ request' = [request EXCEPT ![s] = "null"]
    /\ \/ /\ Accept(before \cup {Head(unexpected)})
          /\ posted' = posted + 1
          /\ slot' = slot + 1
          /\ UNCHANGED pc
       \/ /\ Head(unexpected) \in Bad
          /\ Accept(before)
          /\ pc' = "failed"
          /\ UNCHANGED <<posted, slot>>

Post(s, before) ==
    PostWaits(s, before) \/ PostFetches(s, before) \/ PostCompletes(s, before)
----------------------------------------------------------------------------
(* The lane thread.                                                        *)

\* recv_all returns the metadata, apply_meta accepts it, the slots exist.
ReceiveMeta ==
    /\ pc = "meta"
    /\ pc' = "prepost"
    /\ UNCHANGED <<slot, request, frame, posted, completed, madeProgress,
                   processed, receives, unexpected, arrived>>

\* Mutation operators: two off-by-one tests.
PostsOneTooMany == posted <= Expected
PostsOneTooFew == posted + 1 < Expected

\* `posted < lane_expected_chunks', in both loops.
MoreToPost == posted < Expected

\* The body of the first loop over the slots.
PrePost ==
    /\ pc = "prepost"
    /\ slot <= Depth
    /\ \/ /\ MoreToPost
          /\ Post(slot, {})
       \/ /\ ~MoreToPost
          /\ slot' = slot + 1
          /\ UNCHANGED <<pc, request, frame, posted, completed, processed,
                         receives, unexpected>>
    /\ UNCHANGED <<madeProgress, arrived>>

\* Mutation operator: the loop ends when everything has been posted.
LoopUntilPosted ==
    /\ pc' = IF posted < Expected THEN "poll" ELSE "done"
    /\ slot' = 1
    /\ madeProgress' = FALSE

\* Mutation operator: madeProgress survives into the next pass.
LoopKeepsProgress ==
    /\ pc' = IF completed < Expected THEN "poll" ELSE "done"
    /\ slot' = 1
    /\ UNCHANGED madeProgress

\* The test of `while (completed < lane_expected_chunks)'.
Loop ==
    /\ pc' = IF completed < Expected THEN "poll" ELSE "done"
    /\ slot' = 1
    /\ madeProgress' = FALSE

EndPrePost ==
    /\ pc = "prepost"
    /\ slot > Depth
    /\ Loop
    /\ UNCHANGED <<request, frame, posted, completed, processed, receives,
                   unexpected, arrived>>

\* A slot without a request, or whose request is in progress, is passed over.
PassOver ==
    /\ pc = "poll"
    /\ slot <= Depth
    /\ request[slot] # "complete"
    /\ slot' = slot + 1
    /\ UNCHANGED <<pc, request, frame, posted, completed, madeProgress,
                   processed, receives, unexpected, arrived>>

\* Mutation operator: slot.request keeps the freed request.
KeepsRequest(s) == UNCHANGED request

\* `slot.request = nullptr'
ForgetsRequest(s) == request' = [request EXCEPT ![s] = "null"]

\* test_recv succeeds: the frame is processed and the slot posted again as
\* long as there are frames nobody has posted a receive for.
TestSlot ==
    /\ pc = "poll"
    /\ slot <= Depth
    /\ request[slot] = "complete"
    /\ \/ /\ MoreToPost
          /\ Post(slot, {frame[slot]})
       \/ /\ ~MoreToPost
          /\ Accept({frame[slot]})
          /\ ForgetsRequest(slot)
          /\ slot' = slot + 1
          /\ UNCHANGED <<pc, frame, posted, receives, unexpected>>
    /\ madeProgress' = TRUE
    /\ UNCHANGED arrived

\* process_slot throws: the request is gone, the frame is not counted.
TestSlotFails ==
    /\ pc = "poll"
    /\ slot <= Depth
    /\ request[slot] = "complete"
    /\ frame[slot] \in Bad
    /\ ForgetsRequest(slot)
    /\ pc' = "failed"
    /\ UNCHANGED <<slot, frame, posted, completed, madeProgress, processed,
                   receives, unexpected, arrived>>

EndScan ==
    /\ pc = "poll"
    /\ slot > Depth
    /\ \/ madeProgress /\ Loop
       \/ /\ ~madeProgress
          /\ pc' = "progress"
          /\ UNCHANGED <<slot, madeProgress>>
    /\ UNCHANGED <<request, frame, posted, completed, processed, receives,
                   unexpected, arrived>>

\* recv_all returns the done frame; the slots are unmapped.
TakeDone ==
    /\ pc = "done"
    /\ pc' = "finished"
    /\ UNCHANGED <<slot, request, frame, posted, completed, madeProgress,
                   processed, receives, unexpected, arrived>>

\* The sender sends it after all its tag sends have completed.
ReceiveDone == arrived = Expected /\ Unfetched = {} /\ TakeDone

Ended == pc \in {"finished", "failed"} /\ UNCHANGED vars

Worker == Arrive \/ (\E s \in Slot : Fetched(s)) \/ WhileClosing

LaneLoops ==
    \/ PrePost \/ EndPrePost
    \/ PassOver \/ TestSlot \/ TestSlotFails \/ EndScan \/ EndProgress

Thread == ReceiveMeta \/ LaneLoops \/ ReceiveDone

Next == Worker \/ Thread \/ Ended

Spec == Init /\ [][Next]_vars

(***************************************************************************)
(* The thread is scheduled (it never blocks: it spins).  The network is    *)
(* seen only by a thread that progresses its worker; one that does so      *)
(* again and again gets what is on the wire.                               *)
(***************************************************************************)
Fairness ==
    /\ WF_vars(Thread)
    /\ SF_vars(Arrive)
    /\ \A s \in Slot : SF_vars(Fetched(s))

FairSpec == Spec /\ Fairness
----------------------------------------------------------------------------
(* Properties.                                                             *)

\* Every frame that has reached the worker waits, is in one slot, or has been
\* processed, never two of these: no frame is lost between the queues and
\* the slots, and none is written and counted twice.
FrameInOnePlace ==
    pc # "failed" =>
        \A f \in 1..arrived :
            Cardinality({i \in 1..Len(unexpected) : unexpected[i] = f})
            + Cardinality({s \in Pending : request[s] # "posted" /\ frame[s] = f})
            + Cardinality({f} \cap processed) = 1

\* posted and completed, on which the thread decides to post and to stop,
\* account for the requests that exist and for the frames processed.
CountersBalance ==
    /\ completed = Cardinality(processed)
    /\ pc # "failed" => posted = completed + Cardinality(Pending)

\* When the thread stops polling nothing is left behind: no request can
\* still write into a buffer that is about to be unmapped and freed.
QuiescentBeforeUnmap ==
    pc \in {"done", "finished"} =>
        /\ Pending = {}
        /\ unexpected = <<>>
        /\ processed = Frame

\* README.md:50, "DEPTH controls the per-lane in-flight chunk window": while
\* the thread polls it has receives outstanding for all frames that remain,
\* or for Depth of them but for one slot at most per frame sent eagerly.
WindowFull ==
    pc \in {"poll", "progress"} =>
        \/ Cardinality(Pending) = Expected - completed
        \/ Cardinality(Pending) >= Depth - Cardinality(Whole \cap processed)

\* README.md:10, "the receiver reconstructs the file": the lane receives
\* all its frames and ends.
LaneFinishes == <>(pc = "finished")

\* The lane is a window of Depth receives over its frames.
Window == INSTANCE ChunkWindow
          WITH Total <- Expected, issued <- posted, retired <- processed,
               open <- pc # "failed"

ImplementsWindow == Window!Spec
=============================================================================
