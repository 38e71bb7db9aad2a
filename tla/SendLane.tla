------------------------------ MODULE SendLane ------------------------------
(***************************************************************************)
(* One sending lane thread of rnic_send with --engine tag, down to its     *)
(* slots and UCX requests: the metadata, the chunk loop with free_slot and *)
(* wait_for_one, wait_for_all, the done frame.                             *)
(*                                                                         *)
(* UCX is external.  A frame sent by rendezvous is announced first and     *)
(* read out of the slot's buffer later, at a time the receiver chooses;    *)
(* the request completes after that, and the thread learns of it only      *)
(* while it progresses its worker.  A frame sent eagerly is copied by      *)
(* ucp_tag_send_nbx, which then returns null.                              *)
(*                                                                         *)
(* The frames of the lane are 1 .. Total in the order of assignments[i].   *)
(***************************************************************************)
EXTENDS Integers, Sequences, FiniteSets

CONSTANTS Depth,       \* opt.depth of the sender
          RecvDepth,   \* opt.depth of the receiver: its outstanding receives
          Total,       \* assignments[i].size()
          Whole,       \* the frames sent eagerly
          Unreadable   \* the frames whose pread may fail or fall short

ASSUME DepthAssumption == Depth \in Nat \ {0}
ASSUME RecvDepthAssumption == RecvDepth \in Nat \ {0}
ASSUME TotalAssumption == Total \in Nat
ASSUME FramesAssumption == Whole \subseteq 1..Total /\ Unreadable \subseteq 1..Total

Slot == 1..Depth
Frame == 1..Total

\* The states of slot.request: no request; announced; read by the receiver;
\* known to be complete by this side's worker.
Request == {"null", "announced", "read", "complete"}

VARIABLES pc,        \* where the lane thread is
          slot,      \* the loop variable of wait_for_one and wait_for_all
          any,       \* `any' of wait_for_all
          next,      \* the frame the chunk loop has reached
          request,   \* slots[s].request
          buffer,    \* slots[s].buffer: the frame it was last filled with
          wire,      \* UCX: the slots announced and not read, oldest first
          delivered  \* <<f, b>>: for frame f the receiver has read b; b = 0
                     \* stands for memory that no longer is the buffer

vars == <<pc, slot, any, next, request, buffer, wire, delivered>>

TypeOK ==
    /\ pc \in {"meta", "chunks", "waitOne", "waitOneProgress", "waitAll",
               "waitAllProgress", "done", "finished", "failed"}
    /\ slot \in 1..Depth+1
    /\ any \in BOOLEAN
    /\ next \in 1..Total+1
    /\ request \in [Slot -> Request]
    /\ buffer \in [Slot -> 0..Total]
    /\ wire \in Seq(Frame \X Slot)
    /\ delivered \subseteq Frame \X (0..Total)

Init ==
    /\ pc = "meta"
    /\ slot = 1
    /\ any = FALSE
    /\ next = 1
    /\ request = [s \in Slot |-> "null"]
    /\ buffer = [s \in Slot |-> 0]
    /\ wire = <<>>
    /\ delivered = {}
----------------------------------------------------------------------------
(* UCX and the receiver.                                                   *)

\* What reading slot s yields.  A thread that throws destroys its slots
\* before its lane, whose endpoint may still be serving requests.
Content(s) == {buffer[s]} \cup (IF pc = "failed" THEN {0} ELSE {})

\* The receiver reads the i-th announced frame.
ReadAt(i) ==
    /\ \E b \in Content(wire[i][2]) :
          delivered' = delivered \cup {<<wire[i][1], b>>}
    /\ request' = [request EXCEPT ![wire[i][2]] = "read"]
    /\ wire' = SubSeq(wire, 1, i-1) \o SubSeq(wire, i+1, Len(wire))
    /\ UNCHANGED <<pc, slot, any, next, buffer>>

\* It has RecvDepth receives outstanding, which match the oldest frames.
Read(i) == i <= RecvDepth /\ ReadAt(i)

Progressing == pc \in {"waitOneProgress", "waitAllProgress"}

Complete(s) ==
    /\ Progressing
    /\ request[s] = "read"
    /\ request' = [request EXCEPT ![s] = "complete"]
    /\ UNCHANGED <<pc, slot, any, next, buffer, wire, delivered>>

EndProgress ==
    /\ Progressing
    /\ pc' = IF pc = "waitOneProgress" THEN "waitOne" ELSE "waitAll"
    /\ slot' = 1
    /\ any' = FALSE
    /\ UNCHANGED <<next, request, buffer, wire, delivered>>
----------------------------------------------------------------------------
(* The lane thread.                                                        *)

\* The metadata frame is on its way; the slots exist.
SendMeta ==
    /\ pc = "meta"
    /\ pc' = "chunks"
    /\ UNCHANGED <<slot, any, next, request, buffer, wire, delivered>>

\* Mutation operator: a slot counts as free once the receiver may have it.
IsSent(s) == request[s] \in {"null", "announced"}

\* `slot.request == nullptr'
IsFree(s) == request[s] = "null"

\* free_slot returns the first slot without a request.
FreeSlot(s) == IsFree(s) /\ \A t \in 1..s-1 : ~IsFree(t)

\* The chunk loop has not reached the end of assignments[i].
MoreChunks == next <= Total

\* post_tag_send: UCX copies an eager frame and returns null, or announces a
\* frame it will send out of the slot's buffer.
Announce(f, s) ==
    \/ /\ f \in Whole
       /\ delivered' = delivered \cup {<<f, f>>}
       /\ UNCHANGED <<request, wire>>
    \/ /\ f \notin Whole
       /\ request' = [request EXCEPT ![s] = "announced"]
       /\ wire' = Append(wire, <<f, s>>)
       /\ UNCHANGED delivered

\* The body of the chunk loop, once free_slot has returned slot s: read the
\* chunk into the buffer and send it.
SendFrame(s) ==
    /\ pc = "chunks"
    /\ MoreChunks
    /\ FreeSlot(s)
    /\ buffer' = [buffer EXCEPT ![s] = next]
    /\ next' = next + 1
    /\ Announce(next, s)
    /\ UNCHANGED <<pc, slot, any>>

\* pread does not return the whole chunk: the thread throws.
SendFrameFails(s) ==
    /\ pc = "chunks"
    /\ next \in Unreadable
    /\ FreeSlot(s)
    /\ buffer' = [buffer EXCEPT ![s] = next]
    /\ pc' = "failed"
    /\ UNCHANGED <<slot, any, next, request, wire, delivered>>

\* No slot is free: free_slot calls wait_for_one.
CallWaitForOne ==
    /\ pc = "chunks"
    /\ MoreChunks
    /\ \A s \in Slot : ~IsFree(s)
    /\ pc' = "waitOne"
    /\ slot' = 1
    /\ UNCHANGED <<any, next, request, buffer, wire, delivered>>

\* Mutation operator: the request is freed but slot.request keeps it.
KeepsRequest(s) == UNCHANGED request

\* test_send succeeds: the request is freed and forgotten.
Release(s) == request' = [request EXCEPT ![s] = "null"]

\* One slot of wait_for_one's loop, which returns at the first completion.
WaitOneTest ==
    /\ pc = "waitOne"
    /\ slot <= Depth
    /\ \/ /\ request[slot] = "complete"
          /\ Release(slot)
          /\ pc' = "chunks"
          /\ UNCHANGED slot
       \/ /\ request[slot] # "complete"
          /\ slot' = slot + 1
          /\ UNCHANGED <<pc, request>>
    /\ UNCHANGED <<any, next, buffer, wire, delivered>>

WaitOneProgress ==
    /\ pc = "waitOne"
    /\ slot > Depth
    /\ pc' = "waitOneProgress"
    /\ UNCHANGED <<slot, any, next, request, buffer, wire, delivered>>

\* The chunk loop is over.
CallWaitForAll ==
    /\ pc = "chunks"
    /\ ~MoreChunks
    /\ pc' = "waitAll"
    /\ slot' = 1
    /\ any' = FALSE
    /\ UNCHANGED <<next, request, buffer, wire, delivered>>

\* Mutation operator: `any' says whether something has completed.
AnyComplete(s) == request[s] = "complete"

\* `any' says whether there was a request at all.
AnyRequest(s) == request[s] # "null"

\* One slot of wait_for_all's inner loop.
WaitAllTest ==
    /\ pc = "waitAll"
    /\ slot <= Depth
    /\ any' = (any \/ AnyRequest(slot))
    /\ \/ request[slot] = "complete" /\ Release(slot)
       \/ request[slot] # "complete" /\ UNCHANGED request
    /\ slot' = slot + 1
    /\ UNCHANGED <<pc, next, buffer, wire, delivered>>

WaitAllEnd ==
    /\ pc = "waitAll"
    /\ slot > Depth
    /\ pc' = IF any THEN "waitAllProgress" ELSE "done"
    /\ UNCHANGED <<slot, any, next, request, buffer, wire, delivered>>

\* The done frame is on its way; the slots are unmapped and freed.
SendDone ==
    /\ pc = "done"
    /\ pc' = "finished"
    /\ UNCHANGED <<slot, any, next, request, buffer, wire, delivered>>

Ended == pc \in {"finished", "failed"} /\ UNCHANGED vars

Receiver == \E i \in 1..Len(wire) : Read(i)

Thread ==
    \/ SendMeta
    \/ \E s \in Slot : SendFrame(s) \/ SendFrameFails(s)
    \/ CallWaitForOne \/ WaitOneTest \/ WaitOneProgress
    \/ CallWaitForAll \/ WaitAllTest \/ WaitAllEnd
    \/ EndProgress \/ SendDone

Next == Receiver \/ (\E s \in Slot : Complete(s)) \/ Thread \/ Ended

Spec == Init /\ [][Next]_vars

(***************************************************************************)
(* The thread is scheduled and spins; the receiver, which has receives     *)
(* outstanding as long as frames are missing (WindowFull of RecvLane),     *)
(* reads what is announced; a worker that is progressed again and again    *)
(* learns of every completion.                                             *)
(***************************************************************************)
Fairness ==
    /\ WF_vars(Thread)
    /\ WF_vars(Receiver)
    /\ \A s \in Slot : SF_vars(Complete(s))

FairSpec == Spec /\ Fairness
----------------------------------------------------------------------------
(* Properties.                                                             *)

\* The receiver gets every frame with the bytes of its own chunk, although
\* it reads the buffer long after post_tag_send has returned and the slots
\* are used again and again.  Only a thread that has thrown lets the receiver
\* read something else, and never the bytes of another chunk.
DeliveredIntact ==
    \A d \in delivered : d[1] = d[2] \/ (d[2] = 0 /\ pc = "failed")

\* The done frame is sent, and the buffers are freed, only when the receiver
\* has every frame and no request refers to a buffer.
DoneAfterAll ==
    pc \in {"done", "finished"} =>
        /\ {d[1] : d \in delivered} = Frame
        /\ wire = <<>>
        /\ \A s \in Slot : request[s] = "null"

\* A frame is retired when the thread has released its slot.
Retired ==
    {f \in 1..next-1 : \A s \in Slot : request[s] = "null" \/ buffer[s] # f}

\* The lane is a window of Depth sends over its frames, all of which are
\* retired in the end unless one of them cannot be read.
Window == INSTANCE ChunkWindow
          WITH issued <- next - 1, retired <- Retired, open <- pc # "failed"

ImplementsWindow == Window!Spec
=============================================================================
