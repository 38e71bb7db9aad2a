------------------------------- MODULE RmaLane -------------------------------
(***************************************************************************)
(* One lane with --engine rma, which measures the network: the receiver    *)
(* maps a region of memory and sends its address, the sender puts chunks   *)
(* into it, overwriting old ones, waits for its requests and sends a done  *)
(* frame, on which the receiver unmaps the region and counts the chunks.   *)
(* The bytes are thrown away (parse_args insists on --source zero, --sink  *)
(* and --verify none).                                                     *)
(*                                                                         *)
(* UCX is external.  The request of a put completes when the put has       *)
(* landed, save for the puts in Early: of those UCX may report completion, *)
(* at once or later, when the bytes have left the buffer.  Stream frames   *)
(* and puts need not stay in order.                                        *)
(***************************************************************************)
EXTENDS Integers, Sequences, FiniteSets

CONSTANTS SendDepth,  \* --depth of the sender
          RecvDepth,  \* --depth of the receiver
          ChunkSize,  \* --chunk-size
          Wrap,       \* 2^32, the range of uint32_t
          Assigned,   \* assignments[i], the chunks of the lane
          Early       \* positions in Assigned

ASSUME DepthsAssumption == SendDepth \in Nat \ {0} /\ RecvDepth \in Nat \ {0}
ASSUME SizesAssumption == ChunkSize \in Nat \ {0} /\ Wrap \in Nat \ {0}
ASSUME AssignedAssumption == Assigned \in Seq(Nat)
ASSUME EarlyAssumption == Early \subseteq DOMAIN Assigned

Slot == 1..SendDepth
Put == 1..Len(Assigned)

VARIABLES sthread,   \* the sender's thread
          rthread,   \* the receiver's thread
          next,      \* the position its chunk loop has reached
          request,   \* slots[s].request: "null", "posted" or "complete"
          carries,   \* the put slots[s].request stands for, or 0
          length,    \* rma_info.length, 0 before the region is known
          flying,    \* the puts that have not landed
          counted    \* what the lane adds to received_chunks

rmaVars == <<sthread, rthread, next, request, carries, length, flying, counted>>

RmaTypeOK ==
    /\ sthread \in {"info", "put", "wait", "finished"}
    /\ rthread \in {"map", "await", "finished"}
    /\ next \in 1..Len(Assigned)+1
    /\ request \in [Slot -> {"null", "posted", "complete"}]
    /\ carries \in [Slot -> {0} \cup Put]
    /\ length \in 0..Wrap-1
    /\ flying \subseteq Put
    /\ counted \in {0, Len(Assigned)}

RmaInit ==
    /\ sthread = "info"
    /\ rthread = "map"
    /\ next = 1
    /\ request = [s \in Slot |-> "null"]
    /\ carries = [s \in Slot |-> 0]
    /\ length = 0
    /\ flying = {}
    /\ counted = 0
----------------------------------------------------------------------------
(* The receiver's thread.                                                  *)

\* `opt.depth * state.meta.chunk_size', a product of two uint32_t.
RegionLength == (RecvDepth * ChunkSize) % Wrap

\* The region is mapped, its address and key are sent.
OpenRegion ==
    /\ rthread = "map"
    /\ rthread' = "await"
    /\ UNCHANGED <<sthread, next, request, carries, length, flying, counted>>

\* The done frame: the region is unmapped, the chunks are counted.
CountChunks ==
    /\ rthread = "await"
    /\ sthread = "finished"
    /\ rthread' = "finished"
    /\ counted' = Len(Assigned)
    /\ UNCHANGED <<sthread, next, request, carries, length, flying>>
----------------------------------------------------------------------------
(* The sender's thread.                                                    *)

LearnRegion ==
    /\ sthread = "info"
    /\ rthread # "map"
    /\ length' = RegionLength
    /\ sthread' = "put"
    /\ UNCHANGED <<rthread, next, request, carries, flying, counted>>

\* Mutation operator: the offset of the chunk in the file.
FileOffset(p) == Assigned[p] * ChunkSize

\* The offset in the region, which does not depend on the slot that is free.
Offset(p) == (Assigned[p] % SendDepth) * ChunkSize

IsFree(s) == request[s] = "null"

\* The chunk loop has not reached the end of assignments[i].
MorePuts == next <= Len(Assigned)

\* What post_put may return.
Returned(p) == IF p \in Early THEN {"posted", "null"} ELSE {"posted"}

\* One turn of the chunk loop: the first free slot is used, free_slot having
\* waited for one.
PostPut(s) ==
    /\ sthread = "put"
    /\ MorePuts
    /\ IsFree(s) /\ \A t \in 1..s-1 : ~IsFree(t)
    /\ \E answer \in Returned(next) : request' = [request EXCEPT ![s] = answer]
    /\ carries' = [carries EXCEPT ![s] = next]
    /\ flying' = flying \cup {next}
    /\ next' = next + 1
    /\ UNCHANGED <<sthread, rthread, length, counted>>

\* wait_for_one, called when no slot is free, or wait_for_all, which test the
\* requests and progress the worker in turn.
Waiting ==
    \/ sthread = "put" /\ MorePuts /\ \A s \in Slot : ~IsFree(s)
    \/ sthread = "wait"

\* Mutation operator: the request is freed, slot.request keeps it.
KeepsRequest(s) == request

\* `slot.request = nullptr'
Releases(s) == [request EXCEPT ![s] = "null"]

\* test_send succeeds.
Release(s) ==
    /\ Waiting
    /\ request[s] = "complete"
    /\ request' = Releases(s)
    /\ UNCHANGED <<sthread, rthread, next, carries, length, flying, counted>>

EndPuts ==
    /\ sthread = "put"
    /\ ~MorePuts
    /\ sthread' = "wait"
    /\ UNCHANGED <<rthread, next, request, carries, length, flying, counted>>

\* Mutation operator: some request has completed.
SomeDone == \E s \in Slot : IsFree(s)

\* wait_for_all returns.
AllDone == \A s \in Slot : IsFree(s)

\* The done frame.
SayDone ==
    /\ sthread = "wait"
    /\ AllDone
    /\ sthread' = "finished"
    /\ UNCHANGED <<rthread, next, request, carries, length, flying, counted>>
----------------------------------------------------------------------------
(* UCX.                                                                    *)

LandPut(p) ==
    /\ p \in flying
    /\ flying' = flying \ {p}
    /\ UNCHANGED <<sthread, rthread, next, request, carries, length, counted>>

Complete(s) ==
    /\ Waiting
    /\ request[s] = "posted"
    /\ carries[s] \notin flying \ Early
    /\ request' = [request EXCEPT ![s] = "complete"]
    /\ UNCHANGED <<sthread, rthread, next, carries, length, flying, counted>>

Ended ==
    /\ sthread = "finished" /\ rthread = "finished" /\ flying = {}
    /\ UNCHANGED rmaVars

Sender ==
    LearnRegion \/ EndPuts \/ SayDone \/ \E s \in Slot : PostPut(s) \/ Release(s)
Receiver == OpenRegion \/ CountChunks

RmaNext ==
    \/ Sender \/ Receiver \/ Ended
    \/ \E p \in Put : LandPut(p)
    \/ \E s \in Slot : Complete(s)

RmaSpec == RmaInit /\ [][RmaNext]_rmaVars

(***************************************************************************)
(* The threads are scheduled, puts land, and a worker that is progressed   *)
(* again and again learns of every completion.                             *)
(***************************************************************************)
RmaFairSpec ==
    /\ RmaSpec
    /\ WF_rmaVars(Sender) /\ WF_rmaVars(Receiver)
    /\ \A p \in Put : WF_rmaVars(LandPut(p))
    /\ \A s \in Slot : SF_rmaVars(Complete(s))
----------------------------------------------------------------------------
(* Properties.                                                             *)

\* Which puts stay inside the region, whose slots are those of the receiver's
\* --depth, when the sender counts in its own: nobody compares the two, or
\* checks the product.  A put to a slot the receiver has not mapped leaves the
\* region, one to another does not; if the product has wrapped, the puts to
\* the last slot of the receiver leave it as well.  (A last chunk of less than
\* ChunkSize bytes is no different.)
InsideExactly ==
    \A p \in flying :
        LET slot == Assigned[p] % SendDepth
            inside == Offset(p) + ChunkSize <= length
        IN  IF RecvDepth * ChunkSize < Wrap
            THEN inside <=> slot < RecvDepth
            ELSE slot >= RecvDepth - 1 => ~inside

\* When the receiver unmaps the region and counts the lane's chunks, all have
\* landed but those UCX has completed early.
CountedHaveLanded == counted # 0 => flying \subseteq Early

\* Both threads come to their end: the one waits for the region, the other
\* for the done frame.
LaneFinishes == <>(rthread = "finished")
=============================================================================
