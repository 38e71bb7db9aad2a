------------------------------ MODULE Transfer ------------------------------
(***************************************************************************)
(* A whole transfer with --engine tag: the sender's lane threads, the      *)
(* receiver's lane threads with the state they share, and the two mains    *)
(* that join them and decide the exit statuses.                            *)
(*                                                                         *)
(* The slots of a lane are modelled by SendLane and RecvLane; here a lane  *)
(* is what those two promise: the sender has SendDepth frames announced at *)
(* most, the receiver posts a receive for the n-th frame as its n-th, has  *)
(* RecvDepth outstanding at most, and finishes in any order.  A frame sent *)
(* eagerly is copied by UCX: the sender does not wait for it, and one that *)
(* is there when its receive is posted costs the receiver a slot.          *)
(*                                                                         *)
(* Frame <<l, i>> carries the i-th chunk of assignments[l].  The bytes of  *)
(* a chunk are "old" (the file as it was hashed), "new" (the file changed  *)
(* while it was being sent) or "damaged".  FNV-1a and SHA256 tell any two  *)
(* of these apart.                                                         *)
(***************************************************************************)
EXTENDS Integers, Sequences, FiniteSets

CONSTANTS Lanes,      \* the --lane options, the same on both sides
          Chunks,     \* the chunks of the file
          Assign,     \* assign_chunks(lanes, total_chunks)
          SendDepth,  \* --depth of the sender
          RecvDepth,  \* --depth of the receiver
          Eager,      \* the frames UCX sends eagerly
          MaxFaults   \* how many of the faults below may happen

Frame == UNION {{l} \X DOMAIN Assign[l] : l \in Lanes}
ChunkOf(f) == Assign[f[1]][f[2]]

ASSUME LanesAssumption == IsFiniteSet(Lanes) /\ Lanes # {}
ASSUME ChunksAssumption == IsFiniteSet(Chunks)
\* ChunkAssignment's ExactlyOneLane.
ASSUME AssignAssumption ==
    /\ Assign \in [Lanes -> Seq(Chunks)]
    /\ \A c \in Chunks : \E f \in Frame : ChunkOf(f) = c
    /\ \A f, g \in Frame : ChunkOf(f) = ChunkOf(g) => f = g
ASSUME DepthsAssumption == SendDepth \in Nat \ {0} /\ RecvDepth \in Nat \ {0}
ASSUME EagerAssumption == Eager \subseteq Frame
ASSUME MaxFaultsAssumption == MaxFaults \in Nat

Content == {"old", "new"}
Data == Content \cup {"damaged"}
Verify == {"none", "chunk", "file", "both"}

VARIABLES
    \* command lines, and the world
    sverify, rverify,  \* --verify of the sender and of the receiver
    sink,              \* --sink
    source,            \* the input file
    faults,            \* the faults so far
    \* the sender
    spc,               \* its lane threads
    next,              \* the position of lane l's thread in assignments[l]
    sexit,             \* exit status
    \* the lanes
    sent,              \* the bytes read for a frame, which its checksum covers
    got,               \* the bytes of the frame in the receiver's slot
    flight,            \* frames sent and not fetched
    landing,           \* frames fetched and not processed
    posted,            \* the receives the receiver's thread has posted
    atOnce,            \* those of `landing' whose receive completed as it was
                       \* posted
    \* the receiver
    rpc,               \* its lane threads
    metaReady, file,   \* SharedState: meta_ready, the file behind fd
    received,          \* SharedState: received_chunks
    processed,         \* the frames process_slot has accepted
    sha,               \* the final comparison of SHA256 digests
    rexit              \* exit status

options == <<sverify, rverify, sink>>
sender == <<spc, next, sexit>>
lanes == <<sent, got, flight, landing, posted, atOnce>>
receiver == <<rpc, metaReady, file, received, processed, sha, rexit>>
vars == <<options, source, faults, sender, lanes, receiver>>

TypeOK ==
    /\ sverify \in Verify /\ rverify \in Verify /\ sink \in BOOLEAN
    /\ source \in [Chunks -> Content]
    /\ faults \in 0..MaxFaults
    /\ spc \in [Lanes -> {"connect", "send", "finished", "failed"}]
    /\ next \in [Lanes -> Nat \ {0}]
    /\ sexit \in {"running", "0", "2"}
    /\ sent \in [Frame -> Content \cup {"none"}]
    /\ got \in [Frame -> Data \cup {"none"}]
    /\ flight \subseteq Frame
    /\ landing \subseteq Frame
    /\ posted \in [Lanes -> Nat]
    /\ \A l \in Lanes : posted[l] <= Len(Assign[l])
    /\ atOnce \subseteq landing
    /\ rpc \in [Lanes -> {"meta", "receive", "finished", "failed"}]
    /\ metaReady \in BOOLEAN
    /\ file \in [Chunks -> Data \cup {"stale", "hole", "torn"}]
    /\ received \in 0..Cardinality(Chunks)
    /\ processed \subseteq Frame
    /\ sha \in {"unchecked", "match", "mismatch"}
    /\ rexit \in {"running", "0", "1", "2"}

\* chunk_verify and file_verify, computed by either main from its option.
ChunkVerify(v) == v \in {"chunk", "both"}
FileVerify(v) == v \in {"file", "both"}

Init ==
    /\ sverify \in Verify /\ rverify \in Verify /\ sink \in BOOLEAN
    /\ source = [c \in Chunks |-> "old"]
    /\ faults = 0
    /\ spc = [l \in Lanes |-> "connect"]
    /\ next = [l \in Lanes |-> 1]
    /\ sexit = "running"
    /\ sent = [f \in Frame |-> "none"]
    /\ got = [f \in Frame |-> "none"]
    /\ flight = {}
    /\ landing = {}
    /\ posted = [l \in Lanes |-> 0]
    /\ atOnce = {}
    /\ rpc = [l \in Lanes |-> "meta"]
    /\ metaReady = FALSE
    /\ file = [c \in Chunks |-> "stale"]
    /\ received = 0
    /\ processed = {}
    /\ sha = "unchecked"
    /\ rexit = "running"

Fault == faults < MaxFaults /\ faults' = faults + 1

OfLane(l, frames) == {f \in frames : f[1] = l}
----------------------------------------------------------------------------
(* The world.                                                              *)

\* Another program writes to the input file while it is being sent.  (To a
\* chunk that has been read it makes no difference.)
EditSource(c) ==
    /\ Fault
    /\ source[c] = "old"
    /\ \E f \in Frame : ChunkOf(f) = c /\ sent[f] = "none"
    /\ source' = [source EXCEPT ![c] = "new"]
    /\ UNCHANGED <<options, sender, lanes, receiver>>
----------------------------------------------------------------------------
(* The sender's threads.                                                   *)

\* The lane connects and sends its metadata frame.
SendMeta(l) ==
    /\ spc[l] = "connect"
    /\ spc' = [spc EXCEPT ![l] = "send"]
    /\ UNCHANGED <<options, source, faults, next, sexit, lanes, receiver>>

\* free_slot returns.
SlotFree(l) == Cardinality(OfLane(l, flight) \ Eager) < SendDepth

\* One turn of the chunk loop: a slot is free, the chunk is read into it and
\* the frame sent.  post_tag_send returns null for an eager frame: its slot is
\* free at once.
SendFrame(l) ==
    /\ spc[l] = "send"
    /\ next[l] <= Len(Assign[l])
    /\ SlotFree(l)
    /\ LET f == <<l, next[l]>> IN
          /\ sent' = [sent EXCEPT ![f] = source[ChunkOf(f)]]
          /\ flight' = flight \cup {f}
    /\ next' = [next EXCEPT ![l] = @ + 1]
    /\ UNCHANGED <<options, source, faults, spc, sexit, got, landing, posted,
                   atOnce, receiver>>

\* pread fails or falls short; the thread throws.
SendFrameFails(l) ==
    /\ Fault
    /\ spc[l] = "send"
    /\ next[l] <= Len(Assign[l])
    /\ SlotFree(l)
    /\ spc' = [spc EXCEPT ![l] = "failed"]
    /\ UNCHANGED <<options, source, next, sexit, lanes, receiver>>

\* Mutation operator: the done frame does not wait for the requests.
SentAllOf(l) == next[l] > Len(Assign[l])

\* The chunk loop is over and wait_for_all has returned: no request is left,
\* and an eager frame has none.
AllComplete(l) == next[l] > Len(Assign[l]) /\ OfLane(l, flight) \subseteq Eager

\* The done frame is sent.
FinishSend(l) ==
    /\ spc[l] = "send"
    /\ AllComplete(l)
    /\ spc' = [spc EXCEPT ![l] = "finished"]
    /\ UNCHANGED <<options, source, faults, next, sexit, lanes, receiver>>

\* main has joined all threads.
SenderExit ==
    /\ sexit = "running"
    /\ \A l \in Lanes : spc[l] \in {"finished", "failed"}
    /\ sexit' = IF \E l \in Lanes : spc[l] = "failed" THEN "2" ELSE "0"
    /\ UNCHANGED <<options, source, faults, spc, next, lanes, receiver>>
----------------------------------------------------------------------------
(* The lanes.                                                              *)

\* `posted < lane_expected_chunks', in both loops of the receiver's thread.
MoreToPost(l) == posted[l] < Len(Assign[l])

\* The thread is in its first loop over the slots.
Posting(l) == rpc[l] = "receive" /\ posted[l] < RecvDepth /\ MoreToPost(l)

\* It is in the second: nothing is to be processed in the course of posting.
Polling(l) == rpc[l] = "receive" /\ ~Posting(l) /\ OfLane(l, atOnce) = {}

\* Frames sent eagerly arrive in the order sent.
Arrives(f) ==
    /\ f \in flight
    /\ f \in Eager => \A g \in OfLane(f[1], flight \cap Eager) : f[2] <= g[2]

\* Frames are matched with receives in the order sent.
HasReceive(f) == Arrives(f) /\ f[2] <= posted[f[1]]

CanFetch(f) == HasReceive(f) /\ Polling(f[1])

\* A thread that has thrown over a frame (which stays in landing) closes its
\* endpoint, and so goes on progressing the worker, with receives posted.
StillFetches(f) ==
    /\ HasReceive(f)
    /\ rpc[f[1]] = "failed" /\ OfLane(f[1], landing) # {}
    /\ rexit = "running"

Fetch(f, d) ==
    /\ got' = [got EXCEPT ![f] = d]
    /\ flight' = flight \ {f}
    /\ landing' = landing \cup {f}
    /\ UNCHANGED <<options, source, faults, sender, sent, posted, atOnce, receiver>>

FetchIntact(f) == CanFetch(f) /\ Fetch(f, sent[f])

\* The frame lands in memory that was a slot.
FetchWhileClosing(f) == StillFetches(f) /\ Fetch(f, sent[f])

\* The bytes are read out of the freed slots of a thread that has thrown.
FetchFreed(f) ==
    /\ CanFetch(f) \/ StillFetches(f)
    /\ spc[f[1]] = "failed" /\ f \notin Eager
    /\ Fetch(f, "damaged")

\* The bytes of a frame have been damaged on their way.
Damage(f) ==
    /\ Fault
    /\ f \in landing /\ rpc[f[1]] = "receive" /\ got[f] # "damaged"
    /\ got' = [got EXCEPT ![f] = "damaged"]
    /\ UNCHANGED <<options, source, sender, sent, flight, landing, posted, atOnce,
                   receiver>>

\* post_recv, with `rest' left to be processed.  An eager frame may be there
\* already: then the receive completes at once.
PostReceive(l, rest) ==
    /\ posted' = [posted EXCEPT ![l] = @ + 1]
    /\ \/ landing' = rest /\ UNCHANGED <<got, flight, atOnce>>
       \/ LET f == <<l, posted[l] + 1>> IN
             /\ f \in Eager /\ Arrives(f)
             /\ got' = [got EXCEPT ![f] = sent[f]]
             /\ flight' = flight \ {f}
             /\ landing' = rest \cup {f}
             /\ atOnce' = atOnce \cup {f}
----------------------------------------------------------------------------
(* The receiver's threads.                                                 *)

\* Mutation operator: every lane opens and truncates the file.
OpensAlways == ~sink

\* The first lane to bring the metadata opens and truncates the file.
Opens == ~sink /\ ~metaReady

\* apply_meta, under the mutex.
ApplyMeta(l) ==
    /\ rpc[l] = "meta"
    /\ spc[l] # "connect"
    /\ rpc' = [rpc EXCEPT ![l] = "receive"]
    /\ metaReady' = TRUE
    /\ file' = IF Opens THEN [c \in Chunks |-> "hole"] ELSE file
    /\ UNCHANGED <<options, source, faults, sender, lanes, received, processed,
                   sha, rexit>>

\* open or ftruncate fails: meta_ready stays false and the lane throws.
ApplyMetaFails(l) ==
    /\ Fault
    /\ rpc[l] = "meta"
    /\ spc[l] # "connect"
    /\ Opens
    /\ rpc' = [rpc EXCEPT ![l] = "failed"]
    /\ file' \in {file, [c \in Chunks |-> "hole"]}
    /\ UNCHANGED <<options, source, sender, lanes, metaReady, received,
                   processed, sha, rexit>>

\* Mutation operators: the checksum is compared only if the sender computed
\* it; it is compared for every --verify but none.
ChecksumOkIfPresent(f) ==
    ChunkVerify(rverify) /\ ChunkVerify(sverify) => got[f] = sent[f]
ChecksumOkUnlessNone(f) ==
    rverify # "none" => ChunkVerify(sverify) /\ got[f] = sent[f]

\* process_slot compares the checksum, which the sender leaves zero unless
\* it has been told to compute it.
ChecksumOk(f) ==
    ChunkVerify(rverify) => ChunkVerify(sverify) /\ got[f] = sent[f]

\* The body of the first loop over the slots.
PrePost(l) ==
    /\ Posting(l)
    /\ OfLane(l, atOnce) = {}
    /\ PostReceive(l, landing)
    /\ UNCHANGED <<options, source, faults, sender, sent, receiver>>

\* It is frame f that the thread processes next.
Turn(f) ==
    /\ f \in landing
    /\ rpc[f[1]] = "receive"
    /\ f \in atOnce \/ Polling(f[1])

\* The request of the frame's slot is gone.
Taken(f) == landing \ {f}

\* process_slot writes the chunk and counts it.  The slot is posted again as
\* long as there is more to post, but for a frame whose receive completed at
\* once: its slot has no request, and the polling loop passes it over.
Process(f) ==
    /\ Turn(f)
    /\ ChecksumOk(f)
    /\ \/ /\ f \notin atOnce /\ MoreToPost(f[1])
          /\ PostReceive(f[1], Taken(f))
       \/ /\ f \in atOnce \/ ~MoreToPost(f[1])
          /\ landing' = Taken(f)
          /\ atOnce' = atOnce \ {f}
          /\ UNCHANGED <<got, flight, posted>>
    /\ file' = IF sink THEN file ELSE [file EXCEPT ![ChunkOf(f)] = got[f]]
    /\ received' = received + 1
    /\ processed' = processed \cup {f}
    /\ UNCHANGED <<options, source, faults, sender, sent, rpc, metaReady, sha,
                   rexit>>

\* process_slot finds a wrong checksum; the thread throws.
ProcessRefuses(f) ==
    /\ Turn(f)
    /\ ~ChecksumOk(f)
    /\ rpc' = [rpc EXCEPT ![f[1]] = "failed"]
    /\ UNCHANGED <<options, source, faults, sender, lanes, metaReady, file,
                   received, processed, sha, rexit>>

\* pwrite fails or falls short; the thread throws.
ProcessCannotWrite(f) ==
    /\ Fault
    /\ Turn(f)
    /\ ChecksumOk(f)
    /\ ~sink
    /\ rpc' = [rpc EXCEPT ![f[1]] = "failed"]
    /\ file' \in {file, [file EXCEPT ![ChunkOf(f)] = "torn"]}
    /\ UNCHANGED <<options, source, sender, lanes, metaReady, received,
                   processed, sha, rexit>>

\* completed has reached lane_expected_chunks.
LaneComplete(l) == Cardinality(OfLane(l, processed)) = Len(Assign[l])

\* The done frame arrives after the lane's last chunk.
FinishReceive(l) ==
    /\ rpc[l] = "receive"
    /\ spc[l] = "finished"
    /\ LaneComplete(l)
    /\ rpc' = [rpc EXCEPT ![l] = "finished"]
    /\ UNCHANGED <<options, source, faults, sender, lanes, metaReady, file,
                   received, processed, sha, rexit>>

\* Mutation operator: the digest is compared only if the sender sent one.
DigestIfSent ==
    IF sink \/ ~FileVerify(rverify) \/ ~FileVerify(sverify) THEN "unchecked"
    ELSE IF \A c \in Chunks : file[c] \in Content THEN "match" ELSE "mismatch"

\* The digest of the output file against the one in the metadata, which is
\* empty unless the sender has computed it.
Digest ==
    IF sink \/ ~FileVerify(rverify) THEN "unchecked"
    ELSE IF FileVerify(sverify) /\ \A c \in Chunks : file[c] = "old"
         THEN "match" ELSE "mismatch"

\* main has joined all threads: their failures, the number of chunks, the
\* digest.
ReceiverExit ==
    /\ rexit = "running"
    /\ \A l \in Lanes : rpc[l] \in {"finished", "failed"}
    /\ \/ /\ \E l \in Lanes : rpc[l] = "failed"
          /\ rexit' = "2"
          /\ UNCHANGED sha
       \/ /\ \A l \in Lanes : rpc[l] = "finished"
          /\ sha' = IF received = Cardinality(Chunks) THEN Digest ELSE sha
          /\ rexit' = IF received = Cardinality(Chunks) /\ sha' # "mismatch"
                      THEN "0" ELSE "1"
    /\ UNCHANGED <<options, source, faults, sender, lanes, rpc, metaReady, file,
                   received, processed>>
----------------------------------------------------------------------------
SenderThread(l) == SendMeta(l) \/ SendFrame(l) \/ FinishSend(l)

ReceiverThread(l) ==
    \/ ApplyMeta(l) \/ PrePost(l) \/ FinishReceive(l)
    \/ \E f \in OfLane(l, Frame) :
          FetchIntact(f) \/ Process(f) \/ ProcessRefuses(f)

Faulty ==
    \/ \E c \in Chunks : EditSource(c)
    \/ \E l \in Lanes : SendFrameFails(l) \/ ApplyMetaFails(l)
    \/ \E f \in Frame :
          FetchWhileClosing(f) \/ FetchFreed(f) \/ Damage(f) \/ ProcessCannotWrite(f)

Working ==
    \/ \E l \in Lanes : SenderThread(l) \/ ReceiverThread(l)
    \/ SenderExit \/ ReceiverExit

Next == Working \/ Faulty

Spec == Init /\ [][Next]_vars

(***************************************************************************)
(* Some thread that can go on does, as long as there is one, and a frame   *)
(* for which a receive is posted is fetched.  Every thread is scheduled    *)
(* all the time; less is enough here, since there is no step that a thread *)
(* could repeat for ever.                                                  *)
(***************************************************************************)
FairSpec == Spec /\ WF_vars(Working)
----------------------------------------------------------------------------
(* Properties.                                                             *)

\* If the receiver reports success, every chunk of the output is there: with
\* chunk verification as the sender has read it, with file verification as
\* the sender has hashed it.
OkMeansFaithful ==
    rexit = "0" /\ ~sink =>
        \A f \in Frame :
            /\ file[ChunkOf(f)] \in Data
            /\ ChunkVerify(rverify) => file[ChunkOf(f)] = sent[f]
            /\ FileVerify(rverify) => file[ChunkOf(f)] = "old"

\* With chunk verification bytes damaged in flight never reach the file, not
\* even in a transfer that fails.
DamageKeptOut ==
    ChunkVerify(rverify) => \A c \in Chunks : file[c] # "damaged"

\* received_chunks, all that the receiver compares with the metadata, counts
\* the frames that have been processed.
CountIsExact == received = Cardinality(processed)

\* If the sender reports success, the receiver has fetched every frame that
\* was not sent eagerly, so none of them is still to be read out of the freed
\* slots.  A frame sent eagerly may not have reached the receiver's slots: the
\* sender's status 0 does not say that the file has been received.
SenderOkMeansFetched == sexit = "0" => \A f \in Frame \ Eager : got[f] # "none"

\* The lanes together do what FileCopy promises of the output file.
Copy == INSTANCE FileCopy
        WITH keep <- ~sink,
             verdict <- CASE rexit = "running" -> "running"
                          [] rexit = "0" -> "ok"
                          [] OTHER -> "failed"

ImplementsCopy == Copy!Spec

\* The receiver asks for no check the sender has not prepared.
Compatible ==
    /\ ChunkVerify(rverify) => ChunkVerify(sverify)
    /\ FileVerify(rverify) => FileVerify(sverify) \/ sink

\* A lane has lost all its slots to frames sent eagerly before everything was
\* posted: its thread polls for ever (the trace of RecvLane's LaneFinishes).
Starved(l) ==
    /\ rpc[l] = "receive" /\ ~Posting(l) /\ MoreToPost(l)
    /\ Cardinality(OfLane(l, processed)) = posted[l]

\* Without faults the receiver comes to its end, also if the options do not
\* fit, and if they do, both programs report success; unless a lane starves,
\* which takes a frame sent eagerly for each of its slots.
TransferEnds ==
    <>(\/ rexit # "running" /\ (Compatible => sexit = "0" /\ rexit = "0")
       \/ faults > 0
       \/ \E l \in Lanes : Starved(l) /\ Cardinality(OfLane(l, Eager)) >= RecvDepth)
=============================================================================
