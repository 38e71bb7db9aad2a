------------------------------ MODULE Attempts ------------------------------
(***************************************************************************)
(* What a receiver makes of the lanes that have come up (Session) when     *)
(* they belong to several attempts to send it a file.  A lane receives     *)
(* what its own sender has assigned to it; the receiver adds up the        *)
(* numbers of chunks, and success is a matter of their sum, as long as     *)
(* --verify does not ask for the digest of the file.                       *)
(***************************************************************************)
EXTENDS Session

CONSTANTS Chunks,   \* the chunks of the file, of all files
          AssignOf  \* [Client -> SUBSET Chunks], assign_chunks of each sender

ASSUME ChunksAssumption == IsFiniteSet(Chunks)
\* ChunkAssignment's ExactlyOneLane, for the lanes of one sender.
ASSUME AssignOfAssumption ==
    /\ AssignOf \in [Client -> SUBSET Chunks]
    /\ \A c, d \in Client : c # d /\ c[1] = d[1] => AssignOf[c] \cap AssignOf[d] = {}

VARIABLES finished,  \* the receiver's lanes that have had their done frame
          written,   \* the output: chunks, and whose file they are from
          received,  \* SharedState: received_chunks
          rexit      \* exit status of the receiver

outcome == <<finished, written, received, rexit>>

AttemptsInit ==
    /\ Init
    /\ finished = {} /\ written = {} /\ received = 0
    /\ rexit = "running"

\* The lane receives its frames and the done frame.  One whose sender is
\* killed waits for ever.
ReceiveLane(l) ==
    /\ server[l] = "passed" /\ l \notin finished
    /\ Alive(peer[l]) /\ ~sigpipe
    /\ finished' = finished \cup {l}
    /\ written' = written \cup ({Incoming(l)} \X AssignOf[peer[l]])
    /\ received' = received + Cardinality(AssignOf[peer[l]])
    /\ UNCHANGED <<vars, rexit>>

LaneFailed(l) == server[l] \in {"refused", "failed"}

\* main has joined all threads: their failures, the number of chunks.
ReceiverExit ==
    /\ rexit = "running" /\ ~sigpipe
    /\ \A l \in Lanes : l \in finished \/ LaneFailed(l)
    /\ rexit' = CASE \E l \in Lanes : LaneFailed(l) -> "2"
                  [] finished = Lanes /\ received # Cardinality(Chunks) -> "1"
                  [] OTHER -> "0"
    /\ UNCHANGED <<vars, finished, written, received>>

AttemptsNext ==
    \/ Next /\ UNCHANGED outcome
    \/ \E l \in Lanes : ReceiveLane(l)
    \/ ReceiverExit

AttemptsSpec == AttemptsInit /\ [][AttemptsNext]_<<vars, outcome>>

AttemptsFairSpec ==
    /\ AttemptsSpec
    /\ \A c \in Client : WF_vars(ClientThread(c) /\ UNCHANGED outcome)
    /\ \A l \in Lanes : WF_vars(ServerThread(l) /\ UNCHANGED outcome)
    /\ \A l \in Lanes : WF_<<vars, outcome>>(ReceiveLane(l))
    /\ WF_<<vars, outcome>>(ReceiverExit)
----------------------------------------------------------------------------
(* Properties.                                                             *)

\* Two lanes have met different senders, of which both have assigned a chunk.
Overlapping ==
    \E l, k \in Lanes :
        /\ peer[l][1] # peer[k][1]
        /\ AssignOf[peer[l]] \cap AssignOf[peer[k]] # {}

\* What the receiver's success says of the output when its lanes may have met
\* different attempts.  It holds chunks of one file only; that it has all of
\* them, "the receiver reconstructs the file" (README.md:10), is so exactly
\* if no chunk has come twice.  Attempts to send the same file with other
\* lanes, another order of them or other weights can have numbers that add up
\* although the chunks do not: nothing compares the assignments.
OkMeansComplete ==
    rexit = "0" =>
        /\ written \subseteq {meta} \X Chunks
        /\ written = {meta} \X Chunks <=> ~Overlapping

\* Whatever attempts the lanes meet, each comes up or gives up, and the
\* receiver comes to a verdict, unless a sender is killed: then a lane may
\* wait for ever.
AttemptEnds == <>(rexit # "running" \/ killed # {})
=============================================================================
