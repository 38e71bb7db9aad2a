---------------------------- MODULE ChunkFrames ----------------------------
(***************************************************************************)
(* The arithmetic of the frames: how rnic_send cuts a file into chunks,    *)
(* and what process_slot checks of a frame before it writes it, both in    *)
(* unsigned arithmetic that wraps.                                         *)
(***************************************************************************)
EXTENDS Integers, FiniteSets

CONSTANTS Wrap,        \* 2^64, the range of uint64_t
          ChunkSizes,  \* values of --chunk-size
          HeaderSize,  \* sizeof(FrameHeader)
          MaxFaults    \* how many headers may be damaged

ASSUME WrapAssumption == Wrap \in Nat \ {0}
ASSUME ChunkSizesAssumption == ChunkSizes \subseteq 1..Wrap-1
ASSUME HeaderSizeAssumption == HeaderSize \in Nat \ {0}
ASSUME MaxFaultsAssumption == MaxFaults \in Nat

Word == 0..Wrap-1
None == [tag |-> 0]

VARIABLES size,       \* meta.file_size
          chunkSize,  \* meta.chunk_size
          sink,       \* --sink
          id,         \* the next chunk_id
          wire,       \* the frame on its way, or None
          accepted,   \* the ranges process_slot has accepted
          refused,    \* it has thrown
          faults      \* the headers damaged so far

meta == <<size, chunkSize, sink>>
framesVars == <<meta, id, wire, accepted, refused, faults>>

\* Mutation operator: the short chunk at the end is forgotten.
WholeChunks == size \div chunkSize

\* total_chunks; the sum wraps.
NumChunks == ((size + chunkSize - 1) % Wrap) \div chunkSize

Offset(c) == (c * chunkSize) % Wrap

\* min(chunk_size, file_size - offset)
Length(c) ==
    LET rest == (size - Offset(c)) % Wrap IN IF rest < chunkSize THEN rest ELSE chunkSize

\* ftruncate refuses sizes that are negative as off_t.
FramesInit ==
    /\ size \in Word /\ chunkSize \in ChunkSizes /\ sink \in BOOLEAN
    /\ ~sink => size < Wrap \div 2
    /\ id = 0
    /\ wire = None
    /\ accepted = {}
    /\ refused = FALSE
    /\ faults = 0

\* One turn of the sender's chunk loop.
Send ==
    /\ id < NumChunks
    /\ wire = None /\ ~refused
    /\ wire' = [tag |-> (id + 1) % Wrap, chunk_id |-> id, offset |-> Offset(id),
                length |-> Length(id), bytes |-> HeaderSize + Length(id)]
    /\ id' = id + 1
    /\ UNCHANGED <<meta, accepted, refused, faults>>

\* A field of the header is not what the sender has put there.
Damage ==
    /\ wire # None
    /\ faults < MaxFaults /\ faults' = faults + 1
    /\ \E field \in {"chunk_id", "offset", "length"}, v \in Word :
          wire' = [wire EXCEPT ![field] = v]
    /\ UNCHANGED <<meta, id, accepted, refused>>

\* Mutation operator: only the offset is checked.
StartsInFile(f) == f.offset <= size

\* Mutation operator: `>=' for `>'.
EndsBeforeEnd(f) == (f.offset + f.length) % Wrap < size

\* `header->offset + header->length > file_size' is false; the sum wraps.
InFile(f) == (f.offset + f.length) % Wrap <= size

\* The checks of process_slot on the header.
HeaderOk(f) ==
    /\ f.tag = (f.chunk_id + 1) % Wrap
    /\ f.bytes = HeaderSize + f.length
    /\ f.length <= chunkSize
    /\ InFile(f)

\* pwrite fails at an offset that is negative as off_t.
CanWrite(f) == sink \/ f.offset < Wrap \div 2

Receive ==
    /\ wire # None /\ ~refused
    /\ \/ /\ HeaderOk(wire) /\ CanWrite(wire)
          /\ accepted' = accepted \cup {[offset |-> wire.offset, length |-> wire.length]}
          /\ wire' = None
          /\ UNCHANGED refused
       \/ /\ ~(HeaderOk(wire) /\ CanWrite(wire))
          /\ refused' = TRUE
          /\ UNCHANGED <<accepted, wire>>
    /\ UNCHANGED <<meta, id, faults>>

Done == (refused \/ (wire = None /\ id = NumChunks)) /\ UNCHANGED framesVars

FramesNext == Send \/ Damage \/ Receive \/ Done

FramesSpec == FramesInit /\ [][FramesNext]_framesVars
----------------------------------------------------------------------------
(* Properties.                                                             *)

\* Nothing is written outside the file, whatever a header says, although the
\* sum the check computes may wrap.
WritesInsideFile == ~sink => \A a \in accepted : a.offset + a.length <= size

\* The two programs compute alike: a frame that arrives as it was sent is
\* never refused.
OwnFramesAccepted == refused => faults > 0

In(p, a) == a.offset <= p /\ p < a.offset + a.length

\* The chunks accepted are the file, every byte once, unless --size is so
\* close to the end of the range that the number of chunks wraps.
ChunksTileFile ==
    wire = None /\ id = NumChunks /\ faults = 0 /\ size + chunkSize <= Wrap =>
        /\ \A p \in 0..size-1 : Cardinality({a \in accepted : In(p, a)}) = 1
        /\ \A a \in accepted : a.offset + a.length <= size
        /\ Cardinality(accepted) = NumChunks
=============================================================================
