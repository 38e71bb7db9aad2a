# Verification of RNIC

RNIC copies one file (or a stream of zeros) from `rnic_send` to `rnic_recv` over
several *lanes* at once, an ordinary NIC and an RDMA NIC for instance, using UCX.
This directory holds TLA+ models of the programs, TLC configurations that check
them on small instances, and TLAPS proofs of the most important results for all
values of the constants. Paths below are relative to the repository root.

## 1. Inventory

| Component | Code | State | Operations | What makes it correct |
|---|---|---|---|---|
| Chunk assignment | `rnic_send.cpp`: `assign_chunks` | `current` (signed credits), `out` (a list per lane) | one chunk dealt per turn, by smooth weighted round robin | every chunk in one list, once; lanes stay near their share; credits bounded |
| Sending lane | `rnic_send.cpp`: `main`'s thread, `free_slot`, `wait_for_one`, `wait_for_all`; `ucx_stream.cpp`: `post_tag_send`, `test_send` | `depth` slots with a buffer and a request | fill a free slot and post it, test, progress, wait for all, done frame | a buffer is left alone until the receiver has it; done after everything; the thread ends |
| Receiving lane | `rnic_recv.cpp`: `main`'s thread, `post_recv`, `process_slot`; `ucx_stream.cpp`: `post_tag_recv`, `test_recv`, `recv_all`, `close_endpoint` | slots, `posted`, `completed`, UCX's queues | post, poll, process, post again, done frame, close | no frame lost or counted twice; nothing pending when buffers go; the thread ends |
| Whole transfer | both `main`s, `SharedState` | `fd`, `meta`, `meta_ready` (mutex), `received_chunks` (atomic), `failed` (atomic), exit status | threads, joins, final count, final SHA256 | success means a complete file, as faithful as `--verify` asks |
| Metadata gate | `rnic_recv.cpp`: `apply_meta` | `SharedState` | first lane sets and opens, the others compare | agreement; the file is truncated before it is written and never after |
| Out-of-band handshake | `ucx_stream.cpp`: `server_connect_oob`, `client_connect_oob` | a socket per lane | listen, accept one, retrying connect, exchange of worker addresses | lanes pair up one to one; nobody with a living peer hangs |
| RMA engine | branches of both threads, `post_put` | a mapped region per lane, slots | region info, puts, wait, done frame | which puts stay inside the region; that they have landed before it goes, as far as completions tell; ends with different engines never take it for a transfer |
| SHA256 | `sha256.cpp` | `data_`, `datalen_`, `bitlen_`, `state_` | `update`, `final_hex`, reading the file | the blocks are the file, padded as the standard says |
| Frame headers, FNV-1a | `protocol.cpp`, checks in `process_slot` | none | `make_frame`, the checks, `fnv1a64` | the chunks tile the file; both programs compute alike; nothing is written outside the file |
| Command lines | `parse_args`, `parse_lane_spec`, `parse_cpu_list` | `Options` | parsing, casts, checks | depth, chunk size, ports and weights are usable, there is a lane, options mean what they say |
| UCX wrapper | `ucx_stream.cpp` | worker and endpoint, used by one thread | thin calls; UCX itself is external | |
| Reports, scripts | `write_json`, `scripts/` | none | formatting, launching | not modelled |

How they interact. Each program starts one thread per lane; a thread owns its UCX
worker, which makes progress only inside that thread's calls. The two ends of a lane
talk over a TCP socket (worker addresses only), a UCX stream (metadata, RMA region,
done frame), tag messages (chunks) and RMA puts, which are ordered only within their
kind. The receiver's threads share `SharedState`; the threads of the sender share
nothing that changes but `failed`. The mains join all threads and judge.

What is hard: completions in any order while slots are reused; buffers read by the
network after the call that posted them; receives that complete while they are posted;
lanes that fail while others run; metadata arriving late; files that change between
hashing and reading; threads that spin waiting for each other without any timeout;
senders left over from an earlier attempt; ends started with different options.
`PROJECT.json` lists these hazards with their lines and the properties that watch them,
or why none does.

## 2. Modules

| Module | Models | State and actions |
|---|---|---|
| `ChunkAssignment` | `assign_chunks` | variables carry the source's names; `AddWeight` and `AssignChunk` are the bodies of its two loops |
| `ChunkWindow` | abstract | a lane issues operations in order, at most `Depth` outstanding, retires each once, until all are done or it fails |
| `SendLane` | one sending thread | `pc`, `slot`, `any` are the control of `wait_for_one` and `wait_for_all`; `request[s]` is null, announced, read or complete; one action per turn of each loop |
| `RecvLane` | one receiving thread | `posted`, `completed`, `madeProgress` as in the code; `receives`, `unexpected`, `arrived` are the queues of the UCX worker; one action per turn of each loop, and `WhileClosing` for the worker progressed by `close_endpoint` after the thread has thrown |
| `Lane` | both threads of a lane over one connection | the variables of `SendLane` and `RecvLane`; each end takes part in the other's steps (`Arrive`, `Fetch`), and nothing is assumed of a peer |
| `FileCopy` | abstract | the output file is emptied, then every chunk written at most once; success only when complete |
| `Transfer`, `MCTransfer` | all lanes with `--engine tag`, both mains | every `--verify`/`--sink` combination is an initial state; faults are explicit actions; a lane is the receives posted and the frames on the way or fetched, without slots; a frame of `Eager` may be there when its receive is posted (`atOnce`) |
| `Session` | handshake and metadata gate | `client`, `server` are the program counters of the threads of several senders and of one receiver; `queue` is the backlog of a listening socket |
| `Attempts`, `MCAttempts` | `Session` and the receiver's verdict | what the lanes of a receiver receive when they belong to several attempts, the count, the exit status |
| `Engines`, `MCEngines` | both programs from `--engine` on | who waits for whom on each lane's stream, with either engine at either end, and the final count; a put of `EarlyPuts` may be complete before it lands |
| `RmaLane`, `MCRmaLane` | one lane with `--engine rma` | both threads slot by slot, the puts in flight; `post_put` may return null for a put of `Early` |
| `Sha256` | `sha256_file_hex`, `update`, `final_hex` | one action per byte, per `fread`, and for the padding |
| `ChunkFrames` | cutting a file into frames; the checks of `process_slot` | sizes, offsets and lengths in arithmetic modulo `Wrap`; `Damage` changes a header's field |
| `CommandLine`, `MCCommandLine` | `parse_args` of both programs, `parse_lane_spec`, the first check of `main` | one action per kind of option; `given` records what was asked for |
| `*Proofs` | theorems about the module of that name; `ChunkAssignmentProofs` has those about `ChunkFrames` and `CommandLine` too, `EnginesProofs` those about `RmaLane`, `SessionProofs` those about `Attempts` (specifications that share such a module have names of their own: `FramesSpec`, `ArgsSpec`, `RmaSpec`, `AttemptsSpec`) | section 5 |

How they fit together. `Lane` shows that the two threads give each other what `SendLane`
and `RecvLane` assume of their peers (`ImplementsBothEnds`, and `KeepsBothGoing` for the
fairness), so what those modules promise holds in the composition; and that the two together do only what
`Transfer` takes a lane to do (`ImplementsTransfer`). That one is about lanes without eager frames
(`Transfer` has them, `Lane` maps to it with `Eager <- {}`): in `RecvLane` an eager frame may be posted for,
fetched and processed in the step that processes another, which are several steps of `Transfer`. `Transfer`'s constant `Assign` is any
assignment that satisfies `ExactlyOneLane` of `ChunkAssignment` (named `AssignAssumption`);
`Engines` assumes the same of `Given`. `Attempts` extends `Session`: its lanes come up and pass the gate as
there. `OptionsUsable` of `CommandLine` is what the other modules assume of depths, sizes,
weights and lanes, and what `RmaLane` assumes of `--source` and `--sink`. `SendLane` and `RecvLane` implement `ChunkWindow`, `Transfer` implements
`FileCopy`.

Abstractions. A frame is a number or a pair; the bytes of a chunk are `"old"` (as
hashed), `"new"` (changed since) or `"damaged"`; FNV-1a and SHA256 are assumed to tell
these apart. Headers travel undamaged, save in `ChunkFrames`, which is about nothing else. Worker
addresses are exchanged whole. In `Attempts` the frames of a lane are received in one step, since
how they are is the subject of the lane modules. Several definitions marked "Mutation operator"
are not part of any specification: each is a plausible bug, used to confirm that a
property would notice it.

External behaviour is modelled from how the code uses it: UCX matches an endpoint's tag
messages with posted receives in order; a rendezvous message is fetched out of the
sender's buffer later; an eager one may be complete when its receive is posted, in which case
`ucp_tag_recv_nbx` returns null; requests change state only while the owning thread
progresses its worker. A put's request completes when the put has landed, except for the puts in a constant (`Early` in `RmaLane`,
`EarlyPuts` in `Engines`), for which UCX's weaker contract (the buffer may be reused) is assumed: they may
complete at once, without a request, or before they land. Likewise an eager message (`Small` in `Engines`, `Eager` in
`Transfer`) is complete for its sender before the receiver has it. In `Session` closing a listening socket resets the connections in
its queue, and a second `send` to a peer that is gone may raise SIGPIPE.

## 3. Runs

| Run | Instance | Shows |
|---|---|---|
| `assign` | 3 lanes, all weights 1..4, 13 chunks | `ExactlyOneLane`, `NeverAheadByAChunk`, `ExactShareEveryRound`. Total weights are at most 12, so every choice passes a full round; ties and unequal weights all occur |
| `send_lane` | 3 slots, 2 receives at the peer, 6 frames, one eager, one that may be unreadable | `DeliveredIntact`, `DoneAfterAll`, `ImplementsWindow`. Every slot is reused and the peer is the narrower side |
| `recv_lane` | 3 slots, 7 frames, an early and the last one eager, three that may be refused | `FrameInOnePlace`, `QuiescentBeforeUnmap`, `WindowFull`, `ImplementsWindow` for every order of arrival, fetching and completion |
| `recv_lane_eager` | 2 slots, 4 eager frames | `LaneFinishes` is violated, section 4 |
| `lane` | 2 slots at the sender, 3 at the receiver, 5 frames, one unreadable, one refused | `ProcessedIntact`, `NothingLeftToFetch`, `ImplementsTransfer`, `ImplementsBothEnds`, `KeepsBothGoing`, `BothEnd`: no frame is read out of a buffer that has gone on to another chunk, also when an end throws and frees its slots under UCX |
| `transfer` | 2 lanes (weights 4 and 1), 5 chunks, depths 2, two eager frames on the first lane, all options, 1 fault | `OkMeansFaithful`, `DamageKeptOut`, `SenderOkMeansFetched`, `ImplementsCopy`, `TransferEnds`. Faults: a chunk of the input edited, a read, write, open or truncate failing, bytes damaged. The eager frames are as many as the lane has slots, so it can lose both, which `TransferEnds` excepts (`Starved`, section 4), or one, or none; an announced frame is there when the next read fails, so freed slots are read |
| `attempts` | 2 lanes, 4 chunks; a sender with both lanes, a second with another file on one lane, a third with the file of the first and one lane more, which the receiver does not have; 1 fault | `Paired`, `GateAgrees`, `GateStaysShut`, `ClientLearns`, `OkMeansComplete`, `AttemptEnds`. Faults: a sender killed, a port taken, the file not opened. A receiver whose lanes meet the first and the third sender gets four chunks, one of them twice, and succeeds, or three, and refuses: section 4 |
| `engines` | 3 lanes, the last without chunks; 3 chunks, one small, one whose put may be complete before it lands; all four choices of engines | `OkMeansArrived`, `MismatchNeverSucceeds`, `SameEngineSucceeds` |
| `rma_lane` | 4 slots at the sender, a region of 3, 7 chunks of a lane with weight 3 of 4, last put early | `InsideExactly` (two of the puts leave the region; the product is just below its range), `CountedHaveLanded`, `LaneFinishes` |
| `sha256` | blocks of 8 bytes with 2 of length, reads of 6, sizes 0..40 | `DigestOfPaddedFile`, `HashEnds`: reads fall on every position of a block, every rest occurs, the length takes both bytes |
| `chunk_frames` | arithmetic modulo 16, every size, seven chunk sizes, any value in one field of one header | `WritesInsideFile`, `OwnFramesAccepted`, `ChunksTileFile`: sums wrap, sizes lie on both sides of the sign of `off_t` |
| `command_line` | words of 2, 3 and 5 bits, numbers on both sides of each, up to 4 options | `OptionsUsable`, `AsGiven`: a check on two options together, two different lanes in either order, an option given twice |

Bounds. A lane's behaviour depends on its slots and frames only through whether a slot is
free, whether frames remain and in which order requests complete; two or three slots, each used
at least twice, show every such situation. Two lanes are enough for lanes to disagree, a third
is there where one has no chunks. The theorems of section 5 remove the bounds where it matters
most. `MaxFaults` and `MaxArgs` are the only artificial bounds on actions; the safety properties of `Transfer`
and `Session` are proved for any number of faults, and the liveness of `Transfer` is about none. The widths of words are scaled
down; what matters is that there are values below, at and above each.

Deadlock is checked except where the program really may stop: with failed or killed
threads, or with options that do not fit, the other side waits for ever, since the code
has no timeouts (`transfer`, `attempts`, `engines`).

Fairness. Threads never block: they spin over their requests and `ucp_worker_progress`
(or sleep and retry in `connect`), so each thread's next step is weakly fair. A
completion becomes visible only while the thread is inside a call that progresses its
worker, which is not continuously the case; a worker progressed again and again does
report it, hence strong fairness for those steps. `Transfer` asks for less, that the threads never all stop
(`Working`), which is enough since it has no step that could be repeated for ever. That `SendLane` may count on its peer to
read what it announces, and `RecvLane` on frames to come, is not taken on trust: `KeepsBothGoing` derives
both from the fairness of the two threads of `Lane`. Faults are never fair.

## 4. Findings

`rnic_recv.cpp:439`, run `recv_lane_eager`. When `post_recv` completes at once, the frame is
processed and the slot is left with a null request; the polling loop skips such slots for
good (line 450, which posts again, is reached only from a request that has completed). If it
happens to all slots before all frames have been posted for, the thread spins for ever, although
`README.md:10` says that the receiver reconstructs the file. It takes frames that UCX sends
eagerly: small `--chunk-size`. Short of that, each such slot narrows the window that
`README.md:50` says `DEPTH` controls; `WindowFull` states what is left of it. `Transfer` has the same
behaviour for whole transfers: `TransferEnds` excepts a lane that is `Starved`, which takes an eager frame for each
of its slots, and nothing else.

What the properties had to leave room for, because nothing in the repository promises more:

* **Engines that differ, small chunks.** The receiver never compares the metadata's engine with
  its own. With `tag` at the sender and `rma` at the receiver, and every chunk sent
  eagerly, the sender's requests complete without a receive, and `rnic_recv.cpp:412` counts the lane's chunks
  unseen: both programs succeed. Hence `Chunks \ Small # {}` in `MismatchNeverSucceeds`.
* **Attempts that deal the chunks differently.** `apply_meta` (`rnic_recv.cpp:153`) compares
  the metadata but not the assignment. If the lanes of a receiver meet two attempts to send
  the same file whose lane lists differ in order, in weights or in number, their chunks may overlap while the counts add
  up. The receiver then reports success without all chunks, although `README.md:10` says it reconstructs the file.
  `OkMeansComplete` states exactly when: a success is complete if and only if no chunk has come to two lanes. The
  run `attempts` reaches both outcomes.
* **Sender's status 0, eager frames.** `post_tag_send` returns null for an eager frame (`rnic_send.cpp:431`), so
  `wait_for_all` does not wait for it and the sender may report success before the receiver has it, or if the receiver
  never takes it. `SenderOkMeansFetched` is about the other frames.
* **Puts complete before they land.** Nothing flushes the endpoint between the puts and the done frame
  (`rnic_send.cpp:444-450`), and `ucp_put_nbx` completes when the buffer may be used again. The receiver unmaps the
  region and counts on the done frame. `OkMeansArrived` and `CountedHaveLanded` say that only such puts can be missing.
* **Depths that differ, regions that wrap.** The sender computes the target of a put with its own `--depth`
  (`rnic_send.cpp:436`), the receiver maps a region for its own (`rnic_recv.cpp:387`), by a product of 32 bits that may
  wrap. `InsideExactly` says which puts leave the region; nothing in the code prevents them.
* **No digest.** With `--verify chunk`, the default, or `none`, no SHA256 is computed
  (`rnic_recv.cpp:511`), although `README.md:11-12` says the complete file is verified
  with it. `OkMeansFaithful` states what each mode gives.
* **SIGPIPE.** `send` is called without `MSG_NOSIGNAL` (`ucx_stream.cpp:39`): a sender that
  dies after sending its address may take the whole receiver with it (`ServerPiped` in `Session`).
* **Casts.** `--depth` and weights are cast to 32 bits before they are checked (`rnic_send.cpp:82`), so a
  depth of 2^32 is refused as zero and 2^32 + 1 is taken for 1. `AsGiven` is about numbers that fit the type they
  end up in, which for `--size` has 64 bits.
* **A thrown sender.** It frees its slots while announced frames refer to them; the receiver
  may read freed memory. `DeliveredIntact` and `ProcessedIntact` except that case; with chunk verification
  `DamageKeptOut` keeps such bytes out of the file.
* **A thrown receiver.** It frees its slots with receives posted into them, and `close_endpoint` goes on
  progressing the worker: frames land in freed memory (`WhileClosing` in `RecvLane`, `FetchWhileClosing` in
  `Transfer`). The models have the steps, no property forbids them.

## 5. Proofs

Each `*Proofs` module proves its results for every value of the constants that satisfies the
assumptions named in the module that declares them. The type invariant `TypeOK` of each of these
modules is a theorem (`TypeCorrect`) and not checked again by a run; the same holds of `CountersBalance` of
`RecvLane`, `CountIsExact` of `Transfer` and `EveryByteInPlace` of `Sha256`.

Every invariant and every action property of a passing run is stated by a theorem.

**`ChunkAssignmentProofs`**: `ExactlyOneLane`, `NeverAheadByAChunk` and
`ExactShareEveryRound` for any number of lanes, any set of positive weights and any number of chunks.
The invariant ties a lane's credit to its list: `current[l]` is
`chunk * weight[l] - totalWeight * Len(out[l])`, and all credits add up to zero. The sum
over lanes is stated by the list of its partial sums (`PartialSums`); instead of an induction
the proof looks at the first partial sum that would be positive, or negative. Credits that
add up to zero have a non-negative largest one, so after a lane has earned its weight the
richest is positive, and having paid it stays above minus the total weight: that is
`NeverAheadByAChunk`. When a multiple of the total weight has been dealt, all credits are multiples of the
total weight above minus it and sum to zero, so they are zero.

The same module has the theorems about `ChunkFrames` and `CommandLine`. `WritesInsideFile`,
`OwnFramesAccepted` and `ChunksTileFile` hold for every modulus `Wrap`, size and chunk size, every header
size and any number of damaged fields (`ChunkSizesAssumption`: chunk sizes are between 1 and `Wrap - 1`, as
`parse_args` makes them). The check of `process_slot` compares a sum that may wrap;
`AcceptedInside` shows from the lengths compared before it that the piece lies inside the file nevertheless. `PieceOfByte` gives the chunk
of a byte, `PieceAdds` that pieces before a chunk end where it begins, so the pieces tile the file. `OptionsUsable` and
`AsGiven` hold for any widths of words with `4 < W32 <= W64` and `W16 <= W64` (`WidthAssumption`: the defaults fit, no type is
wider than `unsigned long`), any numbers and any sequence of options. The invariant says of each
option that the last value given is the one taken, reduced to the width it is stored in (`LastCounts`; `CastFits`: what
fits is not reduced), that the n-th `--lane` has left the n-th entry of `lanes`, with its port and weight
(`LanesAddUp`, `LaneAsGiven`), and which checks a program that starts has passed (`Checked`).

**`SendLaneProofs`**: `DeliveredIntact` and `DoneAfterAll` for any numbers of slots, receives and frames.
Neither is inductive. `WireInSlots` says that each frame on the wire is in a slot of
its own whose request is outstanding and whose buffer still has its bytes; `Accounted`, that every frame sent has been read
or is on the wire; `ScanIsSound`, that a pass of `wait_for_all` that has seen no request so far has passed
only over empty slots. The first gives `DeliveredIntact`, the other two `DoneAfterAll`.

**`RecvLaneProofs`**: `FrameInOnePlace`, `CountersBalance` and `QuiescentBeforeUnmap`, eager frames and
refused ones included. The frames matched with a receive come before those that wait (`QueueInOrder`). `Apart` says that a matched frame
is in one slot or processed, never two of these, `NoneLost` that it is in one of them at least; `Counters`
ties `posted` and `completed` to the slots with a request. When all expected frames are completed, so many
have been posted for, and no request can be left.

`WindowFull` needs more (`KeptFull`): the receives posted are at least the slots the first loop has passed
plus the processed frames that had to be fetched, unless all are posted. A frame that is fetched gives its
slot back, one that was complete at once does not; that is the slot section 4 speaks of.

`SendLaneProofs` and `RecvLaneProofs` also prove that each lane does what `ChunkWindow` allows (`WindowRespected`),
the safety part of `ImplementsWindow`.

**`LaneProofs`**: `ImplementsBothEnds`, `ProcessedIntact`, `NothingLeftToFetch` and `ImplementsTransfer`, for
any two depths and any frames that may be unreadable or refused. The two lane modules assume something
of each other, so their invariants cannot simply be put together; what is added is that the ends agree (`SameFrames`): what the sender has on
the wire is what the receiver has not fetched and what has not reached it. Two arguments about slots follow. When the sender
announced a frame it had a slot with no older unread frame in it (`HadASlot`), so fewer than its depth are
unfetched when the next arrives (`FewOlder`). When the receiver reads a frame, all older unread ones are in other slots
of its own (`FewBefore`), so it reads one of the oldest `RecvDepth` on the wire. With that, every joint step is a
step of `SendLane` and of `RecvLane` (or none), and the theorems about them carry over.
`ProcessedIntact` follows since a frame processed is no longer announced and so has been read.

`ImplementsTransfer` is proved for lanes without eager frames (`Whole = {}`), as the run has them (section 2). `Transfer` lets a frame be
fetched only when its receive has been posted and the thread polls. `PostedSoFar` of `RecvLaneProofs` says that the receives posted are
those matched and those still in UCX's queue, so a frame in a slot has had its own; by `KeptFull` a thread that polls has posted for every slot,
unless all is posted (`PollingMaps`). A frame the receiver has thrown over stays fetched (`Refused`). `ReadOnce` (what has been read is no
longer announced) makes the fetched frames and those on the way the two parts of those announced.

**`TransferProofs`**: `CountIsExact`, `OkMeansFaithful`, `DamageKeptOut`,
`SenderOkMeansFetched` and `Spec => ImplementsCopy` for any finite sets of lanes and chunks, any
assignment satisfying `AssignAssumption`, any depths, any frames sent eagerly and any number of faults. The receiver
checks nothing but a count, so the properties are not inductive by themselves. The
inductive invariant `Inv` says where every frame is: a frame is announced exactly if it is
below the sender's position, and then in flight, in a slot of the receiver or processed, never
two of these (`Lifecycle`); nothing arrives before the gate has been passed (`Gate`); the file
holds the bytes of the frames processed and is otherwise a hole, or torn in a lane that
has failed (`FileIsProcessed`); the counter is the number of frames processed. There
are as many frames as chunks (`FrameCount`, by a bijection), so a complete count leaves no frame
out. A sender that has finished has nothing in flight but eager frames (`SenderEnds`): that is `SenderOkMeansFetched`. For the refinement, a write needs a hole:
a frame in a slot has not been processed, and no other frame carries its chunk.

**`SessionProofs`**: `Paired`, `GateAgrees` and `GateStaysShut` for any lanes, senders, metadata and number of
faults, and `OkMeansComplete` of `Attempts`. A lane accepts one connection in its life: it has no peer before (`PeerOnceListening`), so what a client has learned from
its lane stays true. The metadata changes only before `meta_ready`, and no lane passes the gate
earlier. A receiver's success rests on a count of chunks that is the sum over lanes. `OutcomeInv` says that the sum is the size of the
union if no chunk belongs to two of the lanes that have finished (`Apart`), and larger otherwise (`TogetherAsMany`). So when it
is the size of the file, the union is the file in the first case and not in the second. Lanes of one sender are always
apart (`OwnLanesApart`), by `AssignOfAssumption`, which is `ExactlyOneLane` for each sender, and `AtItsLane`: a lane's peer is a
thread for that lane. Of two senders nothing is assumed. All of it is of one attempt's file since a lane finishes only past the gate.

**`EnginesProofs`**: `OkMeansArrived` and `MismatchNeverSucceeds` for any lanes and any assignment that deals
every chunk once. The receiver of an RMA lane counts on the word of two frames, so the invariant says what
their presence in the stream, or having heard them, tells: a done frame comes from a finished sender
(`ToldByFinished`), whose chunks have all completed, and a put that has completed has landed or is one of `EarlyPuts` (`LandedIfComplete`). If the
engines differ nobody fetches (`NobodyFetches`), so a chunk that is not small keeps its lane from finishing.

For `RmaLane` the module proves `InsideExactly` and `CountedHaveLanded` for any depths, chunk size, word size and
assignment (`DepthsAssumption`, `SizesAssumption`, `EarlyAssumption`: depths and chunk size are positive, `Early` is a set of the lane's puts). `FlyingIsHeld` says that every
put that has not landed, and is not in `Early`, is held by a slot whose request is outstanding, so `wait_for_all` waits for
it. For the region, a slot of the sender ends inside the first `RecvDepth` slots if and only if it is one of them (`SlotEnds`); a product that has
wrapped is smaller than where the receiver's last slot ends (`OffsetInside`).

**`Sha256Proofs`**: `DigestOfPaddedFile` and `EveryByteInPlace` for any block size, length field, read buffer
and file size. The invariant adds that the bytes collected are those read so far, in order (`Collected`),
and that the padding begins only when the whole file has been read (`AllRead`).
`PowersAssumption` of `Sha256` says that the powers of 256 are positive, which the prover does not know.

Checked by TLC only: everything under fairness (`TransferEnds`, `BothEnd`, `KeepsBothGoing`, `SameEngineSucceeds`,
`ClientLearns`, `AttemptEnds`, `LaneFinishes`, `HashEnds` and the liveness of `ChunkWindow`), since the prover does
not reach `ENABLED`. `ImplementsTransfer` says nothing of fairness; that a lane's frames are fetched in the end,
as the fairness of `Transfer` has it, is `BothEnd`.

## 6. Not modelled

* The compression function of SHA256 and the arithmetic of FNV-1a: no control. `Transfer` assumes that different files
  have different digests and different chunks different checksums.
* The loops of `socket_send_all` and `socket_recv_all` and the byte order of the length: an
  address is exchanged whole or not at all.
* Magic, version and type of a frame, the same constants on both sides, and the text fields of the metadata beyond their being
  compared.
* Errors of UCX calls other than the ones named: they throw like a failed read or write. What
  UCX does with a peer that is gone.
* `parse_cpu_list` and the binding of threads to CPUs, `--mode` and other options that only reach a report or
  UCX, statistics, `write_json` and the scripts.

## 7. What could come next

1. The address exchange byte by byte, between socket buffers smaller than an address.
2. FNV-1a: that one wrong byte always changes the checksum, from the invertibility of both operations
   of its loop.
3. `ImplementsTransfer` with eager frames, for a `RecvLane` that posts a slot and processes what completed at once in steps
   of their own, as `Transfer` does.
4. The promises of `Transfer` restated for lanes slot by slot: several `Lane`s that share the receiver's state, implementing
   `Transfer` with all its options.
