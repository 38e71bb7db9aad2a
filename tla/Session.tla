------------------------------ MODULE Session ------------------------------
(***************************************************************************)
(* How lanes come up: for every --lane the receiver listens on a TCP port, *)
(* a lane thread of a sender connects to it, the two exchange their UCX    *)
(* worker addresses, and the sender's first frame carries the metadata,    *)
(* which the receiver compares with that of the other lanes.               *)
(*                                                                         *)
(* A sender retries connect for ever and the receiver takes whoever comes  *)
(* first, so the lanes of one receiver may meet those of several senders:  *)
(* one that has been waiting since an earlier attempt, say.  Senders may   *)
(* be killed at any time.                                                  *)
(***************************************************************************)
EXTENDS Integers, Sequences, FiniteSets

CONSTANTS Lanes,        \* the --lane options of the receiver, by port
          Senders,      \* rnic_send processes
          SenderLanes,  \* [Senders -> SUBSET Lanes], their --lane options
          Meta,         \* what the seven fields compared may be
          NoMeta,       \* TransferMeta as constructed
          MetaOf,       \* [Senders -> Meta], what each sender announces
          Backlog,      \* connections a socket in listen(fd, 1) holds
          MaxFaults     \* how many of the faults below may happen

ASSUME LanesAssumption == IsFiniteSet(Lanes) /\ Lanes # {}
ASSUME SendersAssumption ==
    IsFiniteSet(Senders) /\ SenderLanes \in [Senders -> SUBSET Lanes]
ASSUME MetaAssumption == NoMeta \notin Meta /\ MetaOf \in [Senders -> Meta]
ASSUME BacklogAssumption == Backlog \in Nat \ {0}
ASSUME MaxFaultsAssumption == MaxFaults \in Nat

\* The lane threads of all senders.
Client == UNION {{s} \X SenderLanes[s] : s \in Senders}
NoClient == <<>>

VARIABLES
    sink,       \* --sink: no output file
    client,     \* where the sender's lane threads are
    server,     \* where the receiver's lane threads are
    queue,      \* connections a listening socket has not accepted
    peer,       \* the connection a lane of the receiver has accepted
    killed,     \* the senders killed
    sigpipe,    \* the receiver has been killed by SIGPIPE
    meta,       \* SharedState: meta
    metaReady,  \* SharedState: meta_ready
    fd,         \* SharedState: fd, -1 or the lane that has opened the file
    faults      \* the faults so far

state == <<meta, metaReady, fd>>
vars == <<sink, client, server, queue, peer, killed, sigpipe, state, faults>>

\* "greeted": the client has sent its address.  "meta": it has sent the
\* metadata.
ClientPc == {"connect", "connected", "greeted", "up", "meta", "failed"}
\* "up": the server has sent its address and has an endpoint.  "refused":
\* apply_meta has thrown.
ServerPc == {"start", "listen", "accepted", "up", "passed", "refused", "failed"}

TypeOK ==
    /\ sink \in BOOLEAN
    /\ client \in [Client -> ClientPc]
    /\ server \in [Lanes -> ServerPc]
    /\ queue \in [Lanes -> Seq(Client)]
    /\ peer \in [Lanes -> Client \cup {NoClient}]
    /\ killed \subseteq Senders
    /\ sigpipe \in BOOLEAN
    /\ meta \in Meta \cup {NoMeta}
    /\ metaReady \in BOOLEAN
    /\ fd \in Lanes \cup {-1}
    /\ faults \in 0..MaxFaults

Init ==
    /\ sink \in BOOLEAN
    /\ client = [c \in Client |-> "connect"]
    /\ server = [l \in Lanes |-> "start"]
    /\ queue = [l \in Lanes |-> <<>>]
    /\ peer = [l \in Lanes |-> NoClient]
    /\ killed = {}
    /\ sigpipe = FALSE
    /\ meta = NoMeta
    /\ metaReady = FALSE
    /\ fd = -1
    /\ faults = 0

Fault == faults < MaxFaults /\ faults' = faults + 1

Alive(c) == c[1] \notin killed

InQueue(c) == \E i \in 1..Len(queue[c[2]]) : queue[c[2]][i] = c

Kill(s) ==
    /\ Fault
    /\ s \notin killed
    /\ killed' = killed \cup {s}
    /\ UNCHANGED <<sink, client, server, queue, peer, sigpipe, state>>
----------------------------------------------------------------------------
(* client_connect_oob and the first frame.                                 *)

MoveClient(c, from, to) ==
    /\ Alive(c)
    /\ client[c] \in from
    /\ client' = [client EXCEPT ![c] = to]
    /\ UNCHANGED <<sink, server, queue, peer, killed, sigpipe, state, faults>>

\* connect succeeds.  Until it does the thread sleeps and tries again.
Connect(c) ==
    /\ Alive(c) /\ ~sigpipe
    /\ client[c] = "connect"
    /\ server[c[2]] = "listen"
    /\ Len(queue[c[2]]) < Backlog
    /\ client' = [client EXCEPT ![c] = "connected"]
    /\ queue' = [queue EXCEPT ![c[2]] = Append(@, c)]
    /\ UNCHANGED <<sink, server, peer, killed, sigpipe, state, faults>>

\* The connection has been reset or closed at the other end, by the server's
\* thread or because the socket it was waiting at is gone.
Gone(c) ==
    sigpipe \/ (~InQueue(c) /\ (peer[c[2]] # c \/ server[c[2]] = "failed"))

\* Mutation operator: the server sends its address first.
SentAddressFirst(l) == server[l] \in {"accepted", "up", "passed", "refused"}

\* The server's address has been sent.
SentAddress(l) == server[l] \in {"up", "passed", "refused"}

\* Mutation operator: the client, too, waits for the other's address.
GreetLast(c) ==
    /\ peer[c[2]] = c /\ SentAddress(c[2])
    /\ MoveClient(c, {"connected"}, "greeted")

\* The client sends its address, into the queue if need be.
Greet(c) == MoveClient(c, {"connected"}, "greeted")

\* The client receives the server's address and creates its endpoint.
ClientUp(c) ==
    /\ peer[c[2]] = c /\ SentAddress(c[2])
    /\ MoveClient(c, {"greeted"}, "up")

\* send or recv fails: the thread throws.
ClientLost(c) ==
    /\ Gone(c)
    /\ MoveClient(c, {"connected", "greeted"}, "failed")

SendMeta(c) == MoveClient(c, {"up"}, "meta")
----------------------------------------------------------------------------
(* server_connect_oob.                                                     *)

\* The accepted client has come to pc.
PeerAt(l, pc) == peer[l] # NoClient /\ client[peer[l]] = pc
PeerKilled(l) == peer[l] # NoClient /\ ~Alive(peer[l])

MoveServer(l, from, to) ==
    /\ ~sigpipe
    /\ server[l] = from
    /\ server' = [server EXCEPT ![l] = to]
    /\ UNCHANGED <<sink, client, killed>>

\* socket, bind, listen.
Listen(l) ==
    /\ MoveServer(l, "start", "listen")
    /\ UNCHANGED <<queue, peer, sigpipe, state, faults>>

ListenFails(l) ==
    /\ Fault
    /\ MoveServer(l, "start", "failed")
    /\ UNCHANGED <<queue, peer, sigpipe, state>>

\* Mutation operator: the listening socket stays open.
StillListening(l) == Tail(queue[l])

\* The listening socket is closed, which resets the connections in it.
ClosesSocket(l) == <<>>

\* The oldest connection is accepted.
Accept(l) ==
    /\ queue[l] # <<>>
    /\ MoveServer(l, "listen", "accepted")
    /\ peer' = [peer EXCEPT ![l] = Head(queue[l])]
    /\ queue' = [queue EXCEPT ![l] = ClosesSocket(l)]
    /\ UNCHANGED <<sigpipe, state, faults>>

\* The server receives the client's address, sends its own and creates its
\* endpoint.
ServerUp(l) ==
    /\ PeerAt(l, "greeted")
    /\ MoveServer(l, "accepted", "up")
    /\ UNCHANGED <<queue, peer, sigpipe, state, faults>>

\* The client was killed before it sent its address, or the server's address
\* cannot be sent any more: the thread throws.
ServerLost(l) ==
    /\ PeerKilled(l)
    /\ MoveServer(l, "accepted", "failed")
    /\ UNCHANGED <<queue, peer, sigpipe, state, faults>>

\* ... unless it is the second send after the client's death, which raises
\* SIGPIPE.
ServerPiped(l) ==
    /\ PeerKilled(l)
    /\ PeerAt(l, "greeted")
    /\ server[l] = "accepted" /\ ~sigpipe
    /\ sigpipe' = TRUE
    /\ UNCHANGED <<sink, client, server, queue, peer, killed, state, faults>>
----------------------------------------------------------------------------
(* apply_meta, under the mutex.                                            *)

Incoming(l) == MetaOf[peer[l][1]]

\* The metadata frame has arrived; a client killed after sending it may or
\* may not have got it through.
HasMeta(l) == PeerAt(l, "meta")

\* Mutation operators: any metadata will do; meta_ready is set together
\* with fd.
MatchesAny(m) == m \in Meta
ReadyWithFile == ~sink

\* The seven fields are compared.
Matches(m) == m = meta

\* meta_ready, once a lane has opened the file or needs none.
Ready == TRUE

\* state.fd, which stays -1 with --sink.
Opened(l) == IF sink THEN -1 ELSE l

\* The first lane sets the metadata and opens the file, unless --sink.
FirstMeta(l) ==
    /\ HasMeta(l)
    /\ ~metaReady
    /\ MoveServer(l, "up", "passed")
    /\ meta' = Incoming(l)
    /\ fd' = Opened(l)
    /\ metaReady' = Ready
    /\ UNCHANGED <<queue, peer, sigpipe, faults>>

\* open or ftruncate fails: the thread throws, state.meta is set but not
\* meta_ready, state.fd only if open has succeeded.
FirstMetaFails(l) ==
    /\ Fault
    /\ HasMeta(l)
    /\ ~metaReady /\ ~sink
    /\ MoveServer(l, "up", "refused")
    /\ meta' = Incoming(l)
    /\ fd' \in {l, -1}
    /\ UNCHANGED <<queue, peer, sigpipe, metaReady>>

\* The other lanes must bring the same.
NextMeta(l) ==
    /\ HasMeta(l)
    /\ metaReady
    /\ MoveServer(l, "up", IF Matches(Incoming(l)) THEN "passed" ELSE "refused")
    /\ UNCHANGED <<queue, peer, sigpipe, state, faults>>
----------------------------------------------------------------------------
ClientThread(c) ==
    Connect(c) \/ Greet(c) \/ ClientUp(c) \/ ClientLost(c) \/ SendMeta(c)

ServerThread(l) ==
    \/ Listen(l) \/ Accept(l) \/ ServerUp(l) \/ ServerLost(l) \/ ServerPiped(l)
    \/ FirstMeta(l) \/ NextMeta(l)

Faulty ==
    \/ \E s \in Senders : Kill(s)
    \/ \E l \in Lanes : ListenFails(l) \/ FirstMetaFails(l)

Next ==
    \/ \E c \in Client : ClientThread(c)
    \/ \E l \in Lanes : ServerThread(l)
    \/ Faulty

Spec == Init /\ [][Next]_vars

\* The threads are scheduled, the network delivers.
FairSpec ==
    /\ Spec
    /\ \A c \in Client : WF_vars(ClientThread(c))
    /\ \A l \in Lanes : WF_vars(ServerThread(l))
----------------------------------------------------------------------------
(* Properties.                                                             *)

\* A sender's lane that is up has a lane of the receiver to itself, which has
\* an endpoint that leads back to it.
Paired ==
    \A c \in Client :
        client[c] \in {"up", "meta"} => peer[c[2]] = c /\ SentAddress(c[2])

\* All lanes that receive agree on the metadata, which tells them where the
\* file ends and how large a frame is, whichever senders they have met and
\* whatever became of the lane that came first.
GateAgrees ==
    \A l \in Lanes :
        server[l] = "passed" => metaReady /\ Incoming(l) = meta

\* Once a lane receives, the metadata and the file it writes to stay: they
\* are read without the mutex from then on.
GateStaysShut ==
    [][(\E l \in Lanes : server[l] = "passed") => UNCHANGED state]_vars

\* A sender's lane whose connection was not the one accepted learns of it.
ClientLearns ==
    \A c \in Client :
        client[c] = "connected" ~> (client[c] \in {"meta", "failed"} \/ killed # {})
=============================================================================
