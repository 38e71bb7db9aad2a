---------------------------- MODULE SessionProofs ----------------------------
(***************************************************************************)
(* Proofs about any number of lanes and senders, any faults and any        *)
(* metadata.  A lane of the receiver accepts one connection in its life    *)
(* (PeerOnceListening), so what it has learned from that peer stays true;  *)
(* the metadata changes only before meta_ready is set, and no lane passes  *)
(* the gate earlier.                                                       *)
(***************************************************************************)
EXTENDS Attempts, SequenceTheorems, FiniteSetTheorems, TLAPS

\* Before it accepts, a lane has no peer; once the addresses are
\* exchanged, and from then on, it has one.
PeerOnceListening ==
    /\ \A l \in Lanes : server[l] \in {"start", "listen"} => peer[l] = NoClient
    /\ \A l \in Lanes : server[l] \in {"up", "passed"} => peer[l] \in Client

Inv == TypeOK /\ PeerOnceListening /\ Paired /\ GateAgrees

USE SendersAssumption, MetaAssumption, BacklogAssumption, MaxFaultsAssumption
----------------------------------------------------------------------------

\* A client is a pair of a sender and one of its lanes, which the receiver has.
LEMMA ClientIsPair ==
    ASSUME NEW c \in Client
    PROVE  c[1] \in Senders /\ c[2] \in Lanes /\ c # NoClient
<1>1. PICK s \in Senders : c \in {s} \X SenderLanes[s]
  BY DEF Client
<1>2. SenderLanes[s] \subseteq Lanes
  OBVIOUS
<1>3. PICK l \in SenderLanes[s] : c = <<s, l>>
  BY <1>1
<1> QED BY <1>2, <1>3 DEF NoClient

LEMMA ClientLane == \A c \in Client : c[2] \in Lanes
BY ClientIsPair

LEMMA InvInit == Init => Inv
<1> SUFFICES ASSUME Init PROVE Inv
  OBVIOUS
<1>1. queue \in [Lanes -> Seq(Client)]
  BY EmptySeq DEF Init
<1>2. TypeOK
  <2>1. client \in [Client -> ClientPc]
    BY DEF Init, ClientPc
  <2>2. server \in [Lanes -> ServerPc]
    BY DEF Init, ServerPc
  <2>3. peer \in [Lanes -> Client \cup {NoClient}]
    BY DEF Init
  <2>4. killed \subseteq Senders /\ faults \in 0..MaxFaults /\ fd \in Lanes \cup {-1}
    BY DEF Init
  <2> QED BY <1>1, <2>1, <2>2, <2>3, <2>4 DEF Init, TypeOK
<1>3. PeerOnceListening /\ Paired /\ GateAgrees
  BY DEF Init, PeerOnceListening, Paired, GateAgrees
<1> QED BY <1>2, <1>3 DEF Inv

\* A step of a client that moves only its program counter, and is paired
\* when it comes up.
LEMMA ClientMoves ==
    ASSUME Inv, NEW c \in Client, NEW from, NEW to \in ClientPc, MoveClient(c, from, to),
           to \in {"up", "meta"} => peer[c[2]] = c /\ SentAddress(c[2])
    PROVE  Inv'
<1>1. /\ client' = [client EXCEPT ![c] = to]
      /\ UNCHANGED <<sink, server, queue, peer, killed, sigpipe, meta, metaReady, fd, faults>>
  BY DEF MoveClient, state
<1>2. TypeOK'
  BY <1>1 DEF Inv, TypeOK
<1>3. PeerOnceListening' /\ GateAgrees'
  BY <1>1 DEF Inv, PeerOnceListening, GateAgrees, Incoming
<1>4. Paired'
  <2> SUFFICES ASSUME NEW d \in Client, client'[d] \in {"up", "meta"}
               PROVE  peer'[d[2]] = d /\ SentAddress(d[2])'
    BY DEF Paired
  <2>1. CASE d = c
    BY <1>1, <2>1 DEF Inv, TypeOK, SentAddress
  <2>2. CASE d # c
    BY <1>1, <2>2 DEF Inv, TypeOK, Paired, SentAddress
  <2> QED BY <2>1, <2>2
<1> QED BY <1>2, <1>3, <1>4 DEF Inv

LEMMA ClientThreadKeeps == ASSUME Inv, NEW c \in Client, ClientThread(c) PROVE Inv'
<1>1. CASE Connect(c)
  <2>1. /\ client[c] = "connect" /\ client' = [client EXCEPT ![c] = "connected"]
        /\ queue' = [queue EXCEPT ![c[2]] = Append(@, c)]
        /\ UNCHANGED <<sink, server, peer, killed, sigpipe, meta, metaReady, fd, faults>>
    BY <1>1 DEF Connect, state
  <2>2. TypeOK'
    <3>1. c[2] \in Lanes /\ queue[c[2]] \in Seq(Client)
      BY ClientLane DEF Inv, TypeOK
    <3>2. Append(queue[c[2]], c) \in Seq(Client)
      BY <3>1, AppendProperties
    <3>3. queue' \in [Lanes -> Seq(Client)]
      BY <2>1, <3>1, <3>2 DEF Inv, TypeOK
    <3>4. client' \in [Client -> ClientPc]
      BY <2>1 DEF Inv, TypeOK, ClientPc
    <3> QED BY <2>1, <3>3, <3>4 DEF Inv, TypeOK
  <2>3. PeerOnceListening' /\ GateAgrees'
    BY <2>1 DEF Inv, PeerOnceListening, GateAgrees, Incoming
  <2>4. Paired'
    BY <2>1 DEF Inv, TypeOK, Paired, SentAddress
  <2> QED BY <2>2, <2>3, <2>4 DEF Inv
<1>2. CASE Greet(c)
  BY <1>2, ClientMoves DEF Greet, ClientPc
<1>3. CASE ClientUp(c)
  BY <1>3, ClientMoves DEF ClientUp, ClientPc
<1>4. CASE ClientLost(c)
  BY <1>4, ClientMoves DEF ClientLost, ClientPc
<1>5. CASE SendMeta(c)
  <2>1. client[c] = "up"
    BY <1>5 DEF SendMeta, MoveClient
  <2>2. peer[c[2]] = c /\ SentAddress(c[2])
    BY <2>1 DEF Inv, Paired
  <2> QED BY <1>5, <2>2, ClientMoves DEF SendMeta, ClientPc
<1> QED BY <1>1, <1>2, <1>3, <1>4, <1>5 DEF ClientThread

\* A step of a lane that neither accepts nor passes the gate.
LEMMA ServerMoves ==
    ASSUME Inv, NEW l \in Lanes, NEW from, NEW to \in ServerPc, MoveServer(l, from, to),
           UNCHANGED <<queue, peer, sigpipe, state>>, faults' \in 0..MaxFaults,
           to # "passed",
           SentAddress(l) => to \in {"up", "refused"},
           to = "listen" => from = "start",
           to # "start",
           to = "up" => peer[l] \in Client
    PROVE  Inv'
<1>1. /\ server[l] = from /\ server' = [server EXCEPT ![l] = to]
      /\ UNCHANGED <<sink, client, queue, peer, killed, sigpipe, meta, metaReady, fd>>
  BY DEF MoveServer, state
<1>2. TypeOK'
  BY <1>1 DEF Inv, TypeOK
<1>3. PeerOnceListening'
  BY <1>1 DEF Inv, TypeOK, PeerOnceListening
<1>4. Paired'
  <2> SUFFICES ASSUME NEW d \in Client, client[d] \in {"up", "meta"}
               PROVE  peer[d[2]] = d /\ server'[d[2]] \in {"up", "passed", "refused"}
    BY <1>1 DEF Paired, SentAddress
  <2>1. peer[d[2]] = d /\ SentAddress(d[2]) /\ d[2] \in Lanes
    BY ClientLane DEF Inv, Paired
  <2>2. CASE d[2] = l
    BY <1>1, <2>1, <2>2 DEF Inv, TypeOK
  <2>3. CASE d[2] # l
    BY <1>1, <2>1, <2>3 DEF Inv, TypeOK, SentAddress
  <2> QED BY <2>1, <2>2, <2>3
<1>5. GateAgrees'
  BY <1>1 DEF Inv, TypeOK, GateAgrees, Incoming
<1> QED BY <1>2, <1>3, <1>4, <1>5 DEF Inv

LEMMA AcceptKeeps == ASSUME Inv, NEW l \in Lanes, Accept(l) PROVE Inv'
<1>1. /\ queue[l] # <<>> /\ server[l] = "listen"
      /\ server' = [server EXCEPT ![l] = "accepted"]
      /\ peer' = [peer EXCEPT ![l] = Head(queue[l])]
      /\ queue' = [queue EXCEPT ![l] = <<>>]
      /\ UNCHANGED <<sink, client, killed, sigpipe, meta, metaReady, fd, faults>>
  BY DEF Accept, MoveServer, ClosesSocket, state
<1>2. Head(queue[l]) \in Client /\ <<>> \in Seq(Client)
  BY <1>1, HeadTailProperties, EmptySeq DEF Inv, TypeOK
<1>3. peer[l] = NoClient
  BY <1>1 DEF Inv, PeerOnceListening
<1>4. TypeOK'
  <2>1. server' \in [Lanes -> ServerPc]
    BY <1>1 DEF Inv, TypeOK, ServerPc
  <2>2. queue' \in [Lanes -> Seq(Client)]
    BY <1>1, <1>2 DEF Inv, TypeOK
  <2> QED BY <1>1, <1>2, <2>1, <2>2 DEF Inv, TypeOK
<1>5. PeerOnceListening'
  BY <1>1 DEF Inv, TypeOK, PeerOnceListening
<1>6. Paired'
  <2> SUFFICES ASSUME NEW d \in Client, client[d] \in {"up", "meta"}
               PROVE  peer'[d[2]] = d /\ SentAddress(d[2])'
    BY <1>1 DEF Paired
  <2>1. peer[d[2]] = d /\ SentAddress(d[2]) /\ d[2] # l
    BY <1>3, ClientIsPair DEF Inv, Paired
  <2> QED BY <1>1, <2>1 DEF Inv, TypeOK, SentAddress
<1>7. GateAgrees'
  <2> SUFFICES ASSUME NEW k \in Lanes, server'[k] = "passed"
               PROVE  metaReady /\ MetaOf[peer'[k][1]] = meta
    BY <1>1 DEF GateAgrees, Incoming
  <2>1. k # l /\ server[k] = "passed"
    BY <1>1 DEF Inv, TypeOK
  <2> QED BY <1>1, <2>1 DEF Inv, TypeOK, GateAgrees, Incoming
<1> QED BY <1>4, <1>5, <1>6, <1>7 DEF Inv

\* A lane whose peer has sent metadata knows a sender's.
LEMMA IncomingIsMeta ==
    ASSUME Inv, NEW l \in Lanes, HasMeta(l)
    PROVE  peer[l] \in Client /\ Incoming(l) \in Meta
<1>1. peer[l] \in Client
  BY DEF HasMeta, PeerAt, Inv, TypeOK
<1> QED BY <1>1, ClientIsPair DEF Incoming

\* apply_meta, whatever becomes of it: a lane leaves "up", and the metadata
\* changes only before it is ready.
LEMMA GateKeeps ==
    ASSUME Inv, NEW l \in Lanes, HasMeta(l), server[l] = "up",
           NEW to \in {"passed", "refused"}, server' = [server EXCEPT ![l] = to],
           UNCHANGED <<sink, client, queue, peer, killed, sigpipe>>,
           meta' \in Meta \cup {NoMeta}, metaReady' \in BOOLEAN, fd' \in Lanes \cup {-1},
           faults' \in 0..MaxFaults,
           metaReady => UNCHANGED state,
           to = "passed" => metaReady' /\ meta' = Incoming(l)
    PROVE  Inv'
<1>1. TypeOK'
  <2>1. server' \in [Lanes -> ServerPc]
    BY DEF Inv, TypeOK, ServerPc
  <2> QED BY <2>1 DEF Inv, TypeOK
<1>2. PeerOnceListening'
  BY DEF Inv, TypeOK, PeerOnceListening
<1>3. Paired'
  <2> SUFFICES ASSUME NEW d \in Client, client[d] \in {"up", "meta"}
               PROVE  peer[d[2]] = d /\ server'[d[2]] \in {"up", "passed", "refused"}
    BY DEF Paired, SentAddress
  <2>1. peer[d[2]] = d /\ SentAddress(d[2]) /\ d[2] \in Lanes
    BY ClientLane DEF Inv, Paired
  <2> QED BY <2>1 DEF Inv, TypeOK, SentAddress
<1>4. GateAgrees'
  <2> SUFFICES ASSUME NEW k \in Lanes, server'[k] = "passed"
               PROVE  metaReady' /\ MetaOf[peer[k][1]] = meta'
    BY DEF GateAgrees, Incoming
  <2>1. CASE k = l
    BY <2>1 DEF Inv, TypeOK, Incoming
  <2>2. CASE k # l
    <3>1. server[k] = "passed"
      BY <2>2 DEF Inv, TypeOK
    <3>2. metaReady /\ MetaOf[peer[k][1]] = meta
      BY <3>1 DEF Inv, GateAgrees, Incoming
    <3> QED BY <3>2 DEF state
  <2> QED BY <2>1, <2>2
<1> QED BY <1>1, <1>2, <1>3, <1>4 DEF Inv

LEMMA ServerThreadKeeps == ASSUME Inv, NEW l \in Lanes, ServerThread(l) PROVE Inv'
<1>f. faults \in 0..MaxFaults
  BY DEF Inv, TypeOK
<1>1. CASE Listen(l)
  BY <1>1, <1>f, ServerMoves DEF Listen, MoveServer, SentAddress, ServerPc
<1>2. CASE Accept(l)
  BY <1>2, AcceptKeeps
<1>3. CASE ServerUp(l)
  <2>1. peer[l] \in Client
    BY <1>3 DEF ServerUp, PeerAt, Inv, TypeOK
  <2> QED BY <1>3, <1>f, <2>1, ServerMoves DEF ServerUp, MoveServer, SentAddress, ServerPc
<1>4. CASE ServerLost(l)
  BY <1>4, <1>f, ServerMoves DEF ServerLost, MoveServer, SentAddress, ServerPc
<1>5. CASE ServerPiped(l)
  <2>1. sigpipe' = TRUE
        /\ UNCHANGED <<sink, client, server, queue, peer, killed, meta, metaReady, fd, faults>>
    BY <1>5 DEF ServerPiped, state
  <2> QED BY <2>1 DEF Inv, TypeOK, PeerOnceListening, Paired, SentAddress, GateAgrees,
                      Incoming
<1>6. CASE FirstMeta(l)
  <2>1. /\ HasMeta(l) /\ ~metaReady /\ server[l] = "up"
        /\ server' = [server EXCEPT ![l] = "passed"]
        /\ meta' = Incoming(l) /\ fd' = Opened(l) /\ metaReady' = TRUE
        /\ UNCHANGED <<sink, client, queue, peer, killed, sigpipe, faults>>
    BY <1>6 DEF FirstMeta, MoveServer, Ready
  <2>2. meta' \in Meta /\ fd' \in Lanes \cup {-1}
    BY <2>1, IncomingIsMeta DEF Opened
  <2> QED BY <1>f, <2>1, <2>2, GateKeeps
<1>7. CASE NextMeta(l)
  <2> DEFINE to == IF Matches(Incoming(l)) THEN "passed" ELSE "refused"
  <2>1. /\ HasMeta(l) /\ metaReady /\ server[l] = "up"
        /\ server' = [server EXCEPT ![l] = to]
        /\ UNCHANGED <<sink, client, queue, peer, killed, sigpipe, state, faults>>
    BY <1>7 DEF NextMeta, MoveServer
  <2>2. /\ to \in {"passed", "refused"}
        /\ to = "passed" => Incoming(l) = meta
    BY DEF Matches
  <2> HIDE DEF to
  <2>3. meta' = meta /\ metaReady' = metaReady /\ fd' = fd /\ faults' = faults
    BY <2>1 DEF state
  <2>4. meta' \in Meta \cup {NoMeta} /\ metaReady' \in BOOLEAN /\ fd' \in Lanes \cup {-1}
    BY <2>3 DEF Inv, TypeOK
  <2> QED BY <1>f, <2>1, <2>2, <2>3, <2>4, GateKeeps
<1> QED BY <1>1, <1>2, <1>3, <1>4, <1>5, <1>6, <1>7 DEF ServerThread

LEMMA FaultyKeeps == ASSUME Inv, Faulty PROVE Inv'
<1>f. Fault => faults' \in 0..MaxFaults
  BY DEF Fault, Inv, TypeOK
<1>1. ASSUME NEW s \in Senders, Kill(s) PROVE Inv'
  <2>1. /\ killed' = killed \cup {s} /\ faults' \in 0..MaxFaults
        /\ UNCHANGED <<sink, client, server, queue, peer, sigpipe, meta, metaReady, fd>>
    BY <1>1, <1>f DEF Kill, state
  <2> QED BY <2>1 DEF Inv, TypeOK, PeerOnceListening, Paired, SentAddress, GateAgrees,
                      Incoming
<1>2. ASSUME NEW l \in Lanes, ListenFails(l) PROVE Inv'
  BY <1>2, <1>f, ServerMoves DEF ListenFails, MoveServer, SentAddress, ServerPc
<1>3. ASSUME NEW l \in Lanes, FirstMetaFails(l) PROVE Inv'
  <2>1. /\ HasMeta(l) /\ ~metaReady /\ server[l] = "up"
        /\ server' = [server EXCEPT ![l] = "refused"]
        /\ meta' = Incoming(l) /\ fd' \in {l, -1} /\ metaReady' = metaReady
        /\ faults' \in 0..MaxFaults
        /\ UNCHANGED <<sink, client, queue, peer, killed, sigpipe>>
    BY <1>3, <1>f DEF FirstMetaFails, MoveServer
  <2>2. meta' \in Meta /\ metaReady' \in BOOLEAN
    BY <2>1, IncomingIsMeta DEF Inv, TypeOK
  <2> QED BY <2>1, <2>2, GateKeeps
<1> QED BY <1>1, <1>2, <1>3 DEF Faulty

LEMMA InvNext == Inv /\ [Next]_vars => Inv'
<1> SUFFICES ASSUME Inv, [Next]_vars PROVE Inv'
  OBVIOUS
<1>1. CASE UNCHANGED vars
  <2>1. UNCHANGED <<sink, client, server, queue, peer, killed, sigpipe, meta, metaReady,
                    fd, faults>>
    BY <1>1 DEF vars, state
  <2> QED BY <2>1 DEF Inv, TypeOK, PeerOnceListening, Paired, SentAddress, GateAgrees,
                      Incoming
<1> QED BY <1>1, ClientThreadKeeps, ServerThreadKeeps, FaultyKeeps DEF Next

LEMMA Invariance == Spec => []Inv
BY InvInit, InvNext, PTL DEF Spec
----------------------------------------------------------------------------

\* Every variable stays in its type.
THEOREM TypeCorrect == Spec => []TypeOK
<1>1. Inv => TypeOK
  BY DEF Inv
<1> QED BY Invariance, <1>1, PTL

\* A lane of a sender that is up has a lane of the receiver to itself.
THEOREM LanesPaired == Spec => []Paired
<1>1. Inv => Paired
  BY DEF Inv
<1> QED BY Invariance, <1>1, PTL

\* All lanes that receive agree on the metadata.
THEOREM LanesAgree == Spec => []GateAgrees
<1>1. Inv => GateAgrees
  BY DEF Inv
<1> QED BY Invariance, <1>1, PTL

\* Once one of them does, the metadata and the file stay.
THEOREM GateIsShut == Spec => GateStaysShut
<1>1. Inv /\ [Next]_vars
      => [(\E l \in Lanes : server[l] = "passed") => UNCHANGED state]_vars
  <2> SUFFICES ASSUME Inv, [Next]_vars, NEW k \in Lanes, server[k] = "passed"
               PROVE  UNCHANGED state
    OBVIOUS
  <2>1. metaReady
    BY DEF Inv, GateAgrees
  <2>2. ASSUME NEW c \in Client, ClientThread(c) PROVE UNCHANGED state
    BY <2>2 DEF ClientThread, Connect, Greet, ClientUp, ClientLost, SendMeta, MoveClient
  <2>3. ASSUME NEW l \in Lanes, ServerThread(l) PROVE UNCHANGED state
    BY <2>1, <2>3 DEF ServerThread, Listen, Accept, ServerUp, ServerLost, ServerPiped,
                      FirstMeta, NextMeta
  <2>4. CASE Faulty
    BY <2>1, <2>4 DEF Faulty, Kill, ListenFails, FirstMetaFails
  <2> QED BY <2>2, <2>3, <2>4 DEF Next, vars, state
<1> QED BY Invariance, <1>1, PTL DEF Spec, GateStaysShut
----------------------------------------------------------------------------
(* What success means when lanes meet several attempts (Attempts).  The    *)
(* receiver only adds numbers: their sum is the number of different chunks *)
(* as long as no chunk has come to two of the lanes (Apart), and larger    *)
(* from the first that has.  A sender alone deals no chunk to two lanes    *)
(* (ChunkAssignmentProofs); of two senders nothing is known.               *)

\* The chunks that the lanes which have finished were dealt.
Landed == UNION {AssignOf[peer[l]] : l \in finished}

\* No chunk belongs to two of these lanes.
Apart(S) == \A l, k \in S : l # k => AssignOf[peer[l]] \cap AssignOf[peer[k]] = {}

OutcomeInv ==
    /\ finished \subseteq Lanes
    /\ \A l \in finished : server[l] = "passed"
    /\ written = {meta} \X Landed
    /\ received \in Nat
    /\ IF Apart(finished) THEN received = Cardinality(Landed) ELSE received > Cardinality(Landed)
    /\ rexit = "0" => finished = Lanes /\ received = Cardinality(Chunks)

\* Who waits at a lane, or has been accepted by it, is a thread for that lane.
AtItsLane ==
    /\ \A l \in Lanes : \A i \in 1..Len(queue[l]) : queue[l][i][2] = l
    /\ \A l \in Lanes : peer[l] # NoClient => peer[l][2] = l

AttemptsInv == Inv /\ AtItsLane /\ OutcomeInv

LEMMA AtItsLaneStays == ASSUME Inv, AtItsLane, [Next]_vars PROVE AtItsLane'
<1>1. CASE UNCHANGED <<queue, peer>>
  BY <1>1 DEF AtItsLane
<1>2. ASSUME NEW c \in Client, Connect(c) PROVE AtItsLane'
  <2>1. c[2] \in Lanes /\ queue[c[2]] \in Seq(Client)
    BY ClientLane DEF Inv, TypeOK
  <2>2. /\ queue' = [queue EXCEPT ![c[2]] = Append(queue[c[2]], c)]
        /\ peer' = peer
    BY <1>2 DEF Connect
  <2>3. /\ Len(Append(queue[c[2]], c)) = Len(queue[c[2]]) + 1
        /\ \A i \in 1..Len(queue[c[2]]) : Append(queue[c[2]], c)[i] = queue[c[2]][i]
        /\ Append(queue[c[2]], c)[Len(queue[c[2]]) + 1] = c
    BY <2>1, AppendProperties
  <2>4. Len(queue[c[2]]) \in Nat
    BY <2>1, LenProperties
  <2>5. \A i \in 1..Len(Append(queue[c[2]], c)) : Append(queue[c[2]], c)[i][2] = c[2]
    BY <2>1, <2>3, <2>4 DEF AtItsLane
  <2>6. ASSUME NEW l \in Lanes, NEW i \in 1..Len(queue'[l]) PROVE queue'[l][i][2] = l
    <3>1. CASE l = c[2]
      <4>1. queue'[l] = Append(queue[c[2]], c)
        BY <2>1, <2>2, <3>1 DEF Inv, TypeOK
      <4> QED BY <2>5, <3>1, <4>1
    <3>2. CASE l # c[2]
      <4>1. queue'[l] = queue[l]
        BY <2>1, <2>2, <3>2 DEF Inv, TypeOK
      <4> QED BY <4>1 DEF AtItsLane
    <3> QED BY <3>1, <3>2
  <2> QED BY <2>2, <2>6 DEF AtItsLane
<1>3. ASSUME NEW k \in Lanes, Accept(k) PROVE AtItsLane'
  <2>1. /\ queue[k] # <<>> /\ queue[k] \in Seq(Client)
        /\ peer' = [peer EXCEPT ![k] = Head(queue[k])]
        /\ queue' = [queue EXCEPT ![k] = <<>>]
    BY <1>3 DEF Accept, ClosesSocket, Inv, TypeOK
  <2>2. Head(queue[k]) = queue[k][1] /\ 1 \in 1..Len(queue[k])
    BY <2>1, LenProperties, EmptySeq
  <2>3. Head(queue[k])[2] = k
    BY <2>2 DEF AtItsLane
  <2> QED BY <2>1, <2>3 DEF AtItsLane, Inv, TypeOK
<1>4. CASE \E c \in Client : ClientThread(c)
  BY <1>1, <1>2, <1>4 DEF ClientThread, Greet, ClientUp, ClientLost, SendMeta, MoveClient
<1>5. CASE \E l \in Lanes : ServerThread(l)
  BY <1>1, <1>3, <1>5 DEF ServerThread, Listen, ServerUp, ServerLost, ServerPiped, FirstMeta,
                          NextMeta
<1>6. CASE Faulty
  BY <1>1, <1>6 DEF Faulty, Kill, ListenFails, FirstMetaFails
<1> QED BY <1>1, <1>4, <1>5, <1>6 DEF Next, vars

\* A lane that has passed the gate keeps its peer, and the metadata stay.
LEMMA PassedStays ==
    ASSUME Inv, [Next]_vars, NEW l \in Lanes, server[l] = "passed"
    PROVE  server'[l] = "passed" /\ peer'[l] = peer[l] /\ meta' = meta
<1>1. ASSUME NEW c \in Client, ClientThread(c) PROVE UNCHANGED <<server, peer, meta>>
  BY <1>1 DEF ClientThread, Connect, Greet, ClientUp, ClientLost, SendMeta, MoveClient, state
<1>2. ASSUME NEW k \in Lanes, ServerThread(k) PROVE server'[l] = "passed" /\ peer'[l] = peer[l]
  BY <1>2 DEF ServerThread, Listen, Accept, ServerUp, ServerLost, ServerPiped, FirstMeta,
              NextMeta, MoveServer, Inv, TypeOK
<1>3. ASSUME NEW k \in Lanes, ServerThread(k) PROVE meta' = meta
  <2>1. metaReady
    BY DEF Inv, GateAgrees
  <2> QED BY <1>3, <2>1 DEF ServerThread, Listen, Accept, ServerUp, ServerLost, ServerPiped,
                            FirstMeta, NextMeta, state
<1>4. ASSUME Faulty PROVE server'[l] = "passed" /\ peer'[l] = peer[l] /\ meta' = meta
  <2>1. metaReady
    BY DEF Inv, GateAgrees
  <2> QED BY <1>4, <2>1 DEF Faulty, Kill, ListenFails, FirstMetaFails, MoveServer, state,
                            Inv, TypeOK
<1> QED BY <1>1, <1>2, <1>3, <1>4 DEF Next, vars, state

\* Session goes on while the outcome is what it was.
LEMMA OutcomeStays ==
    ASSUME Inv, OutcomeInv, [Next]_vars, UNCHANGED outcome
    PROVE  OutcomeInv'
<1>1. \A l \in finished : server'[l] = "passed" /\ peer'[l] = peer[l] /\ meta' = meta
  BY PassedStays DEF OutcomeInv
<1>2. UNCHANGED <<finished, written, received, rexit>>
  BY DEF outcome
<1>3. Landed' = Landed
  BY <1>1, <1>2 DEF Landed
<1>5. Apart(finished)' <=> Apart(finished)
  BY <1>1, <1>2 DEF Apart
<1>4. written' = {meta'} \X Landed'
  <2>1. CASE finished = {}
    <3>1. Landed = {} /\ Landed' = {}
      BY <1>3, <2>1 DEF Landed
    <3> QED BY <1>2, <3>1 DEF OutcomeInv
  <2>2. CASE finished # {}
    BY <1>1, <1>2, <1>3, <2>2 DEF OutcomeInv
  <2> QED BY <2>1, <2>2
<1> QED BY <1>1, <1>2, <1>3, <1>4, <1>5 DEF OutcomeInv

\* Together two sets have as many elements as both if they are disjoint, and
\* fewer otherwise.
LEMMA TogetherAsMany ==
    ASSUME NEW S, NEW T, IsFiniteSet(S), IsFiniteSet(T)
    PROVE  /\ Cardinality(S) \in Nat /\ Cardinality(T) \in Nat /\ Cardinality(S \cup T) \in Nat
           /\ T \cap S = {} => Cardinality(S \cup T) = Cardinality(S) + Cardinality(T)
           /\ T \cap S # {} => Cardinality(S \cup T) < Cardinality(S) + Cardinality(T)
<1>1. Cardinality(S \cup T) = Cardinality(S) + Cardinality(T) - Cardinality(S \cap T)
  BY FS_Union
<1>2. IsFiniteSet(S \cap T) /\ IsFiniteSet(S \cup T)
  <2>1. S \cap T \subseteq S
    OBVIOUS
  <2> QED BY <2>1, FS_Subset, FS_Union
<1>3. Cardinality(S) \in Nat /\ Cardinality(T) \in Nat /\ Cardinality(S \cap T) \in Nat
      /\ Cardinality(S \cup T) \in Nat
  BY <1>2, FS_CardinalityType
<1>4. Cardinality(S \cap T) = 0 <=> T \cap S = {}
  <2>1. T \cap S = S \cap T
    OBVIOUS
  <2> QED BY <1>2, <2>1, FS_EmptySet
<1> QED BY <1>1, <1>3, <1>4

\* The lanes of the receiver that a sender has come to have chunks of their
\* own.
LEMMA OwnLanesApart ==
    ASSUME NEW l \in Lanes, NEW k \in Lanes, l # k, AtItsLane,
           peer[l] \in Client, peer[k] \in Client, peer[l][1] = peer[k][1]
    PROVE  AssignOf[peer[l]] \cap AssignOf[peer[k]] = {}
<1>1. peer[l][2] = l /\ peer[k][2] = k
  BY ClientIsPair DEF AtItsLane
<1>2. peer[l] # peer[k]
  BY <1>1
<1> QED BY <1>2, AssignOfAssumption

\* What the lane adds has come by no other, or one chunk of it has.
LEMMA LaneAdds ==
    ASSUME Inv, OutcomeInv, NEW l \in Lanes, ReceiveLane(l)
    PROVE  OutcomeInv'
<1> DEFINE mine == AssignOf[peer[l]]
<1>1. /\ server[l] = "passed" /\ l \notin finished
      /\ finished' = finished \cup {l}
      /\ written' = written \cup ({Incoming(l)} \X mine)
      /\ received' = received + Cardinality(mine)
      /\ UNCHANGED <<server, peer, meta, rexit>>
  BY DEF ReceiveLane, vars, state
<1>2. \A k \in finished \cup {l} : peer[k] \in Client /\ MetaOf[peer[k][1]] = meta
  <2>1. \A k \in finished \cup {l} : k \in Lanes /\ server[k] = "passed"
    BY <1>1 DEF OutcomeInv
  <2> QED BY <2>1 DEF Inv, PeerOnceListening, GateAgrees, Incoming
<1>3. Apart(finished)' <=> Apart(finished) /\ mine \cap Landed = {}
  <2>1. mine \cap Landed = {} <=> \A k \in finished : mine \cap AssignOf[peer[k]] = {}
    BY DEF Landed
  <2>2. Apart(finished)' <=>
           \A j, k \in finished \cup {l} :
               j # k => AssignOf[peer[j]] \cap AssignOf[peer[k]] = {}
    BY <1>1 DEF Apart
  <2> QED BY <1>1, <2>1, <2>2 DEF Apart
<1>4. IsFiniteSet(mine) /\ IsFiniteSet(Landed)
  <2>1. mine \subseteq Chunks /\ Landed \subseteq Chunks
    BY <1>2, AssignOfAssumption DEF Landed
  <2> QED BY <2>1, ChunksAssumption, FS_Subset
<1>5. Landed' = Landed \cup mine
  BY <1>1 DEF Landed
<1>6. /\ received' \in Nat
      /\ IF Apart(finished)' THEN received' = Cardinality(Landed')
                             ELSE received' > Cardinality(Landed')
  <2> DEFINE n == Cardinality(Landed)
             m == Cardinality(mine)
             both == Cardinality(Landed \cup mine)
  <2>1. /\ n \in Nat /\ m \in Nat /\ both \in Nat
        /\ mine \cap Landed = {} => both = n + m
        /\ mine \cap Landed # {} => both < n + m
    BY <1>4, TogetherAsMany
  <2>2. /\ received \in Nat /\ received' = received + m /\ Cardinality(Landed') = both
        /\ IF Apart(finished) THEN received = n ELSE received > n
    BY <1>1, <1>5 DEF OutcomeInv
  <2> HIDE DEF n, m, both, mine
  <2>3. both <= n + m
    BY <2>1
  <2>4. CASE Apart(finished)'
    BY <1>3, <2>1, <2>2, <2>4
  <2>5. CASE ~Apart(finished)'
    <3>1. received > n \/ (received = n /\ both < n + m)
      BY <1>3, <2>1, <2>2, <2>5
    <3> QED BY <2>1, <2>2, <2>3, <2>5, <3>1
  <2> QED BY <2>4, <2>5
<1>7. written' = {meta'} \X Landed'
  <2>1. Incoming(l) = meta
    BY <1>2 DEF Incoming
  <2> HIDE DEF mine
  <2> QED BY <1>1, <1>5, <2>1 DEF OutcomeInv
<1>8. rexit # "0"
  BY <1>1 DEF OutcomeInv
<1> QED BY <1>1, <1>6, <1>7, <1>8 DEF OutcomeInv

\* The verdict: no lane has failed, all have finished, the numbers agree.
LEMMA VerdictKeeps == ASSUME OutcomeInv, ReceiverExit PROVE OutcomeInv'
<1>1. UNCHANGED <<server, peer, meta, finished, written, received>>
  BY DEF ReceiverExit, vars, state
<1>2. rexit' = "0" => finished = Lanes /\ received = Cardinality(Chunks)
  <2>1. finished \subseteq Lanes /\ \A l \in Lanes : l \in finished \/ LaneFailed(l)
    BY DEF ReceiverExit, OutcomeInv
  <2>2. CASE \E l \in Lanes : LaneFailed(l)
    <3>1. finished # Lanes
      BY <2>2 DEF LaneFailed, OutcomeInv
    <3>2. rexit' = "2"
      BY <2>2, <3>1 DEF ReceiverExit
    <3> QED BY <3>2
  <2>3. CASE ~\E l \in Lanes : LaneFailed(l)
    <3>1. finished = Lanes
      BY <2>1, <2>3
    <3>2. received # Cardinality(Chunks) => rexit' = "1"
      BY <2>3, <3>1 DEF ReceiverExit
    <3> QED BY <3>1, <3>2
  <2> QED BY <2>2, <2>3
<1> QED BY <1>1, <1>2 DEF OutcomeInv, Landed, Apart

\* The outcome has no say in how lanes come up.
LEMMA SessionSteps == [AttemptsNext]_<<vars, outcome>> => [Next]_vars
BY DEF AttemptsNext, ReceiveLane, ReceiverExit

LEMMA AttemptsInvInit == AttemptsInit => AttemptsInv
<1> SUFFICES ASSUME AttemptsInit PROVE AttemptsInv
  OBVIOUS
<1>1. Inv
  BY InvInit DEF AttemptsInit
<1>2. AtItsLane
  BY DEF AttemptsInit, Init, AtItsLane
<1>3. Landed = {} /\ Cardinality(Landed) = 0
  BY FS_EmptySet DEF AttemptsInit, Landed
<1> QED BY <1>1, <1>2, <1>3 DEF AttemptsInit, AttemptsInv, OutcomeInv, Apart

LEMMA AttemptsInvNext ==
    ASSUME AttemptsInv, [AttemptsNext]_<<vars, outcome>>
    PROVE  AttemptsInv'
<1>1. [Next]_vars
  BY SessionSteps
<1>2. Inv' /\ AtItsLane'
  BY <1>1, InvNext, AtItsLaneStays DEF AttemptsInv
<1>3. OutcomeInv'
  <2>1. CASE UNCHANGED outcome
    BY <1>1, <2>1, OutcomeStays DEF AttemptsInv
  <2>2. CASE \E l \in Lanes : ReceiveLane(l)
    BY <2>2, LaneAdds DEF AttemptsInv
  <2>3. CASE ReceiverExit
    BY <2>3, VerdictKeeps DEF AttemptsInv
  <2> QED BY <2>1, <2>2, <2>3 DEF AttemptsNext
<1> QED BY <1>2, <1>3 DEF AttemptsInv

LEMMA AttemptsInvariance == AttemptsSpec => []AttemptsInv
<1>1. AttemptsInv /\ [AttemptsNext]_<<vars, outcome>> => AttemptsInv'
  BY AttemptsInvNext
<1> QED BY <1>1, AttemptsInvInit, PTL DEF AttemptsSpec

\* Whichever attempts the lanes have met, success means chunks of one attempt's
\* file only; and all of them exactly if no two of the lanes have brought the
\* same chunk, so always if all lanes have met one sender.
THEOREM SuccessIsWhole == AttemptsSpec => []OkMeansComplete
<1>1. AttemptsInv => OkMeansComplete
  <2> SUFFICES ASSUME AttemptsInv, rexit = "0"
               PROVE  /\ written \subseteq {meta} \X Chunks
                      /\ written = {meta} \X Chunks <=> ~Overlapping
    BY DEF OkMeansComplete
  <2>1. \A l \in Lanes : peer[l] \in Client
    BY DEF AttemptsInv, OutcomeInv, Inv, PeerOnceListening
  <2>2. finished = Lanes /\ written = {meta} \X Landed /\ Landed \subseteq Chunks
    BY <2>1, AssignOfAssumption DEF Landed, AttemptsInv, OutcomeInv
  <2>3. ~Overlapping <=> Apart(Lanes)
    <3>1. ASSUME Apart(Lanes), NEW l \in Lanes, NEW k \in Lanes, peer[l][1] # peer[k][1]
          PROVE  AssignOf[peer[l]] \cap AssignOf[peer[k]] = {}
      BY <3>1 DEF Apart
    <3>2. ASSUME ~Overlapping, NEW l \in Lanes, NEW k \in Lanes, l # k
          PROVE  AssignOf[peer[l]] \cap AssignOf[peer[k]] = {}
      BY <2>1, <3>2, OwnLanesApart DEF Overlapping, AttemptsInv
    <3> QED BY <3>1, <3>2 DEF Overlapping, Apart
  <2>4. IF Apart(Lanes) THEN Cardinality(Landed) = Cardinality(Chunks)
                        ELSE Cardinality(Landed) < Cardinality(Chunks)
    BY <2>2 DEF AttemptsInv, OutcomeInv
  <2>5. Cardinality(Landed) = Cardinality(Chunks) => Landed = Chunks
    BY <2>2, ChunksAssumption, FS_Subset
  <2>6. Cardinality(Chunks) \in Nat
    BY ChunksAssumption, FS_CardinalityType
  <2>7. Landed = Chunks <=> Apart(Lanes)
    BY <2>4, <2>5, <2>6
  <2>8. {meta} \X Landed = {meta} \X Chunks => Landed = Chunks
    <3> SUFFICES ASSUME {meta} \X Landed = {meta} \X Chunks, NEW c \in Chunks
                 PROVE  c \in Landed
      BY <2>2
    <3>1. <<meta, c>> \in {meta} \X Landed
      OBVIOUS
    <3> QED BY <3>1
  <2> QED BY <2>2, <2>3, <2>7, <2>8
<1> QED BY <1>1, AttemptsInvariance, PTL
=============================================================================
