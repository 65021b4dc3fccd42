---------------------------- MODULE ClientProofs ----------------------------
(***************************************************************************)
(* connect(), for every path MTU and any number of stale and duplicated    *)
(* packets.                                                                *)
(***************************************************************************)
EXTENDS Client, FiniteSetTheorems, TLAPS

\* What a packet, in flight or answered, promises of the path.
PacketFits(p) ==
    /\ p.type = "request1" => p.mtu + IpUdpHeaders =< path
    /\ p.type \in {"request2", "reply1", "reply2"} => LargestDatagram(p.mtu) =< path

FitInv ==
    /\ \A p \in InFlight : PacketFits(p)
    /\ DatagramsFitPath

\* One packet is under way: the request, or its reply.
UnderWay(request, reply) ==
    \/ /\ \E p \in toServer : toServer = {p} /\ p.type = request
       /\ buffered = {} /\ toClient = {} /\ session.state = "none"
    \/ /\ \E p \in buffered : buffered = {p} /\ p.type = request
       /\ toServer = {} /\ toClient = {} /\ session.state = "none"
    \/ /\ \E p \in toClient : toClient = {p} /\ p.type = reply
       /\ toServer = {} /\ buffered = {}
       /\ session.state = "none" \/ reply = "reply2"

\* Nothing has gone wrong, and nothing speaks against a connection.
Favourable == ~disturbed /\ compatible /\ path >= 576 + IpUdpHeaders

\* In a first attempt that nothing disturbs, the next answer is under way, or
\* the path has dropped a probe that was too large for it.
Undisturbed ==
    Favourable =>
      \/ phase = "idle" /\ InFlight = {} /\ session.state = "none"
      \/ phase = "pong" /\ UnderWay("ping", "pong")
      \/ /\ phase = "mtu" /\ probe \in 1 .. 3
         /\ \/ UnderWay("request1", "reply1")
            \/ /\ InFlight = {} /\ session.state = "none"
               /\ probe_sizes[probe] + IpUdpHeaders > path
      \/ phase = "reply2" /\ UnderWay("request2", "reply2")
      \/ phase \in {"handshake", "connected", "refused"} /\ InFlight = {}

ClientInv == TypeOK /\ FitInv /\ Undisturbed

-----------------------------------------------------------------------------
(***************************************************************************)
(* The sizes and the packets.                                              *)
(***************************************************************************)

\* The three probes that discover_mtu sends.
LEMMA ProbeSizes ==
    /\ Len(probe_sizes) = 3
    /\ probe_sizes[1] = 1492 /\ probe_sizes[2] = 1200 /\ probe_sizes[3] = 576
BY DEF probe_sizes

\* What the server makes of them.
LEMMA OfferedMtus ==
    /\ OfferedMtu(1492) = 1500 /\ OfferedMtu(1200) = 1228 /\ OfferedMtu(576) = 604
    /\ Mtus = {604, 1228, 1500}
<1>1. OfferedMtu(1492) = 1500 /\ OfferedMtu(1200) = 1228 /\ OfferedMtu(576) = 604
  BY DEF OfferedMtu, clamp, IpUdpHeaders
<1>2. Mtus = {OfferedMtu(1492), OfferedMtu(1200), OfferedMtu(576)}
  <2> HIDE DEF OfferedMtu
  <2>1. 1 .. Len(probe_sizes) = {1, 2, 3}
    BY ProbeSizes
  <2> QED
    BY <2>1, ProbeSizes DEF Mtus
<1> QED
  BY <1>1, <1>2

\* The clamp of the second request leaves them alone, and a stream's datagrams
\* are 18 bytes smaller than its MTU.
LEMMA MtuFacts ==
    ASSUME NEW m \in Mtus
    PROVE  m \in Int /\ clamp(m) = m /\ LargestDatagram(m) = m - 18
<1>1. m \in {604, 1228, 1500}
  BY OfferedMtus
<1>2. header_size(ReliableOrdered) = 10
  BY DEF header_size, is_reliable, is_sequenced, is_ordered, ReliableOrdered, Reliable,
         ReliableSequenced, UnreliableSequenced
<1> QED
  BY <1>1, <1>2 DEF clamp, LargestDatagram, max_single_frame_size, chunk_size, IpUdpHeaders

\* The packets that go to the server.
LEMMA ServerPackets ==
    /\ \A p \in ToServerPackets :
          /\ p.type \in {"ping", "request1", "request2"}
          /\ p.type = "request1" => p.mtu \in {1492, 1200, 576}
          /\ p.type = "request2" => p.mtu \in Mtus
    /\ Packet("ping", 0) \in ToServerPackets
    /\ \A n \in 1 .. 3 : Packet("request1", probe_sizes[n]) \in ToServerPackets
    /\ \A m \in Mtus : Packet("request2", m) \in ToServerPackets
<1>1. \A n \in 1 .. Len(probe_sizes) : probe_sizes[n] \in {1492, 1200, 576}
  BY ProbeSizes
<1>2. ASSUME NEW p \in ToServerPackets
      PROVE  /\ p.type \in {"ping", "request1", "request2"}
             /\ p.type = "request1" => p.mtu \in {1492, 1200, 576}
             /\ p.type = "request2" => p.mtu \in Mtus
  <2>1. \/ p = Packet("ping", 0)
        \/ \E m \in Mtus : p = Packet("request2", m)
        \/ \E n \in 1 .. Len(probe_sizes) : p = Packet("request1", probe_sizes[n])
    BY DEF ToServerPackets
  <2> QED
    BY <1>1, <2>1 DEF Packet
<1>3. Packet("ping", 0) \in ToServerPackets
  BY DEF ToServerPackets
<1>4. \A n \in 1 .. 3 : Packet("request1", probe_sizes[n]) \in ToServerPackets
  BY ProbeSizes DEF ToServerPackets
<1>5. \A m \in Mtus : Packet("request2", m) \in ToServerPackets
  BY DEF ToServerPackets
<1> QED
  BY <1>2, <1>3, <1>4, <1>5

\* The packets that come back.
LEMMA ClientPackets ==
    /\ \A p \in ToClientPackets :
          p.type \in {"reply1", "reply2"} => p.mtu \in Mtus
    /\ \A t \in {"pong", "incompatible", "already"} : Packet(t, 0) \in ToClientPackets
    /\ \A m \in Mtus : /\ Packet("reply1", m) \in ToClientPackets
                       /\ Packet("reply2", m) \in ToClientPackets
<1>1. ASSUME NEW p \in ToClientPackets, p.type \in {"reply1", "reply2"}
      PROVE  p.mtu \in Mtus
  <2>1. \/ \E t \in {"pong", "incompatible", "already"} : p = Packet(t, 0)
        \/ \E t \in {"reply1", "reply2"}, m \in Mtus : p = Packet(t, m)
    BY DEF ToClientPackets
  <2> QED
    BY <1>1, <2>1 DEF Packet
<1>2. \A t \in {"pong", "incompatible", "already"} : Packet(t, 0) \in ToClientPackets
  BY DEF ToClientPackets
<1>3. \A t \in {"reply1", "reply2"}, m \in Mtus : Packet(t, m) \in ToClientPackets
  BY DEF ToClientPackets
<1> QED
  BY <1>1, <1>2, <1>3

\* Their fields.
LEMMA PacketFields ==
    ASSUME NEW t, NEW m
    PROVE  Packet(t, m).type = t /\ Packet(t, m).mtu = m
BY DEF Packet

-----------------------------------------------------------------------------
(***************************************************************************)
(* Types.                                                                  *)
(***************************************************************************)

\* The initial states.
LEMMA ClientInit == Init => ClientInv
<1> SUFFICES ASSUME Init PROVE ClientInv
  OBVIOUS
<1>1. TypeOK
  <2>1. calm \in BOOLEAN /\ disturbed \in BOOLEAN
    BY ClientAssumption, Zenon DEF Init
  <2>2. session \in [state : {"none", "open", "expired"}, mtu : Mtus \cup {0}]
    BY DEF Init, NoSession
  <2> QED
    BY <2>1, <2>2, ClientAssumption, ProbeSizes DEF Init, TypeOK
<1>2. FitInv
  BY DEF Init, FitInv, InFlight, DatagramsFitPath, NoSession
<1>3. Undisturbed
  BY DEF Init, Undisturbed, InFlight, NoSession
<1> QED
  BY <1>1, <1>2, <1>3 DEF ClientInv

\* connect() handles a packet or a time-out.
LEMMA ClientTypeStep ==
    ASSUME TypeOK,
           \/ Connect \/ Handshake \/ PongTimeout \/ ProbeTimeout \/ Reply2Timeout \/ LocalError
           \/ \E p \in toClient : ReceivePong(p) \/ ReceiveReply1(p) \/ ReceiveReply2(p)
    PROVE  TypeOK'
<1>1. /\ path' = path /\ compatible' = compatible /\ buffered' = buffered /\ session' = session
      /\ calm' = calm
  BY DEF Connect, Handshake, PongTimeout, ProbeTimeout, Reply2Timeout, LocalError, TimeUp,
         ReceivePong, ReceiveReply1, ReceiveReply2, case, server
<1>2. toClient' \subseteq toClient
  BY DEF Connect, Handshake, PongTimeout, ProbeTimeout, Reply2Timeout, LocalError, TimeUp,
         ReceivePong, ReceiveReply1, ReceiveReply2, ClientTakes, Copied
<1>3. copies' \in 0 .. MaxCopies
  BY ClientAssumption
  DEF TypeOK, Connect, Handshake, PongTimeout, ProbeTimeout, Reply2Timeout, LocalError, TimeUp,
      ReceivePong, ReceiveReply1, ReceiveReply2, ClientTakes, Copied
<1>4. disturbed' \in BOOLEAN
  <2>1. disturbed' = disturbed \/ disturbed' = TRUE \/ disturbed' = (disturbed \/ InFlight # {})
    BY Zenon
    DEF Connect, Handshake, PongTimeout, ProbeTimeout, Reply2Timeout, LocalError, TimeUp,
        ReceivePong, ReceiveReply1, ReceiveReply2, ClientTakes, Copied
  <2> QED
    BY <2>1, Zenon DEF TypeOK
<1>5. ASSUME NEW q \in ToServerPackets, SendToServer(q)
      PROVE  toServer' \subseteq ToServerPackets
  BY <1>5 DEF SendToServer, TypeOK
<1>6. ASSUME NEW n \in 1 .. 3, SendProbe(n)
      PROVE  toServer' \subseteq ToServerPackets /\ probe' \in 0 .. 3
  BY <1>5, <1>6, ServerPackets DEF SendProbe
<1>7. /\ toServer' \subseteq ToServerPackets /\ probe' \in 0 .. 3 /\ mtu' \in Mtus \cup {0}
      /\ phase' \in {"idle", "pong", "mtu", "reply2", "handshake", "connected", "refused"}
      /\ stream' \in {"none", "Connecting", "Connected"}
  <2>1. /\ probe \in 0 .. 3 /\ toServer \subseteq ToServerPackets /\ mtu \in Mtus \cup {0}
        /\ phase \in {"idle", "pong", "mtu", "reply2", "handshake", "connected", "refused"}
        /\ stream \in {"none", "Connecting", "Connected"}
    BY ProbeSizes DEF TypeOK
  <2>2. CASE Connect
    BY <1>5, <2>1, <2>2, ServerPackets DEF Connect
  <2>3. CASE Handshake
    BY <2>1, <2>3 DEF Handshake
  <2>4. CASE Fail
    BY <2>1, <2>4 DEF Fail
  <2>5. CASE NextProbe
    <3>1. CASE probe < Len(probe_sizes) /\ SendProbe(probe + 1) /\ UNCHANGED <<phase, mtu, stream>>
      <4>1. probe + 1 \in 1 .. 3
        BY <2>1, <3>1, ProbeSizes
      <4> QED
        BY <1>6, <2>1, <3>1, <4>1
    <3> QED
      BY <2>4, <2>5, <3>1 DEF NextProbe
  <2>6. CASE phase' = "mtu" /\ SendProbe(1) /\ UNCHANGED <<mtu, stream>>
    BY <1>6, <2>1, <2>6
  <2>7. ASSUME NEW p \in toClient, p.type = "reply1", phase' = "reply2", mtu' = p.mtu,
               SendToServer(Packet("request2", p.mtu)), probe' = 0, stream' = stream
        PROVE  /\ toServer' \subseteq ToServerPackets /\ probe' \in 0 .. 3
               /\ mtu' \in Mtus \cup {0} /\ phase' = "reply2"
    <3>1. p.mtu \in Mtus
      BY <2>7, ClientPackets DEF TypeOK
    <3> QED
      BY <1>5, <2>7, <3>1, ServerPackets
  <2>8. ASSUME NEW p \in toClient, p.type = "reply2", mtu' = p.mtu PROVE mtu' \in Mtus
    BY <2>8, ClientPackets DEF TypeOK
  <2>9. CASE \E p \in toClient : ReceivePong(p)
    BY <2>4, <2>6, <2>9 DEF ReceivePong
  <2>10. CASE \E p \in toClient : ReceiveReply1(p)
    BY <2>1, <2>5, <2>7, <2>10 DEF ReceiveReply1
  <2>11. CASE \E p \in toClient : ReceiveReply2(p)
    BY <2>1, <2>4, <2>8, <2>11 DEF ReceiveReply2
  <2> QED
    BY <2>2, <2>3, <2>4, <2>5, <2>9, <2>10, <2>11
    DEF PongTimeout, ProbeTimeout, Reply2Timeout, LocalError
<1> QED
  BY <1>1, <1>2, <1>3, <1>4, <1>7, ProbeSizes DEF TypeOK

\* The server answers a packet with a packet of its own, and opens a session
\* with an MTU that it has offered.
LEMMA ServeType ==
    ASSUME TypeOK, NEW p \in buffered, Serve(p)
    PROVE  /\ toClient' \subseteq ToClientPackets
           /\ session' \in [state : {"none", "open", "expired"}, mtu : Mtus \cup {0}]
<1>1. /\ p \in ToServerPackets /\ toClient \subseteq ToClientPackets
      /\ session \in [state : {"none", "open", "expired"}, mtu : Mtus \cup {0}]
  BY DEF TypeOK
<1>2. CASE handle_unconnected_ping(p)
  BY <1>1, <1>2, ClientPackets DEF handle_unconnected_ping, Answer
<1>3. CASE handle_open_connection_request_1(p)
  <2>1. OfferedMtu(p.mtu) \in Mtus
    BY <1>1, <1>3, ServerPackets, OfferedMtus DEF handle_open_connection_request_1
  <2> QED
    BY <1>1, <1>3, <2>1, ClientPackets DEF handle_open_connection_request_1, Answer
<1>4. CASE handle_open_connection_request_2(p)
  <2>1. clamp(p.mtu) \in Mtus
    BY <1>1, <1>4, ServerPackets, MtuFacts DEF handle_open_connection_request_2
  <2> QED
    BY <1>1, <1>4, <2>1, ClientPackets DEF handle_open_connection_request_2, Answer
<1> QED
  BY <1>2, <1>3, <1>4 DEF Serve

\* The server, the kernel and the network.
LEMMA NetworkTypeStep ==
    ASSUME TypeOK,
           \/ \E p \in toServer : Arrive(p)
           \/ \E p \in buffered : Serve(p)
           \/ \E p \in toServer \cup toClient : Lose(p)
           \/ ExpireSession \/ CalmDown
    PROVE  TypeOK'
<1>1. /\ path' = path /\ compatible' = compatible /\ phase' = phase /\ probe' = probe
      /\ mtu' = mtu /\ stream' = stream
  BY DEF Arrive, Serve, Lose, ExpireSession, CalmDown, case, client
<1>2. /\ toServer' \subseteq toServer /\ buffered' \subseteq buffered \cup toServer
      /\ (disturbed' = disturbed \/ disturbed' = TRUE) /\ (calm' = calm \/ calm' = TRUE)
  BY DEF Arrive, Serve, Lose, ExpireSession, CalmDown, Copied, server
<1>3. calm' \in BOOLEAN /\ disturbed' \in BOOLEAN
  BY <1>2, Zenon DEF TypeOK
<1>4. copies' \in 0 .. MaxCopies
  BY ClientAssumption DEF TypeOK, Arrive, Serve, Lose, ExpireSession, CalmDown, Copied
<1>5. /\ toClient' \subseteq ToClientPackets
      /\ session' \in [state : {"none", "open", "expired"}, mtu : Mtus \cup {0}]
  <2>1. CASE \E p \in buffered : Serve(p)
    BY <2>1, ServeType
  <2>2. CASE ~ \E p \in buffered : Serve(p)
    BY <2>2 DEF TypeOK, Arrive, Lose, ExpireSession, CalmDown, NoSession, server
  <2> QED
    BY <2>1, <2>2
<1> QED
  BY <1>1, <1>2, <1>3, <1>4, <1>5 DEF TypeOK

\* The inductive step.
LEMMA TypeStep == TypeOK /\ [Next]_vars => TypeOK'
<1> SUFFICES ASSUME TypeOK, [Next]_vars PROVE TypeOK'
  OBVIOUS
<1>1. CASE UNCHANGED vars
  BY <1>1 DEF vars, case, client, server, TypeOK
<1> QED
  BY <1>1, ClientTypeStep, NetworkTypeStep DEF Next

-----------------------------------------------------------------------------
(***************************************************************************)
(* The MTU.                                                                *)
(***************************************************************************)

\* A probe that gets through fits the path, and so do the datagrams of a
\* stream with the MTU that the server makes of it.
LEMMA ProbeFits ==
    ASSUME NEW size \in {1492, 1200, 576}, path \in Int, size + IpUdpHeaders =< path
    PROVE  LargestDatagram(OfferedMtu(size)) =< path
<1>1. OfferedMtu(size) \in Mtus /\ OfferedMtu(size) =< size + 28
  BY OfferedMtus
<1>2. LargestDatagram(OfferedMtu(size)) = OfferedMtu(size) - 18 /\ OfferedMtu(size) \in Int
  BY <1>1, MtuFacts
<1> QED
  BY <1>1, <1>2 DEF IpUdpHeaders

\* The inductive step.
LEMMA FitStep == TypeOK /\ FitInv /\ [Next]_vars => FitInv'
<1> SUFFICES ASSUME TypeOK, FitInv, [Next]_vars PROVE FitInv'
  OBVIOUS
<1>1. path' = path
  BY DEF Next, vars, case, Connect, Handshake, PongTimeout, ProbeTimeout, Reply2Timeout,
         LocalError, TimeUp, ReceivePong, ReceiveReply1, ReceiveReply2, Arrive, Serve, Lose,
         ExpireSession, CalmDown
<1>2. /\ \A p \in InFlight : PacketFits(p)
      /\ phase \in {"reply2", "handshake"} => LargestDatagram(mtu) =< path
      /\ session.state # "none" => LargestDatagram(session.mtu) =< path
      /\ path \in Int
  BY ClientAssumption DEF FitInv, DatagramsFitPath, TypeOK
<1>3. SUFFICES /\ \A p \in InFlight' : PacketFits(p)
               /\ phase' \in {"reply2", "handshake"} => LargestDatagram(mtu') =< path
               /\ session'.state # "none" => LargestDatagram(session'.mtu) =< path
  BY <1>1 DEF FitInv, DatagramsFitPath, PacketFits, LargestDatagram
<1>4. ASSUME NEW q, SendToServer(q), q.type = "request1" \/ PacketFits(q), q.mtu \in Int
      PROVE  \A p \in toServer' : PacketFits(p)
  <2>1. CASE q.type = "request1"
    BY <1>2, <1>4, <2>1 DEF SendToServer, PacketFits, IpUdpHeaders, InFlight
  <2>2. CASE q.type # "request1"
    BY <1>2, <1>4, <2>2 DEF SendToServer, InFlight
  <2> QED
    BY <2>1, <2>2
<1>5. ASSUME NEW n \in 1 .. 3, SendProbe(n)
      PROVE  \A p \in toServer' : PacketFits(p)
  BY <1>4, <1>5, ProbeSizes, PacketFields DEF SendProbe
<1>6. CASE Connect
  <2>1. SendToServer(Packet("ping", 0)) /\ phase' = "pong"
        /\ buffered' = buffered /\ toClient' = toClient /\ session' = session
    BY <1>6 DEF Connect, server
  <2>2. \A p \in toServer' : PacketFits(p)
    BY <1>4, <2>1, PacketFields DEF PacketFits
  <2> QED
    BY <1>2, <2>1, <2>2 DEF InFlight
<1>7. CASE UNCHANGED vars \/ Handshake \/ CalmDown
  BY <1>2, <1>7 DEF vars, client, server, Handshake, CalmDown, InFlight
<1>8. CASE \/ PongTimeout \/ ProbeTimeout \/ Reply2Timeout \/ LocalError
              \/ \E p \in toClient : ReceivePong(p) \/ ReceiveReply1(p) \/ ReceiveReply2(p)
  <2>1. /\ toClient' \subseteq toClient /\ buffered' = buffered /\ session' = session
    BY <1>8 DEF PongTimeout, ProbeTimeout, Reply2Timeout, LocalError, TimeUp, ReceivePong,
                ReceiveReply1, ReceiveReply2, ClientTakes, server
  <2>2. SUFFICES /\ \A p \in toServer' : PacketFits(p)
                 /\ phase' \in {"reply2", "handshake"} => LargestDatagram(mtu') =< path
    BY <1>2, <2>1 DEF InFlight
  <2>3. CASE Fail
    BY <1>2, <2>3 DEF Fail, InFlight
  <2>4. CASE phase = "mtu" /\ NextProbe
    <3>1. CASE probe < Len(probe_sizes) /\ SendProbe(probe + 1) /\ UNCHANGED <<phase, mtu, stream>>
      <4>1. probe + 1 \in 1 .. 3
        BY <3>1, ProbeSizes DEF TypeOK
      <4> QED
        BY <1>5, <2>4, <3>1, <4>1
    <3> QED
      BY <2>3, <2>4, <3>1 DEF NextProbe
  <2>5. CASE \E p \in toClient : ReceivePong(p)
    BY <1>5, <2>3, <2>5 DEF ReceivePong
  <2>6. ASSUME NEW p \in toClient, p.type \in {"reply1", "reply2"}
        PROVE  p.mtu \in Int /\ LargestDatagram(p.mtu) =< path
    <3>1. p.mtu \in Mtus
      BY <2>6, ClientPackets DEF TypeOK
    <3> QED
      BY <1>2, <2>6, <3>1, MtuFacts DEF InFlight, PacketFits
  <2>7. ASSUME NEW p \in toClient, p.type = "reply1", SendToServer(Packet("request2", p.mtu))
        PROVE  \A q \in toServer' : PacketFits(q)
    BY <1>4, <2>6, <2>7, PacketFields DEF PacketFits
  <2>8. CASE \E p \in toClient : ReceiveReply1(p)
    BY <2>4, <2>6, <2>7, <2>8 DEF ReceiveReply1
  <2>9. CASE \E p \in toClient : ReceiveReply2(p)
    BY <1>2, <2>3, <2>6, <2>9 DEF ReceiveReply2, InFlight
  <2> QED
    BY <1>8, <2>3, <2>4, <2>5, <2>8, <2>9 DEF PongTimeout, ProbeTimeout, Reply2Timeout, LocalError
<1>9. CASE \E p \in buffered : Serve(p)
  <2>1. PICK p \in buffered : Serve(p)
    BY <1>9
  <2>2. /\ buffered' \subseteq buffered /\ toServer' = toServer /\ phase' = phase /\ mtu' = mtu
        /\ p \in ToServerPackets /\ PacketFits(p)
    BY <1>2, <2>1 DEF Serve, client, InFlight, TypeOK
  <2>3. SUFFICES /\ \A q \in toClient' : PacketFits(q)
                 /\ session'.state # "none" => LargestDatagram(session'.mtu) =< path
    BY <1>2, <2>2 DEF InFlight
  <2>4. CASE handle_unconnected_ping(p)
    BY <1>2, <2>4, PacketFields DEF handle_unconnected_ping, Answer, PacketFits, InFlight
  <2>5. CASE handle_open_connection_request_1(p)
    <3>1. LargestDatagram(OfferedMtu(p.mtu)) =< path
      BY <1>2, <2>2, <2>5, ServerPackets, ProbeFits
      DEF handle_open_connection_request_1, PacketFits
    <3>2. \/ toClient' = toClient \cup {Packet("reply1", OfferedMtu(p.mtu))}
          \/ toClient' = toClient \cup {Packet("incompatible", 0)}
      BY <2>5 DEF handle_open_connection_request_1, Answer
    <3>3. /\ PacketFits(Packet("reply1", OfferedMtu(p.mtu)))
          /\ PacketFits(Packet("incompatible", 0))
      BY <3>1, PacketFields DEF PacketFits
    <3>4. session' = session
      BY <2>5 DEF handle_open_connection_request_1, Answer
    <3> QED
      BY <1>2, <3>2, <3>3, <3>4 DEF InFlight
  <2>6. CASE handle_open_connection_request_2(p)
    <3>1. LargestDatagram(clamp(p.mtu)) =< path
      BY <2>2, <2>6, ServerPackets, MtuFacts DEF handle_open_connection_request_2, PacketFits
    <3>2. /\ PacketFits(Packet("reply2", clamp(p.mtu)))
          /\ PacketFits(Packet("already", 0))
      BY <3>1, PacketFields DEF PacketFits
    <3>3. \/ toClient' = toClient \cup {Packet("already", 0)} /\ session' = session
          \/ /\ toClient' = toClient \cup {Packet("reply2", clamp(p.mtu))}
             /\ session' = [state |-> "open", mtu |-> clamp(p.mtu)]
      BY <2>6 DEF handle_open_connection_request_2, Answer
    <3> QED
      BY <1>2, <3>1, <3>2, <3>3 DEF InFlight
  <2> QED
    BY <2>1, <2>4, <2>5, <2>6 DEF Serve
<1>10. CASE \/ \E p \in toServer : Arrive(p)
            \/ \E p \in toServer \cup toClient : Lose(p)
            \/ ExpireSession
  <2>1. InFlight' \subseteq InFlight /\ phase' = phase /\ mtu' = mtu
    BY <1>10 DEF Arrive, Lose, ExpireSession, InFlight, client, server
  <2>2. \/ session' = session \/ session' = NoSession
        \/ session.state = "open" /\ session' = [session EXCEPT !.state = "expired"]
    BY <1>10 DEF Arrive, Lose, ExpireSession, server
  <2>3. session'.state # "none" => session'.mtu = session.mtu /\ session.state # "none"
    BY <2>2 DEF TypeOK, NoSession
  <2> QED
    BY <1>2, <2>1, <2>3
<1> QED
  BY <1>6, <1>7, <1>8, <1>9, <1>10 DEF Next

-----------------------------------------------------------------------------
(***************************************************************************)
(* An attempt that nothing disturbs.                                       *)
(***************************************************************************)

\* What is under way is no other packet.
LEMMA OnlyThatPacket ==
    ASSUME NEW request, NEW reply, UnderWay(request, reply), NEW p
    PROVE  /\ InFlight # {}
           /\ p \in toServer => /\ toServer = {p} /\ p.type = request /\ buffered = {}
                               /\ toClient = {} /\ session.state = "none"
           /\ p \in buffered => /\ buffered = {p} /\ p.type = request /\ toServer = {}
                               /\ toClient = {} /\ session.state = "none"
           /\ p \in toClient => /\ toClient = {p} /\ p.type = reply /\ toServer = {}
                               /\ buffered = {} /\ (session.state = "none" \/ reply = "reply2")
BY DEF UnderWay, InFlight

\* A disturbance is not forgotten, and the case at hand does not change.
LEMMA StaysFavourable ==
    ASSUME TypeOK, [Next]_vars, Favourable'
    PROVE  /\ Favourable /\ ~disturbed' /\ path' = path /\ compatible' = compatible
           /\ ~ Copied
           /\ ~ \E p \in toServer \cup toClient : Lose(p)
<1>1. path' = path /\ compatible' = compatible
  BY DEF Next, vars, case, Connect, Handshake, PongTimeout, ProbeTimeout, Reply2Timeout,
         LocalError, TimeUp, ReceivePong, ReceiveReply1, ReceiveReply2, Arrive, Serve, Lose,
         ExpireSession, CalmDown
<1>2. ~disturbed'
  BY DEF Favourable
<1>3. ~ Copied /\ ~ \E p \in toServer \cup toClient : Lose(p)
  BY <1>2 DEF Copied, Lose
<1>4. ~disturbed
  <2>1. \/ disturbed' = disturbed \/ disturbed' = TRUE
        \/ disturbed' = (disturbed \/ InFlight # {})
    BY Zenon
    DEF Next, vars, Connect, Handshake, PongTimeout, ProbeTimeout, Reply2Timeout, LocalError,
        TimeUp, ReceivePong, ReceiveReply1, ReceiveReply2, ClientTakes, Copied, Arrive, Serve, Lose,
        ExpireSession, CalmDown
  <2> QED
    BY <1>2, <2>1, Zenon
<1> QED
  BY <1>1, <1>2, <1>3, <1>4 DEF Favourable

\* The steps of connect().
LEMMA UndisturbedClientStep ==
    ASSUME TypeOK, Undisturbed, [Next]_vars, Favourable',
           \/ Connect \/ Handshake \/ PongTimeout \/ ProbeTimeout \/ Reply2Timeout \/ LocalError
           \/ \E p \in toClient : ReceivePong(p) \/ ReceiveReply1(p) \/ ReceiveReply2(p)
    PROVE  Undisturbed' /\ phase' # "idle"
<1>1. /\ Favourable /\ ~disturbed' /\ path' = path /\ ~ Copied
      /\ path \in Int /\ path >= 604 /\ probe \in 0 .. 3
  <2>1. Favourable /\ path' = path /\ ~ Copied
    BY StaysFavourable
  <2>2. ~disturbed' /\ path >= 604
    BY <2>1 DEF Favourable, IpUdpHeaders
  <2>3. path \in Int /\ probe \in 0 .. 3
    BY ClientAssumption, ProbeSizes DEF TypeOK
  <2> QED
    BY <2>1, <2>2, <2>3
<1>0. ~ LocalError
  BY <1>1, Zenon DEF LocalError
<1>2. ASSUME NEW q, SendToServer(q), q.type # "request1", toServer = {}
      PROVE  toServer' = {q}
  BY <1>2 DEF SendToServer
<1>3. ASSUME NEW n \in 1 .. 3, SendProbe(n), phase' = "mtu", toServer = {},
             buffered' = {}, toClient' = {}, session'.state = "none"
      PROVE  Undisturbed'
  <2>1. \/ toServer' = {} /\ probe_sizes[n] + IpUdpHeaders > path
        \/ toServer' = {Packet("request1", probe_sizes[n])}
    BY <1>3, PacketFields DEF SendProbe, SendToServer
  <2>2. probe' = n
    BY <1>3 DEF SendProbe
  <2>3. CASE toServer' = {} /\ probe_sizes[n] + IpUdpHeaders > path
    BY <1>1, <1>3, <2>2, <2>3 DEF Undisturbed, InFlight
  <2>4. CASE toServer' = {Packet("request1", probe_sizes[n])}
    <3>1. UnderWay("request1", "reply1")'
      BY <1>3, <2>4, PacketFields DEF UnderWay
    <3> QED
      BY <1>3, <2>2, <3>1 DEF Undisturbed
  <2> QED
    BY <2>1, <2>3, <2>4
<1>4. CASE Connect
  <2>1. /\ phase = "idle" /\ phase' = "pong" /\ SendToServer(Packet("ping", 0))
        /\ buffered' = buffered /\ session' = session /\ toClient' = toClient
    BY <1>4 DEF Connect, server
  <2>2. toServer = {} /\ buffered = {} /\ toClient = {} /\ session.state = "none"
    BY <1>1, <2>1 DEF Undisturbed, InFlight
  <2>3. toServer' = {Packet("ping", 0)}
    BY <1>2, <2>1, <2>2, PacketFields
  <2>4. UnderWay("ping", "pong")'
    BY <2>1, <2>2, <2>3, PacketFields DEF UnderWay
  <2> QED
    BY <2>1, <2>4 DEF Undisturbed
<1>5. CASE Handshake
  BY <1>1, <1>5 DEF Undisturbed, Handshake, server, InFlight
<1>6. CASE PongTimeout \/ Reply2Timeout
  <2>1. InFlight = {} /\ phase \in {"pong", "reply2"}
    BY <1>1, <1>6 DEF PongTimeout, Reply2Timeout, LocalError, TimeUp
  <2> QED
    BY <1>1, <2>1, OnlyThatPacket DEF Undisturbed
<1>7. CASE ProbeTimeout
  <2>1. /\ InFlight = {} /\ phase = "mtu" /\ NextProbe
        /\ buffered' = buffered /\ toClient' = toClient /\ session' = session
    BY <1>1, <1>7 DEF ProbeTimeout, TimeUp, server
  <2>2. /\ probe \in 1 .. 3 /\ session.state = "none"
        /\ probe_sizes[probe] + IpUdpHeaders > path
    BY <1>1, <2>1, OnlyThatPacket DEF Undisturbed
  <2>3. probe # 3
    BY <1>1, <2>2, ProbeSizes DEF IpUdpHeaders
  <2>4. SendProbe(probe + 1) /\ phase' = "mtu" /\ probe + 1 \in 1 .. 3
    BY <2>1, <2>2, <2>3, ProbeSizes DEF NextProbe
  <2> QED
    BY <1>3, <2>1, <2>2, <2>4 DEF InFlight
<1>8. ASSUME NEW p \in toClient, ReceivePong(p) PROVE Undisturbed' /\ phase' # "idle"
  <2>1. /\ phase = "pong" /\ toClient' = toClient \ {p} /\ buffered' = buffered
        /\ session' = session
        /\ p.type = "pong" => phase' = "mtu" /\ SendProbe(1)
    BY <1>1, <1>8 DEF ReceivePong, ClientTakes, server
  <2>2. /\ toClient = {p} /\ p.type = "pong" /\ toServer = {} /\ buffered = {}
        /\ session.state = "none"
    BY <1>1, <2>1, OnlyThatPacket DEF Undisturbed
  <2> QED
    BY <1>3, <2>1, <2>2
<1>9. ASSUME NEW p \in toClient, ReceiveReply1(p) PROVE Undisturbed' /\ phase' # "idle"
  <2>1. /\ phase = "mtu" /\ toClient' = toClient \ {p} /\ buffered' = buffered
        /\ session' = session
        /\ p.type = "reply1" => phase' = "reply2" /\ SendToServer(Packet("request2", p.mtu))
    BY <1>1, <1>9 DEF ReceiveReply1, ClientTakes, server
  <2>2. /\ toClient = {p} /\ p.type = "reply1" /\ toServer = {} /\ buffered = {}
        /\ session.state = "none"
    BY <1>1, <2>1, OnlyThatPacket DEF Undisturbed, InFlight
  <2>3. toServer' = {Packet("request2", p.mtu)}
    BY <1>2, <2>1, <2>2, PacketFields
  <2>4. UnderWay("request2", "reply2")'
    BY <2>1, <2>2, <2>3, PacketFields DEF UnderWay
  <2> QED
    BY <2>1, <2>2, <2>4 DEF Undisturbed
<1>10. ASSUME NEW p \in toClient, ReceiveReply2(p) PROVE Undisturbed' /\ phase' # "idle"
  <2>1. /\ phase = "reply2" /\ toClient' = toClient \ {p} /\ buffered' = buffered
        /\ p.type = "reply2" => phase' = "handshake" /\ toServer' = toServer
    BY <1>1, <1>10 DEF ReceiveReply2, ClientTakes, server
  <2>2. toClient = {p} /\ p.type = "reply2" /\ toServer = {} /\ buffered = {}
    BY <1>1, <2>1, OnlyThatPacket DEF Undisturbed
  <2> QED
    BY <2>1, <2>2 DEF Undisturbed, InFlight
<1> QED
  BY <1>0, <1>4, <1>5, <1>6, <1>7, <1>8, <1>9, <1>10

\* A packet under way arrives, is served, or stays.
LEMMA UnderWayStep ==
    ASSUME NEW request, NEW reply, UnderWay(request, reply), ~ Copied, compatible,
           <<request, reply>> \in {<<"ping", "pong">>, <<"request1", "reply1">>,
                                  <<"request2", "reply2">>},
           \/ \E p \in toServer : Arrive(p)
           \/ \E p \in buffered : Serve(p)
           \/ ExpireSession
    PROVE  UnderWay(request, reply)'
<1>1. ASSUME NEW p \in toServer, Arrive(p) PROVE UnderWay(request, reply)'
  <2>1. /\ toServer = {p} /\ p.type = request /\ buffered = {} /\ toClient = {}
        /\ session.state = "none"
    BY OnlyThatPacket
  <2>2. /\ toServer' = toServer \ {p} /\ toClient' = toClient
        /\ buffered' = buffered \cup {p} /\ session' = session
    BY <1>1, <2>1 DEF Arrive
  <2> QED
    BY <2>1, <2>2 DEF UnderWay
<1>2. ASSUME NEW p \in buffered, Serve(p) PROVE UnderWay(request, reply)'
  <2>1. /\ buffered = {p} /\ p.type = request /\ toServer = {} /\ toClient = {}
        /\ session.state = "none"
    BY OnlyThatPacket
  <2>2. buffered' = {} /\ toServer' = {}
    BY <1>2, <2>1 DEF Serve
  <2>3. \E q : /\ toClient' = {q} /\ q.type = reply
               /\ session'.state = "none" \/ reply = "reply2"
    <3>1. CASE handle_unconnected_ping(p)
      BY <2>1, <3>1, PacketFields DEF handle_unconnected_ping, Answer
    <3>2. CASE handle_open_connection_request_1(p)
      BY <2>1, <3>2, PacketFields DEF handle_open_connection_request_1, Answer
    <3>3. CASE handle_open_connection_request_2(p)
      BY <2>1, <3>3, PacketFields DEF handle_open_connection_request_2, Answer
    <3> QED
      BY <1>2, <3>1, <3>2, <3>3 DEF Serve
  <2> QED
    BY <2>2, <2>3 DEF UnderWay
<1>3. CASE ExpireSession
  <2>1. /\ session.state = "open" /\ toServer' = toServer /\ buffered' = buffered
        /\ toClient' = toClient
    BY <1>3 DEF ExpireSession
  <2> QED
    BY <2>1 DEF UnderWay
<1> QED
  BY <1>1, <1>2, <1>3

\* The inductive step.
LEMMA UndisturbedStep == TypeOK /\ Undisturbed /\ [Next]_vars => Undisturbed'
<1> SUFFICES ASSUME TypeOK, Undisturbed, [Next]_vars, Favourable' PROVE Undisturbed'
  BY DEF Undisturbed
<1>1. /\ Favourable /\ ~ Copied /\ path' = path /\ compatible
      /\ ~ \E p \in toServer \cup toClient : Lose(p)
  BY StaysFavourable DEF Favourable
<1>2. CASE CalmDown \/ UNCHANGED vars
  <2>1. /\ phase' = phase /\ probe' = probe /\ session' = session /\ toServer' = toServer
        /\ buffered' = buffered /\ toClient' = toClient
    BY <1>2 DEF CalmDown, vars, client, server
  <2> QED
    BY <1>1, <2>1 DEF Undisturbed, UnderWay, InFlight
<1>3. CASE \/ \E p \in toServer : Arrive(p)
           \/ \E p \in buffered : Serve(p)
           \/ ExpireSession
  <2>1. phase' = phase /\ probe' = probe
    BY <1>3 DEF Arrive, Serve, ExpireSession, client
  <2>2. InFlight = {} => /\ ExpireSession /\ InFlight' = {} /\ session.state = "open"
    BY <1>3 DEF Arrive, Serve, ExpireSession, InFlight
  <2>3. \/ phase = "pong" /\ UnderWay("ping", "pong")
        \/ phase = "mtu" /\ probe \in 1 .. 3 /\ UnderWay("request1", "reply1")
        \/ phase = "reply2" /\ UnderWay("request2", "reply2")
        \/ phase \in {"handshake", "connected", "refused"} /\ InFlight = {}
    BY <1>1, <2>2 DEF Undisturbed
  <2> QED
    BY <1>1, <1>3, <2>1, <2>2, <2>3, UnderWayStep DEF Undisturbed
<1> QED
  BY <1>1, <1>2, <1>3, UndisturbedClientStep DEF Next

-----------------------------------------------------------------------------
\* The invariant holds, whatever the network does to the packets.
THEOREM ClientInvariant == Spec => []ClientInv
<1>1. ClientInv /\ [Next]_vars => ClientInv'
  BY TypeStep, FitStep, UndisturbedStep DEF ClientInv
<1> QED
  BY <1>1, ClientInit, PTL DEF Spec

\* Type correctness: no MTU is ever agreed on but those of the probes.
THEOREM ClientTypeCorrect == Spec => []TypeOK
<1>1. ClientInv => TypeOK
  BY DEF ClientInv
<1> QED
  BY <1>1, ClientInvariant, PTL

\* discover_mtu and the handlers of the listener settle on no MTU whose
\* datagrams the path would drop.
THEOREM ClientDatagramsFit == Spec => []DatagramsFitPath
<1>1. ClientInv => DatagramsFitPath
  BY DEF ClientInv, FitInv
<1> QED
  BY <1>1, ClientInvariant, PTL

\* connect() returns an error before the handshake only for a reason.
THEOREM ClientFailsForAReason == Spec => FailsForAReason
<1>1. ClientInv /\ [Next]_vars
        => [phase # "idle" /\ phase' = "idle" =>
               disturbed' \/ ~compatible \/ path < 576 + IpUdpHeaders]_vars
  <2> SUFFICES ASSUME ClientInv, [Next]_vars, phase # "idle", phase' = "idle",
                      ~disturbed', compatible, ~ (path < 576 + IpUdpHeaders)
               PROVE  FALSE
    OBVIOUS
  <2>1. path' = path /\ compatible' = compatible
    BY DEF Next, vars, case, Connect, Handshake, PongTimeout, ProbeTimeout, Reply2Timeout,
           LocalError, TimeUp, ReceivePong, ReceiveReply1, ReceiveReply2, Arrive, Serve, Lose,
           ExpireSession, CalmDown
  <2>2. Favourable'
    <3>1. path >= 576 + IpUdpHeaders
      BY ClientAssumption DEF ClientInv, TypeOK, IpUdpHeaders
    <3> QED
      BY <2>1, <3>1 DEF Favourable
  <2>3. \/ Connect \/ Handshake \/ PongTimeout \/ ProbeTimeout \/ Reply2Timeout \/ LocalError
        \/ \E p \in toClient : ReceivePong(p) \/ ReceiveReply1(p) \/ ReceiveReply2(p)
    BY DEF Next, vars, client, Arrive, Serve, Lose, ExpireSession, CalmDown
  <2> QED
    BY <2>2, <2>3, UndisturbedClientStep DEF ClientInv
<1> QED
  BY <1>1, ClientInvariant, PTL DEF Spec, FailsForAReason
=============================================================================
