------------------------------- MODULE Client -------------------------------
(***************************************************************************)
(* RakNetClient::connect (src/client.rs) and the server's answers          *)
(* (src/listener.rs): ping and pong, MTU discovery, the request that       *)
(* creates a session, and the handshake on the new stream.  The client     *)
(* takes whatever its socket has next for the answer it waits for, and a   *)
(* failed connect() is called again on the same socket, so that the        *)
(* packets of an earlier attempt are still there.                          *)
(*                                                                         *)
(* Listener has the races of handlers; here the server handles a packet in *)
(* one step.  Once it has a session the kernel hands it all packets of the *)
(* client, but for those the listener's socket already holds (buffered),   *)
(* and the session ignores them.  A session whose login does not come      *)
(* times out, but its receive task only notices, and frees the address,    *)
(* when one more packet comes.                                             *)
(*                                                                         *)
(* The network loses, reorders and duplicates packets, and drops those     *)
(* larger than path, until it calms down.  From then on the application    *)
(* pauses between attempts, long enough for the network to empty.          *)
(***************************************************************************)
EXTENDS Levels, Sequences, FiniteSets

CONSTANTS
    Paths,              \* MTUs of the path, IP header included
    Versions,           \* whether client and server speak the same protocol
    MaxStale,           \* bound: packets in flight when connect() is called,
                        \* while the network is not calm
    MaxCopies,          \* bound: packets duplicated
    StartsCalm          \* whether the network is calm from the start

ASSUME ClientAssumption ==
    /\ Paths \subseteq Nat
    /\ Versions \subseteq BOOLEAN
    /\ MaxStale \in Nat /\ MaxCopies \in Nat
    /\ StartsCalm \in BOOLEAN

VARIABLES
    path, compatible,   \* the case at hand
    phase,              \* where connect() is; idle: not called, or failed
    probe,              \* which size discover_mtu is trying
    mtu,                \* the client's mtu
    stream,             \* the state of the client's RakNetStream
    toServer, toClient, \* packets in flight, or in the client's socket
    buffered,           \* packets in the listener's socket
    session,            \* the server's session for this client
    calm,
    \* history
    copies,             \* how many packets were duplicated
    disturbed           \* a packet was lost or duplicated, a time-out fired with
                        \* a packet on its way, or the client's socket failed

client == <<phase, probe, mtu, stream>>
server == <<buffered, session>>
case == <<path, compatible>>
vars == <<case, client, server, toServer, toClient, calm, copies, disturbed>>

InFlight == toServer \cup buffered \cup toClient

NoSession == [state |-> "none", mtu |-> 0]

Init ==
    /\ path \in Paths /\ compatible \in Versions
    /\ phase = "idle" /\ probe = 0 /\ mtu = 0 /\ stream = "none"
    /\ toServer = {} /\ toClient = {} /\ buffered = {}
    /\ session = NoSession
    /\ calm = StartsCalm /\ copies = 0 /\ disturbed = FALSE

-----------------------------------------------------------------------------
(***************************************************************************)
(* Packets.  Only OpenConnectionRequest1 is padded, to the size it probes. *)
(***************************************************************************)

Packet(type, value) == [type |-> type, mtu |-> value]

IpUdpHeaders == 28

clamp(size) == IF size < 576 THEN 576 ELSE IF size > 1500 THEN 1500 ELSE size

\* Mutant: a larger least MTU.
OfferedMtuHigh(size) == IF size + IpUdpHeaders < 1200 THEN 1200 ELSE clamp(size + IpUdpHeaders)

\* decode_open_connection_request_1, and the clamp of its handler.
OfferedMtu(size) == clamp((size + IpUdpHeaders) % 65536)

SendToServer(p) ==
    toServer' = IF p.type = "request1" /\ p.mtu + IpUdpHeaders > path
                THEN toServer
                ELSE toServer \cup {p}

\* A packet is duplicated: a copy stays where it was.
Copied ==
    /\ ~calm /\ copies < MaxCopies
    /\ copies' = copies + 1
    /\ disturbed' = TRUE

ClientTakes(p) ==
    /\ p \in toClient
    /\ \/ toClient' = toClient \ {p} /\ UNCHANGED <<copies, disturbed>>
       \/ Copied /\ UNCHANGED toClient

-----------------------------------------------------------------------------
(***************************************************************************)
(* connect().                                                              *)
(***************************************************************************)

probe_sizes == <<1492, 1200, 576>>

\* connect() returns an error, and its variables are gone.
Fail == phase' = "idle" /\ probe' = 0 /\ mtu' = 0 /\ UNCHANGED <<stream, toServer>>

SendProbe(n) ==
    /\ probe' = n
    /\ SendToServer(Packet("request1", probe_sizes[n]))

\* connect() up to the wait for the pong.
Connect ==
    /\ phase = "idle"
    /\ IF calm THEN toServer \cup buffered = {} ELSE Cardinality(InFlight) =< MaxStale
    /\ phase' = "pong"
    /\ SendToServer(Packet("ping", 0))
    /\ UNCHANGED <<case, probe, mtu, stream, server, toClient, calm, copies, disturbed>>

\* receive_unconnected_pong: the first packet to come has to be the pong.
ReceivePong(p) ==
    /\ phase = "pong"
    /\ ClientTakes(p)
    /\ \/ p.type = "pong" /\ phase' = "mtu" /\ SendProbe(1) /\ UNCHANGED <<mtu, stream>>
       \/ p.type # "pong" /\ Fail
    /\ UNCHANGED <<case, server, calm>>

\* Mutant: only one size is tried.
NextProbeNone == Fail

\* The next size, or Error::Timeout after the last.
NextProbe ==
    \/ probe < Len(probe_sizes) /\ SendProbe(probe + 1) /\ UNCHANGED <<phase, mtu, stream>>
    \/ probe = Len(probe_sizes) /\ Fail

\* Mutant: any packet counts as the reply.
TakeAnyReply1(p) ==
    /\ phase = "mtu"
    /\ ClientTakes(p)
    /\ phase' = "reply2" /\ mtu' = p.mtu
    /\ SendToServer(Packet("request2", p.mtu))
    /\ probe' = 0 /\ UNCHANGED stream
    /\ UNCHANGED <<case, server, calm>>

\* receive_open_connection_reply_1: a reply to any of the sizes will do, and
\* anything else has the next size tried at once.
ReceiveReply1(p) ==
    /\ phase = "mtu"
    /\ ClientTakes(p)
    /\ \/ /\ p.type = "reply1"
          /\ phase' = "reply2" /\ mtu' = p.mtu
          /\ SendToServer(Packet("request2", p.mtu))
          /\ probe' = 0 /\ UNCHANGED stream
       \/ p.type # "reply1" /\ NextProbe
    /\ UNCHANGED <<case, server, calm>>

\* receive_open_connection_reply_2, and RakNetStream::new.
ReceiveReply2(p) ==
    /\ phase = "reply2"
    /\ ClientTakes(p)
    /\ \/ /\ p.type = "reply2"
          /\ phase' = "handshake" /\ mtu' = p.mtu /\ stream' = "Connecting"
          /\ UNCHANGED <<probe, toServer>>
       \/ p.type # "reply2" /\ Fail
    /\ UNCHANGED <<case, server, calm>>

\* complete_connection_handshake: stream.send refuses a message unless the
\* stream is Connected.  Only a NewIncomingConnection makes it so, which no
\* server sends, and connect() returns the error of its first send.
Handshake ==
    /\ phase = "handshake"
    /\ phase' = IF stream = "Connected" THEN "connected" ELSE "refused"
    /\ UNCHANGED <<case, probe, mtu, stream, server, toServer, toClient, calm, copies,
                   disturbed>>

\* A time-out may be too early; not so once the network is calm.
TimeUp ==
    /\ calm => InFlight = {}
    /\ disturbed' = (disturbed \/ InFlight # {})
    /\ UNCHANGED <<case, server, toClient, calm, copies>>

PongTimeout == phase = "pong" /\ TimeUp /\ Fail

\* Mutant: no time-out for a probe.
ProbeWaits == phase = "mtu" /\ probe < 0 /\ TimeUp /\ NextProbe

ProbeTimeout == phase = "mtu" /\ TimeUp /\ NextProbe

Reply2Timeout == phase = "reply2" /\ TimeUp /\ Fail

\* An error of the client's own socket (send_to, recv, connect, bind) has
\* connect() return at once, with or without the packet it was to send: one that
\* was not sent counts as lost.  None comes once the network is calm.
LocalError ==
    /\ ~calm
    /\ phase \in {"pong", "mtu", "reply2"}
    /\ Fail
    /\ disturbed' = TRUE
    /\ UNCHANGED <<case, server, toClient, calm, copies>>

-----------------------------------------------------------------------------
(***************************************************************************)
(* The server, and the kernel and the network around it.                   *)
(***************************************************************************)

\* Mutant: a session that has timed out goes on taking packets.
ArriveNeverEnds(p) ==
    /\ p \in toServer
    /\ \/ toServer' = toServer \ {p} /\ UNCHANGED <<copies, disturbed>>
       \/ Copied /\ UNCHANGED toServer
    /\ buffered' = IF session.state = "none" THEN buffered \cup {p} ELSE buffered
    /\ UNCHANGED <<case, client, session, toClient, calm>>

\* The kernel picks the socket.  A session ignores the packet, and ends with
\* it if it has timed out: its waiter frees the address.
Arrive(p) ==
    /\ p \in toServer
    /\ \/ toServer' = toServer \ {p} /\ UNCHANGED <<copies, disturbed>>
       \/ Copied /\ UNCHANGED toServer
    /\ buffered' = IF session.state = "none" THEN buffered \cup {p} ELSE buffered
    /\ session' = IF session.state = "expired" THEN NoSession ELSE session
    /\ UNCHANGED <<case, client, toClient, calm>>

Answer(p) == toClient' = toClient \cup {p} /\ UNCHANGED session

handle_unconnected_ping(p) == p.type = "ping" /\ Answer(Packet("pong", 0))

handle_open_connection_request_1(p) ==
    /\ p.type = "request1"
    /\ Answer(IF compatible THEN Packet("reply1", OfferedMtu(p.mtu))
                            ELSE Packet("incompatible", 0))

handle_open_connection_request_2(p) ==
    /\ p.type = "request2"
    /\ \/ session.state # "none" /\ Answer(Packet("already", 0))
       \/ /\ session.state = "none"
          /\ toClient' = toClient \cup {Packet("reply2", clamp(p.mtu))}
          /\ session' = [state |-> "open", mtu |-> clamp(p.mtu)]

Serve(p) ==
    /\ p \in buffered
    /\ buffered' = buffered \ {p}
    /\ \/ handle_unconnected_ping(p)
       \/ handle_open_connection_request_1(p)
       \/ handle_open_connection_request_2(p)
    /\ UNCHANGED <<case, client, toServer, calm, copies, disturbed>>

\* tick_task of a session that heard nothing for 5 s + 2 RTT.
ExpireSession ==
    /\ session.state = "open"
    /\ session' = [session EXCEPT !.state = "expired"]
    /\ UNCHANGED <<case, client, buffered, toServer, toClient, calm, copies,
                   disturbed>>

Lose(p) ==
    /\ ~calm
    /\ \/ p \in toServer /\ toServer' = toServer \ {p} /\ UNCHANGED toClient
       \/ p \in toClient /\ toClient' = toClient \ {p} /\ UNCHANGED toServer
    /\ disturbed' = TRUE
    /\ UNCHANGED <<case, client, server, calm, copies>>

CalmDown == ~calm /\ calm' = TRUE /\ UNCHANGED <<case, client, server, toServer,
                                                 toClient, copies, disturbed>>

Next ==
    \/ Connect \/ Handshake
    \/ PongTimeout \/ ProbeTimeout \/ Reply2Timeout \/ LocalError
    \/ \E p \in toClient : ReceivePong(p) \/ ReceiveReply1(p) \/ ReceiveReply2(p)
    \/ \E p \in toServer : Arrive(p)
    \/ \E p \in buffered : Serve(p)
    \/ \E p \in toServer \cup toClient : Lose(p)
    \/ ExpireSession \/ CalmDown

Spec == Init /\ [][Next]_vars

(***************************************************************************)
(* Fairness: tokio runs connect(), its time-outs and the listener; what a  *)
(* calm network holds arrives; a failed connect() is called again, and     *)
(* a session the application leaves alone for long enough times out.       *)
(***************************************************************************)
Fairness ==
    /\ WF_vars(Connect) /\ WF_vars(Handshake)
    /\ WF_vars(PongTimeout) /\ WF_vars(ProbeTimeout) /\ WF_vars(Reply2Timeout)
    /\ WF_vars(\E p \in toClient : ReceivePong(p) \/ ReceiveReply1(p) \/ ReceiveReply2(p))
    /\ WF_vars(\E p \in toServer : Arrive(p))
    /\ WF_vars(\E p \in buffered : Serve(p))
    /\ WF_vars(ExpireSession) /\ WF_vars(CalmDown)

FairSpec == Spec /\ Fairness

-----------------------------------------------------------------------------
(***************************************************************************)
(* Properties.                                                             *)
(***************************************************************************)

Mtus == {OfferedMtu(probe_sizes[n]) : n \in 1 .. Len(probe_sizes)}

ToServerPackets ==
    {Packet("ping", 0)} \cup {Packet("request2", m) : m \in Mtus}
    \cup {Packet("request1", probe_sizes[n]) : n \in 1 .. Len(probe_sizes)}

ToClientPackets ==
    {Packet(t, 0) : t \in {"pong", "incompatible", "already"}}
    \cup {Packet(t, m) : t \in {"reply1", "reply2"}, m \in Mtus}

TypeOK ==
    /\ path \in Paths /\ compatible \in Versions
    /\ phase \in {"idle", "pong", "mtu", "reply2", "handshake", "connected", "refused"}
    /\ probe \in 0 .. Len(probe_sizes)
    /\ mtu \in Mtus \cup {0}
    /\ stream \in {"none", "Connecting", "Connected"}
    /\ toServer \subseteq ToServerPackets /\ buffered \subseteq ToServerPackets
    /\ toClient \subseteq ToClientPackets
    /\ session \in [state : {"none", "open", "expired"}, mtu : Mtus \cup {0}]
    /\ calm \in BOOLEAN /\ copies \in 0 .. MaxCopies /\ disturbed \in BOOLEAN

\* The largest message send_task sends in one frame, and the chunks into
\* which send_fragmented cuts a larger one.
max_single_frame_size(m) == m - 60
chunk_size(m) == m - 80

\* The largest datagram of a stream with this MTU, with the headers of IP and
\* UDP, of the datagram, of the frame and of the split.
LargestDatagram(m) ==
    LET headers == IpUdpHeaders + 4 + header_size(ReliableOrdered)
        single == headers + max_single_frame_size(m)
        fragment == headers + 10 + chunk_size(m)
    IN  IF single > fragment THEN single ELSE fragment

\* However replies are delayed, duplicated and mixed up between attempts, no
\* MTU that client or server settles on lets a stream send datagrams the path
\* would drop.
DatagramsFitPath ==
    /\ phase \in {"reply2", "handshake"} => LargestDatagram(mtu) =< path
    /\ session.state # "none" => LargestDatagram(session.mtu) =< path

\* connect() gives up only for a reason: a packet lost, duplicated or later
\* than a time-out, an error of its own socket, a path that drops the smallest
\* probe, or a server of another version.
FailsForAReason ==
    [][phase # "idle" /\ phase' = "idle" =>
        disturbed' \/ ~compatible \/ path < 576 + IpUdpHeaders]_vars

\* connect() never hangs: it is over at some time, with or without success.
ConnectReturns == phase = "pong" ~> phase \in {"idle", "connected", "refused"}

\* What earlier attempts have left behind (stale replies in the client's
\* socket, a session that swallows the client's packets) does not keep a
\* client out for ever: once the network is calm, an attempt gets through to
\* the handshake.
RetriesGetThrough ==
    compatible /\ path >= 576 + IpUdpHeaders ~> phase \in {"connected", "refused"}

\* "Returns a `RakNetStream` for bidirectional communication."
ConnectSucceeds == phase = "pong" ~> phase = "connected"
=============================================================================
