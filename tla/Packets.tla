------------------------------ MODULE Packets -------------------------------
(***************************************************************************)
(* The control packets of src/protocol/codec.rs.  For each one: what its   *)
(* encoder writes after the packet id, and the steps of its decoder with   *)
(* the length checks where the code has them.                              *)
(***************************************************************************)
EXTENDS Wire

\* What encoders write, in addition to Bytes, Addr and Data: constants.
Const(bytes) == [op |-> "const", bytes |-> bytes]
Padding == [op |-> "padding"]       \* zeros up to a size given as an argument

I64 == Bytes(8)
U16 == Bytes(2)
U8 == Bytes(1)
Magic == Const(MAGIC)
NoEncryption == Const(<<0>>)

\* The ten internal addresses, all 0.0.0.0:0.
NoAddress == [ip |-> Zeros(4), port |-> Zeros(2)]
InternalAddresses == [i \in 1 .. 10 |-> Const(write_address(NoAddress))]
SkipInternalAddresses == [i \in 1 .. 10 |-> UnusedAddr]

UnconnectedPing ==
    [id |-> 1,
     write |-> <<I64, Magic, I64>>,
     read |-> <<Need(1 + 8 + 16 + 8), Id(1), I64, MagicAt(9), I64>>]

\* Mutant: the length check forgets the length of the pong data.
UnconnectedPongShort ==
    [id |-> 28,
     write |-> <<I64, I64, Magic, Data>>,
     read |-> <<Need(1 + 8 + 8 + 16), Id(28), I64, I64, MagicAt(17), Data>>]

UnconnectedPong ==
    [id |-> 28,
     write |-> <<I64, I64, Magic, Data>>,
     read |-> <<Need(1 + 8 + 8 + 16 + 2), Id(28), I64, I64, MagicAt(17), Data>>]

OpenConnectionRequest1 ==
    [id |-> 5,
     write |-> <<Magic, U8, Padding>>,
     read |-> <<Need(1 + 16 + 1), Id(5), MagicAt(1), U8, Length>>]

OpenConnectionReply1 ==
    [id |-> 6,
     write |-> <<Magic, I64, NoEncryption, U16>>,
     read |-> <<Need(1 + 16 + 8 + 1 + 2), Id(6), MagicAt(1), I64, Unused(1), U16>>]

OpenConnectionRequest2 ==
    [id |-> 7,
     write |-> <<Magic, Addr, U16, I64>>,
     read |-> <<Need(1 + 16), Id(7), MagicAt(1), Addr, Need(2 + 8), U16, I64>>]

OpenConnectionReply2 ==
    [id |-> 8,
     write |-> <<Magic, I64, Addr, U16, NoEncryption>>,
     read |-> <<Need(1 + 16 + 8), Id(8), MagicAt(1), I64, Addr, Need(2 + 1), U16, Unused(1)>>]

ConnectionRequest ==
    [id |-> 9,
     write |-> <<I64, I64, NoEncryption>>,
     read |-> <<Need(1 + 8 + 8 + 1), Id(9), I64, I64, Unused(1)>>]

ConnectionRequestAccepted ==
    [id |-> 16,
     write |-> <<Addr, Const(Zeros(2))>> \o InternalAddresses \o <<I64, I64>>,
     read |-> <<Need(1 + 7), Id(16), Addr, Need(2), Unused(2)>>
              \o SkipInternalAddresses \o <<Need(8 + 8), I64, I64>>]

NewIncomingConnection ==
    [id |-> 19,
     write |-> <<Addr>> \o InternalAddresses \o <<I64, I64>>,
     read |-> <<Need(1 + 7), Id(19), Addr>>
              \o SkipInternalAddresses \o <<Need(8 + 8), I64, I64>>]

ConnectedPing ==
    [id |-> 0, write |-> <<I64>>, read |-> <<Need(1 + 8), Id(0), I64>>]

ConnectedPong ==
    [id |-> 3, write |-> <<I64, I64>>, read |-> <<Need(1 + 8 + 8), Id(3), I64, I64>>]

DisconnectNotification ==
    [id |-> 21, write |-> <<>>, read |-> <<Need(1), Id(21)>>]

Packet ==
    [unconnected_ping            |-> UnconnectedPing,
     unconnected_pong            |-> UnconnectedPong,
     open_connection_request_1   |-> OpenConnectionRequest1,
     open_connection_reply_1     |-> OpenConnectionReply1,
     open_connection_request_2   |-> OpenConnectionRequest2,
     open_connection_reply_2     |-> OpenConnectionReply2,
     connection_request          |-> ConnectionRequest,
     connection_request_accepted |-> ConnectionRequestAccepted,
     new_incoming_connection     |-> NewIncomingConnection,
     connected_ping              |-> ConnectedPing,
     connected_pong              |-> ConnectedPong,
     disconnect_notification     |-> DisconnectNotification]

Kinds == DOMAIN Packet

-----------------------------------------------------------------------------
\* What is written for an item and its argument, behind n bytes.
ItemBytes(item, arg, n) ==
    CASE item.op = "const" -> item.bytes
      [] item.op = "take" -> arg
      [] item.op = "addr" -> write_address(arg)
      [] item.op = "data" -> put_u16(Len(arg) % 65536) \o arg
      [] item.op = "padding" -> Zeros(IF arg > n THEN arg - n ELSE 0)

\* One item of an encoder; w holds the arguments and the bytes so far.
WriteItem(w, item, arg) ==
    [args  |-> IF item.op = "const" THEN w.args ELSE Append(w.args, arg),
     bytes |-> w.bytes \o ItemBytes(item, arg, Len(w.bytes))]

Decode(kind, data) == Read(Cursor(data, 0), Packet[kind].read)
=============================================================================
