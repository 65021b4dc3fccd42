----------------------------- MODULE PacketModel ----------------------------
(***************************************************************************)
(* What one endpoint writes and another reads: the ACK packet flushed from *)
(* an AckRangeList, the control packets, and datagrams of frames.          *)
(*                                                                         *)
(* list is an AckRangeList under any sequence of insertions: single        *)
(* numbers, as handle_datagram inserts them into pending_acks, and whole   *)
(* records, as decode_ack_nack inserts what a peer sent; inserted is the   *)
(* set of numbers it should stand for.  wire holds at most one packet and  *)
(* what went into it.  A packet may arrive cut short: by a receive buffer, *)
(* or because the peer sent less than it should.                           *)
(*                                                                         *)
(* Control packets and datagrams are written while the list is empty; they *)
(* have nothing to do with it.                                             *)
(***************************************************************************)
EXTENDS AckRangeList, Packets, Frames

CONSTANTS
    Integers8,          \* values of the 64-bit fields, as byte strings
    Integers2,          \* values of the 16-bit fields
    Integers1,          \* values of the 8-bit fields
    Addresses,          \* socket addresses
    Texts,              \* pong data
    Paddings,           \* sizes OpenConnectionRequest1 is padded to
    DatagramSeqs,       \* sequence numbers of datagrams
    FramesSent          \* the frames datagrams are made of, one or two each

IsBytes(s, n) == s \in Seq(Byte) /\ Len(s) = n

IsAddress(a) ==
    /\ a = [ip |-> a.ip, port |-> a.port]
    /\ IsBytes(a.ip, 4) \/ IsBytes(a.ip, 16)
    /\ IsBytes(a.port, 2)

\* The numbers write_u24_le writes in full.
u24_MAX == 16777215
ThreeBytes == 0 .. u24_MAX

\* The numbers put_u16 writes in full.
u16_MAX == 65535

IsSplit(split) ==
    /\ Len(split) = 3
    /\ split = <<split[1], split[2], split[3]>>
    /\ IsBytes(split[1], 4) /\ IsBytes(split[2], 2) /\ IsBytes(split[3], 4)

IsFrame(f) ==
    /\ f.reliability \in Reliability
    /\ f.message_index \in ThreeBytes
    /\ f.sequence_index \in ThreeBytes
    /\ f.order_index \in ThreeBytes
    /\ f.order_channel \in Byte
    /\ f.split = <<>> \/ IsSplit(f.split)
    /\ f.payload \in Seq(Byte)

ASSUME PacketAssumption ==
    /\ \A v \in Integers8 : IsBytes(v, 8)
    /\ \A v \in Integers2 : IsBytes(v, 2)
    /\ \A v \in Integers1 : IsBytes(v, 1)
    /\ \A a \in Addresses : IsAddress(a)
    /\ Texts \subseteq Seq(Byte)
    /\ Paddings \subseteq Nat
    /\ DatagramSeqs \subseteq ThreeBytes
    /\ \A f \in FramesSent : IsFrame(f)

VARIABLES list, inserted, wire

vars == <<list, inserted, wire>>

Init == list = <<>> /\ inserted = {} /\ wire = <<>>

InsertOne(seq) ==
    /\ wire = <<>>
    /\ list' = AckInsert(list, seq)
    /\ inserted' = inserted \cup {seq}
    /\ UNCHANGED wire

\* The numbers from start to end going up the circle.
Arc(start, end) ==
    {wrapping_add(start, i) : i \in 0 .. wrapping_sub(end, start)}

InsertRange(range) ==
    /\ wire = <<>>
    /\ list' = InsertRecord(list, range)
    /\ inserted' = inserted \cup Arc(range.start, range.end)
    /\ UNCHANGED wire

Sent(kind, args, bytes) == <<[kind |-> kind, args |-> args, bytes |-> bytes, whole |-> TRUE]>>

\* flush_acks replaces a non-empty list by a new one and sends it.
FlushAcks ==
    /\ list # <<>>
    /\ wire = <<>>
    /\ wire' = Sent("ack", inserted, encode_ack(list))
    /\ list' = <<>>
    /\ inserted' = {}

\* The values of the argument that an item of an encoder stands for; a
\* constant has none.
Values(item) ==
    CASE item.op = "const" -> {<<>>}
      [] item.op = "addr" -> Addresses
      [] item.op = "data" -> Texts
      [] item.op = "padding" -> Paddings
      [] item.op = "take" /\ item.n = 8 -> Integers8
      [] item.op = "take" /\ item.n = 2 -> Integers2
      [] item.op = "take" /\ item.n = 1 -> Integers1

\* What the encoder of a kind writes, item by item, for all its arguments.
Encode(kind) ==
    LET items == Packet[kind].write
        after[n \in 0 .. Len(items)] ==
            IF n = 0 THEN {[args |-> <<>>, bytes |-> <<Packet[kind].id>>]}
            ELSE {WriteItem(w, items[n], v) : w \in after[n - 1], v \in Values(items[n])}
    IN  after[Len(items)]

SendControl(kind) ==
    /\ wire = <<>> /\ list = <<>>
    /\ \E packet \in Encode(kind) : wire' = Sent(kind, packet.args, packet.bytes)
    /\ UNCHANGED <<list, inserted>>

SendDatagram(seq, frames) ==
    /\ wire = <<>> /\ list = <<>>
    /\ wire' = Sent("datagram", [seq |-> seq, frames |-> frames],
                    encode_datagram(seq, [i \in DOMAIN frames |-> EncodeFrame(frames[i])]))
    /\ UNCHANGED <<list, inserted>>

CutShort(n) ==
    /\ wire # <<>>
    /\ wire[1].whole
    /\ n < Len(wire[1].bytes)
    /\ wire' = <<[kind |-> wire[1].kind, args |-> wire[1].args,
                  bytes |-> SubSeq(wire[1].bytes, 1, n), whole |-> FALSE]>>
    /\ UNCHANGED <<list, inserted>>

Arrive ==
    /\ wire # <<>>
    /\ wire' = <<>>
    /\ UNCHANGED <<list, inserted>>

Next ==
    \/ \E seq \in u24 : InsertOne(seq)
    \/ \E range \in AckRange : InsertRange(range)
    \/ FlushAcks
    \/ \E kind \in Kinds : SendControl(kind)
    \/ \E seq \in DatagramSeqs : \E n \in {1, 2} : \E frames \in [1 .. n -> FramesSent] :
          SendDatagram(seq, frames)
    \/ \E n \in 0 .. (IF wire = <<>> THEN 0 ELSE Len(wire[1].bytes)) : CutShort(n)
    \/ Arrive

Spec == Init /\ [][Next]_vars

-----------------------------------------------------------------------------
TypeOK ==
    /\ list \in Seq(AckRange)
    /\ inserted \subseteq u24
    /\ \A i \in DOMAIN wire : wire[i].bytes \in Seq(Byte)

\* Each range starts at least two past the end of the one before it.
IsCompressed(l) ==
    /\ \A i \in DOMAIN l : l[i].start =< l[i].end
    /\ \A i \in 1 .. Len(l) - 1 : l[i].end + 1 < l[i + 1].start

\* The list is the shortest sorted one: whatever the order of arrival, insert
\* merged everything it could (its doc: "Automatically merges with adjacent
\* ranges") and never left two ranges that overlap.
Compressed == IsCompressed(list)

\* The numbers at which a run of consecutive numbers ends.
RunEnds(numbers) == {x \in numbers : x + 1 \notin numbers}

InFlight(kinds) == {i \in DOMAIN wire : wire[i].kind \in kinds}

\* The ACK packet flushed from the list makes the sender drop exactly the
\* datagrams that were received: handle_ack of the decoded bytes, on a queue
\* that tracks every sequence number, leaves those never inserted.  One more
\* would lose a datagram for good, one less would retransmit it.  A packet that
\* was cut short is refused.  The count of records is a u16, so the numbers
\* must form no more runs than it can tell.
AcknowledgesExactly ==
    LET everything == [s \in u24 |-> s] IN
    \A i \in InFlight({"ack"}) :
        \A decoded \in {decode_ack_nack(wire[i].bytes)} :
        Cardinality(RunEnds(wire[i].args)) =< u16_MAX =>
        IF wire[i].whole
        THEN /\ decoded.status = "ok"
             /\ HandleAck(everything, decoded.list) = Without(everything, wire[i].args)
        ELSE decoded.status = "error"

\* What the decoder of a kind should return.  OpenConnectionRequest1 carries
\* the MTU as its own length, so that the end of it may be missing.
IsReadBack(kind, args, data, whole, decoded) ==
    IF kind = "open_connection_request_1" /\ Len(data) >= 1 + 16 + 1
    THEN decoded.status = "ok" /\ decoded.out = <<args[1], Len(data) + 28>>
    ELSE IF whole
    THEN decoded.status = "ok" /\ decoded.out = args
    ELSE decoded.status = "error"

\* Every control packet is decoded to what was encoded, with IPv4 and with
\* IPv6 addresses; cut short anywhere it is refused; and no decoder takes a
\* packet of another kind for its own.
PacketsReadBack ==
    \A i \in InFlight(Kinds) :
        LET p == wire[i] IN
        /\ IsReadBack(p.kind, p.args, p.bytes, p.whole, Decode(p.kind, p.bytes))
        /\ \A other \in Kinds \ {p.kind} : Decode(other, p.bytes).status = "error"

\* The length checks come before the reads: no decoder, given any of the
\* packets or the beginning of one, reads past the end, where the bytes crate
\* panics and the task that reads the socket would die.
NeverReadsPastTheEnd ==
    \A i \in DOMAIN wire :
        LET data == wire[i].bytes IN
        /\ \A kind \in Kinds : Decode(kind, data).status # "panic"
        /\ decode_ack_nack(data).status # "panic"
        /\ DecodeFrames(decode_datagram(data).frames).status # "panic"

PartsSent(frames) == [i \in DOMAIN frames |-> Parts(frames[i])]

\* The frames the receiving endpoint handles for the datagram p.
FramesHandled(p) == Handled(DecodeFrames(decode_datagram(p.bytes).frames).frames)

\* Frames of every level, split or not, are as long as encoded_size says and
\* are decoded to what was encoded, as far as the datagram goes: for the
\* first sixteen datagrams of a connection, whose sequence number in front of
\* the frames reads as an empty frame.
FramesReadBack ==
    \A i \in InFlight({"datagram"}) :
        LET p == wire[i]
            sent == Handled(PartsSent(p.args.frames))
        IN  /\ \A j \in DOMAIN p.args.frames :
                  Len(EncodeFrame(p.args.frames[j])) = encoded_size(p.args.frames[j])
            /\ p.args.seq < 16 => IsPrefix(FramesHandled(p), sent)
            /\ p.args.seq < 16 /\ p.whole =>
                  /\ decode_datagram(p.bytes).seq = p.args.seq
                  /\ FramesHandled(p) = sent

\* The same for every datagram: what decode_datagram returns "contains one or
\* more encoded frames that need to be decoded separately using
\* Frame::decode()".
DatagramReadsBack ==
    \A i \in InFlight({"datagram"}) :
        wire[i].whole => FramesHandled(wire[i]) = Handled(PartsSent(wire[i].args.frames))
=============================================================================
