------------------------------- MODULE Frames -------------------------------
(***************************************************************************)
(* Frames (src/protocol/frame.rs), with the indices that their level puts  *)
(* into the header, and the datagrams that carry them                      *)
(* (src/protocol/codec.rs).                                                *)
(*                                                                         *)
(* A decoded frame is given by its parts in the order of the wire: flags,  *)
(* length, the indices its level uses, the split information and the       *)
(* payload, which comes last.                                              *)
(***************************************************************************)
EXTENDS Levels, Wire

\* parts if the condition holds, nothing otherwise.
Optional(condition, parts) == IF condition THEN parts ELSE <<>>

\* (payload.len() * 8) as u16
length_bits(payload) == (Len(payload) * 8) % 65536

\* split is <<>> or the byte strings <<count, id, index>>.
Parts(f) ==
    << <<f.reliability * 32 + (IF f.split = <<>> THEN 0 ELSE 16)>>,
       put_u16(length_bits(f.payload)) >>
    \o Optional(is_reliable(f.reliability), <<write_u24_le(f.message_index)>>)
    \o Optional(is_sequenced(f.reliability), <<write_u24_le(f.sequence_index)>>)
    \o Optional(is_ordered(f.reliability),
                <<write_u24_le(f.order_index), <<f.order_channel>>>>)
    \o f.split
    \o <<f.payload>>

EncodeFrame(f) == FlattenSeq(Parts(f))

encoded_size(f) ==
    header_size(f.reliability) + (IF f.split = <<>> THEN 0 ELSE 10) + Len(f.payload)

\* Mutant: a sequence index is looked for in ordered frames.
IndexStepsSwapped(flags) ==
    LET level == flags \div 32 IN
    Optional(is_reliable(level), <<Need(3), Bytes(3)>>)
    \o Optional(is_ordered(level), <<Need(3), Bytes(3)>>)
    \o Optional(is_ordered(level), <<Need(4), Bytes(3), Bytes(1)>>)
    \o Optional((flags \div 16) % 2 = 1, <<Need(10), Bytes(4), Bytes(2), Bytes(4)>>)

\* What is read between the length and the payload.
IndexSteps(flags) ==
    LET level == flags \div 32 IN
    Optional(is_reliable(level), <<Need(3), Bytes(3)>>)
    \o Optional(is_sequenced(level), <<Need(3), Bytes(3)>>)
    \o Optional(is_ordered(level), <<Need(4), Bytes(3), Bytes(1)>>)
    \o Optional((flags \div 16) % 2 = 1, <<Need(10), Bytes(4), Bytes(2), Bytes(4)>>)

\* Frame::decode from position at.  length_bits + 7 wraps in 16 bits, as in a
\* release build; with overflow checks it would panic above 65528 bits.
DecodeFrame(data, at) ==
    LET header == Read(Cursor(data, at), <<Need(3), Bytes(1), Bytes(2)>>)
        flags == header.out[1][1]
        length == ((get_u16(header.out[2]) + 7) % 65536) \div 8
    IN  IF header.status # "ok" THEN header
        ELSE IF flags \div 32 \notin Reliability THEN Refuse(header)
        ELSE Read(header, IndexSteps(flags) \o <<Need(length), Bytes(length)>>)

\* One turn of the frame loop of handle_datagram, which ends with the data or
\* at the first frame that fails.
NextFrame(data, loop) ==
    LET frame == DecodeFrame(data, loop.at) IN
    IF loop.status # "ok" \/ loop.at = Len(data)
    THEN loop
    ELSE [status |-> frame.status,
          at     |-> frame.at,
          frames |-> IF frame.status = "ok" THEN Append(loop.frames, frame.out)
                                            ELSE loop.frames]

\* The frames decoded, and how the loop ended.  A frame takes a byte at least.
DecodeFrames(data) ==
    LET after[n \in 0 .. Len(data)] ==
            IF n = 0 THEN [status |-> "ok", at |-> 0, frames |-> <<>>]
                     ELSE NextFrame(data, after[n - 1])
    IN  after[Len(data)]

-----------------------------------------------------------------------------
\* BIT_FLAG_DATAGRAM | BIT_FLAG_VALID, and the three tests on the first byte.
DatagramId == 132

Bit(byte, weight) == (byte \div weight) % 2 = 1

is_datagram(id) == Bit(id, 128) /\ ~ Bit(id, 64) /\ ~ Bit(id, 32)

is_ack(id) == Bit(id, 128) /\ Bit(id, 64)

is_nack(id) == Bit(id, 128) /\ Bit(id, 32) /\ ~ Bit(id, 64)

encode_datagram(seq, frames) ==
    <<DatagramId>> \o write_u24_le(seq) \o FlattenSeq(frames)

\* read_u24_le takes a plain slice and moves nothing on: the frame data still
\* begins with the sequence number.
decode_datagram(data) ==
    IF Len(data) < 4 \/ ~ is_datagram(data[1])
    THEN [status |-> "error", seq |-> 0, frames |-> <<>>]
    ELSE [status |-> "ok", seq |-> read_u24_le(SubSeq(data, 2, 4)),
          frames |-> SubSeq(data, 2, Len(data))]

\* handle_frame skips a frame with an empty payload.
HandleFrame(handled, parts) ==
    IF Last(parts) = <<>> THEN handled ELSE Append(handled, parts)

\* The frames that are handled, one after the other.
Handled(frames) ==
    LET after[n \in 0 .. Len(frames)] ==
            IF n = 0 THEN <<>> ELSE HandleFrame(after[n - 1], frames[n])
    IN  after[Len(frames)]
=============================================================================
