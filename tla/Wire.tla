-------------------------------- MODULE Wire --------------------------------
(***************************************************************************)
(* Reading and writing packets byte by byte.  A packet is a sequence of    *)
(* numbers 0 .. 255.  An integer that the codec only copies (a timestamp,  *)
(* a GUID, a port) is its byte string; one it computes with (a length, a   *)
(* sequence number) is converted.                                          *)
(*                                                                         *)
(* A decoder is a sequence of steps on a cursor: the bytes, the position   *)
(* reached and the values read so far.  The get and advance methods of the *)
(* bytes crate panic when they run past the end, and so does slicing:      *)
(* what keeps the decoders from it is their own length checks, the steps   *)
(* Need(n).                                                                *)
(***************************************************************************)
EXTENDS Integers, SequencesExt

Byte == 0 .. 255

Zeros(n) == [i \in 1 .. n |-> 0]

\* put_u16 and get_u16, big-endian.
put_u16(n) == <<(n \div 256) % 256, n % 256>>

get_u16(bytes) == bytes[1] * 256 + bytes[2]

write_u24_le(n) == <<n % 256, (n \div 256) % 256, (n \div 65536) % 256>>

read_u24_le(bytes) == bytes[1] + 256 * bytes[2] + 65536 * bytes[3]

MAGIC == <<0, 255, 255, 0, 254, 254, 254, 254, 253, 253, 253, 253, 18, 52, 86, 120>>

check_magic(data, offset) ==
    /\ Len(data) >= offset + Len(MAGIC)
    /\ SubSeq(data, offset + 1, offset + Len(MAGIC)) = MAGIC

-----------------------------------------------------------------------------
Cursor(data, at) == [status |-> "ok", data |-> data, at |-> at, out |-> <<>>]

Remaining(c) == Len(c.data) - c.at

Stop(c, status) == [status |-> status, data |-> c.data, at |-> c.at, out |-> c.out]

Refuse(c) == Stop(c, "error")

\* n bytes further on, with out read.
Advance(c, n, out) == [status |-> c.status, data |-> c.data, at |-> c.at + n, out |-> out]

\* get_u8, get_u16, get_i64, copy_to_slice: the next n bytes, or a panic.
NextBytes(c, n) == SubSeq(c.data, c.at + 1, c.at + n)

Take(c, n) ==
    IF Remaining(c) < n THEN Stop(c, "panic")
                        ELSE Advance(c, n, Append(c.out, NextBytes(c, n)))

Skip(c, n) ==
    IF Remaining(c) < n THEN Stop(c, "panic")
                        ELSE Advance(c, n, c.out)

-----------------------------------------------------------------------------
(***************************************************************************)
(* Addresses: an IPv4 address goes out with its bytes inverted, an IPv6    *)
(* one as it is.                                                           *)
(***************************************************************************)

Inverted(bytes) == [i \in DOMAIN bytes |-> 255 - bytes[i]]

write_address(addr) ==
    IF Len(addr.ip) = 4 THEN <<4>> \o Inverted(addr.ip) \o addr.port
                        ELSE <<6>> \o addr.ip \o addr.port

\* The address of n bytes behind the version byte.
AddressBody(c, n) ==
    IF Remaining(c) < 1 + n + 2
    THEN Refuse(c)
    ELSE LET ip == SubSeq(c.data, c.at + 2, c.at + 1 + n)
             port == SubSeq(c.data, c.at + 2 + n, c.at + 3 + n)
         IN  Advance(c, 1 + n + 2,
                     Append(c.out, [ip   |-> IF n = 4 THEN Inverted(ip) ELSE ip,
                                    port |-> port]))

\* Mutant: the bytes of an IPv4 address are not inverted back.
ReadAddressPlain(c) ==
    IF Remaining(c) < 1 THEN Refuse(c)
    ELSE IF c.data[c.at + 1] = 4 THEN
        LET r == AddressBody(c, 4) IN
        IF r.status # "ok" THEN r
        ELSE [r EXCEPT !.out[Len(r.out)].ip = Inverted(@)]
    ELSE IF c.data[c.at + 1] = 6 THEN AddressBody(c, 16)
    ELSE Refuse(c)

read_address(c) ==
    IF Remaining(c) < 1 THEN Refuse(c)
    ELSE IF c.data[c.at + 1] = 4 THEN AddressBody(c, 4)
    ELSE IF c.data[c.at + 1] = 6 THEN AddressBody(c, 16)
    ELSE Refuse(c)

-----------------------------------------------------------------------------
(***************************************************************************)
(* The steps a decoder is made of.                                         *)
(***************************************************************************)

Need(n) == [op |-> "need", n |-> n]         \* refuse if fewer than n bytes are left
Id(id) == [op |-> "id", n |-> id]           \* refuse if the next byte is not id
MagicAt(k) == [op |-> "magic", n |-> k]     \* check_magic(data, k), advance(16)
Bytes(n) == [op |-> "take", n |-> n]        \* an integer of n bytes, or a slice
Unused(n) == [op |-> "skip", n |-> n]       \* an integer read and dropped
Addr == [op |-> "addr", n |-> 0]
UnusedAddr == [op |-> "unused_addr", n |-> 0]
Data == [op |-> "data", n |-> 0]            \* a u16 length and as many bytes
Length == [op |-> "length", n |-> 28]       \* (data.len() + 28) as u16

ReadData(c) ==
    LET size == Take(c, 2)
        n == get_u16(Last(size.out))
    IN  IF size.status # "ok" THEN size
        ELSE IF Remaining(size) < n THEN Refuse(c)
        ELSE Take(Advance(size, 0, c.out), n)

ReadStep(c, s) ==
    IF c.status # "ok" THEN c
    ELSE CASE s.op = "need" -> IF Remaining(c) < s.n THEN Refuse(c) ELSE c
           [] s.op = "id" -> IF Remaining(c) < 1 THEN Skip(c, 1)
                             ELSE IF c.data[c.at + 1] # s.n THEN Refuse(c) ELSE Skip(c, 1)
           [] s.op = "magic" -> IF check_magic(c.data, s.n) THEN Skip(c, 16) ELSE Refuse(c)
           [] s.op = "take" -> Take(c, s.n)
           [] s.op = "skip" -> Skip(c, s.n)
           [] s.op = "addr" -> read_address(c)
           [] s.op = "unused_addr" -> Advance(read_address(c), 0, c.out)
           [] s.op = "data" -> ReadData(c)
           [] s.op = "length" -> Advance(c, 0, Append(c.out, (Len(c.data) + s.n) % 65536))

\* The cursor after all the steps, or where the first one failed.
Read(cursor, steps) ==
    LET after[n \in 0 .. Len(steps)] ==
            IF n = 0 THEN cursor ELSE ReadStep(after[n - 1], steps[n])
    IN  after[Len(steps)]
=============================================================================
