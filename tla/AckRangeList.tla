---------------------------- MODULE AckRangeList ----------------------------
(***************************************************************************)
(* The list of acknowledged sequence numbers of src/reliability/ack.rs: a  *)
(* sequence of ranges [start, end], Single(s) being start = end.  insert   *)
(* keeps it sorted and merges neighbours; an ACK packet carries the ranges *)
(* one record each, and decode_ack_nack inserts every number of every      *)
(* record into a fresh list.                                               *)
(*                                                                         *)
(* Neighbours are compared in 32 bits, so the last number of the circle    *)
(* and 0 are not adjacent.                                                 *)
(***************************************************************************)
EXTENDS Uint24, SendQueue, Wire

AckRange == [start : u24, end : u24]

Single(seq) == [start |-> seq, end |-> seq]

InRange(range, seq) == seq_in_range(seq, range.start, range.end)

\* 1 + the position the code finds, or 0 for None.
InsertPosition(list, seq) ==
    SelectInSeq(list, LAMBDA r : InRange(r, seq) \/ r.start > seq)

CanMergeWithNext(range, seq) == range.end + 1 = seq

CanMergeWithPrev(range, seq) == seq + 1 = range.start

Extend(range, seq) ==
    IF CanMergeWithNext(range, seq) THEN [range EXCEPT !.end = seq]
                                    ELSE [range EXCEPT !.start = seq]

\* Mutant: two ranges that meet are left apart.
MergeNoSwallow(list, i, seq) == ReplaceAt(list, i, Extend(list[i], seq))

\* merge_at: extend the range at i, then swallow its successor if they meet.
MergeAt(list, i, seq) ==
    LET grown == Extend(list[i], seq) IN
    IF i < Len(list) /\ CanMergeWithNext(grown, list[i + 1].start)
    THEN RemoveAt(ReplaceAt(list, i, [grown EXCEPT !.end = list[i + 1].end]), i + 1)
    ELSE ReplaceAt(list, i, grown)

AckInsert(list, seq) ==
    LET pos == InsertPosition(list, seq)
        after == IF pos = 0 THEN Len(list) + 1 ELSE pos
    IN  IF pos # 0 /\ InRange(list[pos], seq)
        THEN list
        ELSE IF after > 1 /\ CanMergeWithNext(list[after - 1], seq)
        THEN MergeAt(list, after - 1, seq)
        ELSE IF pos # 0 /\ CanMergeWithPrev(list[pos], seq)
        THEN MergeAt(list, pos, seq)
        ELSE InsertAt(list, after, Single(seq))

\* The numbers first .. last, one after the other.
InsertRun(list, first, last) ==
    LET after[n \in 0 .. last - first + 1] ==
            IF n = 0 THEN list ELSE AckInsert(after[n - 1], first + n - 1)
    IN  after[last - first + 1]

\* Mutant: the first part of a wraparound range goes one too far.
InsertRecordTooFar(list, range) ==
    IF range.start =< range.end
    THEN InsertRun(list, range.start, range.end)
    ELSE InsertRun(InsertRun(list, range.start, SeqSpace), 0, range.end)

\* One record of decode_ack_nack, a wraparound range in two parts.
InsertRecord(list, range) ==
    IF range.start =< range.end
    THEN InsertRun(list, range.start, range.end)
    ELSE InsertRun(InsertRun(list, range.start, SeqSpace - 1), 0, range.end)

\* All the records of a packet, into a fresh list.
InsertRecords(records) ==
    LET after[n \in 0 .. Len(records)] ==
            IF n = 0 THEN <<>> ELSE InsertRecord(after[n - 1], records[n])
    IN  after[Len(records)]

-----------------------------------------------------------------------------
(***************************************************************************)
(* The ACK packet: its id, the number of records, and a record for each    *)
(* range, of type 1 for a single number and 0 for a range.                 *)
(***************************************************************************)
ID_ACK == 192
ID_NACK == 160

EncodeRange(range) ==
    IF range.start = range.end
    THEN <<1>> \o write_u24_le(range.start)
    ELSE <<0>> \o write_u24_le(range.start) \o write_u24_le(range.end)

encode_ack(list) ==
    <<ID_ACK>> \o put_u16(Len(list) % 65536)
    \o FlattenSeq([i \in DOMAIN list |-> EncodeRange(list[i])])

\* AckRange::decode, its result appended to the cursor's.
DecodeRange(c) ==
    LET tag == Read(Advance(c, 0, <<>>), <<Need(1), Bytes(1)>>)
        type == tag.out[1][1]
        body == IF type = 1 THEN Read(tag, <<Need(3), Bytes(3)>>)
                            ELSE Read(tag, <<Need(6), Bytes(3), Bytes(3)>>)
    IN  IF tag.status # "ok" THEN tag
        ELSE IF type \notin {0, 1} THEN Refuse(tag)
        ELSE IF body.status # "ok" THEN body
        ELSE Advance(body, 0, Append(c.out, [start |-> read_u24_le(body.out[2]),
                                             end   |-> read_u24_le(Last(body.out))]))

\* The loop over count records, which the first one that fails ends.
DecodeRecords(c, count) ==
    LET after[n \in 0 .. count] ==
            IF n = 0 THEN c
            ELSE IF after[n - 1].status = "ok" THEN DecodeRange(after[n - 1])
            ELSE after[n - 1]
    IN  after[count]

\* decode_ack_nack: the status, and the list its records add up to.
decode_ack_nack(data) ==
    LET header == Read(Cursor(data, 0), <<Need(1), Bytes(1), Need(2), Bytes(2)>>)
        records == DecodeRecords(Advance(header, 0, <<>>), get_u16(header.out[2]))
    IN  IF data = <<>> \/ Head(data) \notin {ID_ACK, ID_NACK}
        THEN [status |-> "error", list |-> <<>>]
        ELSE IF header.status # "ok"
        THEN [status |-> header.status, list |-> <<>>]
        ELSE IF records.status # "ok"
        THEN [status |-> records.status, list |-> <<>>]
        ELSE [status |-> "ok", list |-> InsertRecords(records.out)]

\* handle_ack of src/connection.rs, on a decoded list.
HandleAck(q, list) ==
    LET left[n \in 0 .. Len(list)] ==
            IF n = 0 THEN q
            ELSE IF list[n].start = list[n].end
            THEN acknowledge(left[n - 1], list[n].start)
            ELSE acknowledge_range(left[n - 1], list[n].start, list[n].end)
    IN  left[Len(list)]
=============================================================================
