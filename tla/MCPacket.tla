------------------------------ MODULE MCPacket ------------------------------
(***************************************************************************)
(* Packets for model-checking PacketModel.  The byte strings are chosen so *)
(* that a field read from the wrong place is told apart.                   *)
(***************************************************************************)
EXTENDS PacketModel

CountUp(first, n) == [i \in 1 .. n |-> first + i - 1]

TwoInt64 == {CountUp(1, 8), CountUp(248, 8)}
TwoInt16 == {<<5, 220>>, <<255, 255>>}
OneInt8 == {<<11>>}

IPv4And6 == {[ip |-> CountUp(1, 4), port |-> <<74, 188>>],
             [ip |-> CountUp(21, 16), port |-> <<74, 188>>]}

EmptyOrNot == {<<>>, CountUp(77, 3)}

\* Shorter than the header of the packet, just as long, and longer.
PaddedTo == {0, 18, 40}

\* The last number read as sent, and the first of each way to misread.
EdgeSeqs == {0, 15, 16, 32, 64, 160, 256}

SplitOrNot == {<<>>, <<CountUp(1, 4), CountUp(5, 2), CountUp(7, 4)>>}

EveryFrame ==
    [reliability : Reliability, message_index : {5}, sequence_index : {300},
     order_index : {70000}, order_channel : {3}, split : SplitOrNot,
     payload : {<<>>, <<254, 1>>}]
=============================================================================
