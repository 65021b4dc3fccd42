--------------------------- MODULE OrderedChannel ---------------------------
(***************************************************************************)
(* One ordered channel of src/reliability/ordered.rs: the next index to    *)
(* deliver, and the packets that arrived ahead of it.                      *)
(*                                                                         *)
(* next_index is a u32 and never reaches 2^32 here.  The indices inserted  *)
(* are 24-bit, so the drain loop ends at SeqSpace at the latest.           *)
(***************************************************************************)
EXTENDS Uint24, Maps, Sequences

CONSTANT ChannelSize        \* max_queue_size, 256 in the code

ASSUME ChannelSizeAssumption == ChannelSize \in Nat

\* A channel whose packets are in V.
IsChannel(c, V) ==
    /\ c = [next_index |-> c.next_index, queue |-> c.queue]
    /\ c.next_index \in 0 .. SeqSpace
    /\ IsMap(c.queue, u24, V)

EmptyChannel == [next_index |-> 0, queue |-> EmptyMap]

\* The first index after n that is not queued: where the drain loop stops.
FirstGap(queue, n) ==
    CHOOSE gap \in n + 1 .. SeqSpace :
        /\ gap \notin DOMAIN queue
        /\ n + 1 .. gap - 1 \subseteq DOMAIN queue

\* Mutant: the next index moves on by one only.
DrainCountsOne(c, data) ==
    LET gap == FirstGap(c.queue, c.next_index) IN
    [channel |-> [next_index |-> c.next_index + 1,
                  queue |-> Without(c.queue, c.next_index + 1 .. gap - 1)],
     ready   |-> [i \in 1 .. gap - c.next_index |->
                    IF i = 1 THEN data ELSE c.queue[c.next_index + i - 1]]]

\* The expected packet is delivered with the run of queued ones behind it.
Drain(c, data) ==
    LET gap == FirstGap(c.queue, c.next_index) IN
    [channel |-> [next_index |-> gap,
                  queue |-> Without(c.queue, c.next_index + 1 .. gap - 1)],
     ready   |-> [i \in 1 .. gap - c.next_index |->
                    IF i = 1 THEN data ELSE c.queue[c.next_index + i - 1]]]

\* A packet that is ahead waits, if there is room; otherwise it is dropped.
Park(c, order_index, data) ==
    [channel |-> IF Size(c.queue) < ChannelSize
                 THEN [c EXCEPT !.queue = Put(@, order_index, data)]
                 ELSE c,
     ready   |-> <<>>]

\* Mutant: an old packet is handed out again.
ChannelRepeatsOld(c, order_index, data) ==
    IF order_index = c.next_index
    THEN Drain(c, data)
    ELSE IF order_index > c.next_index
    THEN Park(c, order_index, data)
    ELSE [channel |-> c, ready |-> <<data>>]

\* Mutant: a packet that is ahead is dropped.
ChannelDropsAhead(c, order_index, data) ==
    IF order_index = c.next_index
    THEN Drain(c, data)
    ELSE [channel |-> c, ready |-> <<>>]

ChannelInsert(c, order_index, data) ==
    IF order_index = c.next_index
    THEN Drain(c, data)
    ELSE IF order_index > c.next_index
    THEN Park(c, order_index, data)
    ELSE [channel |-> c, ready |-> <<>>]
=============================================================================
