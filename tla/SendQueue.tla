----------------------------- MODULE SendQueue ------------------------------
(***************************************************************************)
(* The queue of unacknowledged datagrams of src/reliability/send_queue.rs: *)
(* a map from sequence numbers to datagrams.  Send times and retry counts  *)
(* only decide when an entry expires, which the modules that use the queue *)
(* leave open; the statistics are left out.                                *)
(***************************************************************************)
EXTENDS Integers, Maps

CONSTANT SendQueueSize      \* max_size, 2048 in the code

ASSUME SendQueueSizeAssumption == SendQueueSize \in Nat

\* Mutant: the last place is never used.
FullTooEarly(q) == Size(q) + 1 >= SendQueueSize

IsFull(q) == Size(q) >= SendQueueSize

\* insert: a full queue refuses the packet (the code returns false).
QueueInsert(q, seq, packet) == IF IsFull(q) THEN q ELSE Put(q, seq, packet)

acknowledge(q, seq) == Without(q, {seq})

\* Mutant: the end of the range is left in the queue.
AcknowledgeHalfOpen(q, start, end) ==
    IF start =< end
    THEN Without(q, {s \in DOMAIN q : start =< s /\ s < end})
    ELSE Without(q, {s \in DOMAIN q : start =< s} \cup {s \in DOMAIN q : s < end})

\* acknowledge_range: start > end is a range that goes past the last number.
acknowledge_range(q, start, end) ==
    IF start =< end
    THEN Without(q, {s \in DOMAIN q : start =< s /\ s =< end})
    ELSE Without(q, {s \in DOMAIN q : start =< s} \cup {s \in DOMAIN q : s =< end})
=============================================================================
