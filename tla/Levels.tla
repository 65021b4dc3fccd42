------------------------------- MODULE Levels -------------------------------
(***************************************************************************)
(* The reliability levels (src/reliability/levels.rs), which decide the    *)
(* indices that the header of a frame holds.                               *)
(***************************************************************************)
EXTENDS Integers

Unreliable == 0
UnreliableSequenced == 1
Reliable == 2
ReliableOrdered == 3
ReliableSequenced == 4

Reliability == 0 .. 4

is_reliable(level) == level \in {Reliable, ReliableOrdered, ReliableSequenced}

is_sequenced(level) == level \in {UnreliableSequenced, ReliableSequenced}

is_ordered(level) == level \in {ReliableOrdered, ReliableSequenced}

header_size(level) ==
    3 + (IF is_reliable(level) THEN 3 ELSE 0) + (IF is_sequenced(level) THEN 3 ELSE 0)
      + (IF is_ordered(level) THEN 4 ELSE 0)
=============================================================================
