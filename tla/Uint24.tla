------------------------------- MODULE Uint24 -------------------------------
(***************************************************************************)
(* The 24-bit counters of src/protocol/uint24.rs: datagram sequence        *)
(* numbers, message indices and order indices.  The code's modulus is      *)
(* 2^24; here it is 2 * HalfSpace so that TLC can walk round a small       *)
(* circle and TLAPS can reason about a circle of any size.                 *)
(*                                                                         *)
(* Masking with 0x00FFFFFF is reduction modulo SeqSpace.  The arguments    *)
(* below are already reduced, so one conditional correction is enough, and *)
(* stays linear for the provers.  RecvWindowProofs shows that they agree.  *)
(***************************************************************************)
EXTENDS Integers

CONSTANT HalfSpace      \* 2^23 in the code: bit 23 is the sign of a difference

ASSUME HalfSpaceAssumption == HalfSpace \in Nat \ {0, 1}

SeqSpace == 2 * HalfSpace

u24 == 0 .. SeqSpace - 1

wrapping_add(a, n) == IF a + n < SeqSpace THEN a + n ELSE a + n - SeqSpace

wrapping_sub(a, n) == IF a >= n THEN a - n ELSE a - n + SeqSpace

\* A difference of half the circle or more is negative in 24 bits.
seq_less_than(a, b) == wrapping_sub(a, b) >= HalfSpace

seq_in_range(s, start, end) ==
    IF start =< end THEN s >= start /\ s =< end
                    ELSE s >= start \/ s =< end
=============================================================================
