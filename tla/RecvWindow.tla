----------------------------- MODULE RecvWindow -----------------------------
(***************************************************************************)
(* The receive window of src/reliability/recv_window.rs: duplicate         *)
(* detection over the sequence numbers base_seq .. base_seq + WindowSize-1.*)
(*                                                                         *)
(* A window is a record.  The BitVec is the set of its set indices, and    *)
(* total_received, which the code only compares with zero, counts to 1.    *)
(* The duplicate and out-of-order statistics are left out.                 *)
(***************************************************************************)
EXTENDS Uint24, FiniteSets

CONSTANT WindowSize     \* max_size, 2048 in the code

ASSUME WindowSizeAssumption ==
    /\ WindowSize \in Nat \ {0}
    /\ WindowSize =< HalfSpace

WindowOffsets == 0 .. WindowSize - 1

RecvWindowType ==
    [received : SUBSET WindowOffsets,
     base_seq : u24,
     highest_seq : u24,
     total_received : {0, 1}]

EmptyWindow ==
    [received |-> {}, base_seq |-> 0, highest_seq |-> 0, total_received |-> 0]

\* Mutant: a far packet moves the base and leaves the bits.
SlideKeepsBits(w, new_seq) ==
    LET shift == wrapping_sub(new_seq, w.base_seq) IN
    IF shift = 0
    THEN w
    ELSE IF shift >= WindowSize
    THEN [w EXCEPT !.base_seq = wrapping_sub(new_seq, WindowSize \div 2)]
    ELSE [w EXCEPT !.received = {o - shift : o \in {p \in @ : p >= shift}},
                   !.base_seq = new_seq]

\* Mutant: the shift loses one bit too many.
SlideDropsBase(w, new_seq) ==
    LET shift == wrapping_sub(new_seq, w.base_seq) IN
    IF shift = 0
    THEN w
    ELSE IF shift >= WindowSize
    THEN [w EXCEPT !.received = {},
                   !.base_seq = wrapping_sub(new_seq, WindowSize \div 2)]
    ELSE [w EXCEPT !.received = {o - shift : o \in {p \in @ : p > shift + 1}},
                   !.base_seq = new_seq]

\* Past the end of the window everything is forgotten and the new sequence
\* number is put in the middle; a shorter slide keeps the overlapping bits.
SlideTo(w, new_seq) ==
    LET shift == wrapping_sub(new_seq, w.base_seq) IN
    IF shift = 0
    THEN w
    ELSE IF shift >= WindowSize
    THEN [w EXCEPT !.received = {},
                   !.base_seq = wrapping_sub(new_seq, WindowSize \div 2)]
    ELSE [w EXCEPT !.received = {o - shift : o \in {p \in @ : p >= shift}},
                   !.base_seq = new_seq]

\* Mutant: the numbers are compared as if the circle had no wrap.
TooOldPlain(w, seq) == seq < w.base_seq /\ w.total_received > 0

TooOld(w, seq) == seq_less_than(seq, w.base_seq) /\ w.total_received > 0

Highest(w, seq) ==
    IF seq_less_than(w.highest_seq, seq) THEN seq ELSE w.highest_seq

\* A sequence number past the window: slide, then set its bit.
MarkBeyond(w, seq) ==
    LET slid == SlideTo(w, seq)
        offset == wrapping_sub(seq, slid.base_seq)
    IN  IF offset >= WindowSize
        THEN [window |-> slid, verdict |-> "old"]
        ELSE [window |-> [slid EXCEPT !.received = @ \cup {offset},
                                      !.total_received = 1,
                                      !.highest_seq = Highest(w, seq)],
              verdict |-> "new"]

\* Mutant: a number seen before is accepted again.
MarkAgain(w, seq) ==
    LET offset == wrapping_sub(seq, w.base_seq) IN
    IF TooOld(w, seq)
    THEN [window |-> w, verdict |-> "old"]
    ELSE IF offset >= WindowSize
    THEN MarkBeyond(w, seq)
    ELSE [window |-> [w EXCEPT !.received = @ \cup {offset},
                               !.total_received = 1,
                               !.highest_seq = Highest(w, seq)],
          verdict |-> "new"]

\* Mutant: the number one past the window is taken for one inside.
MarkOnePast(w, seq) ==
    LET offset == wrapping_sub(seq, w.base_seq) IN
    IF TooOld(w, seq)
    THEN [window |-> w, verdict |-> "old"]
    ELSE IF offset > WindowSize
    THEN MarkBeyond(w, seq)
    ELSE IF offset \in w.received
    THEN [window |-> w, verdict |-> "duplicate"]
    ELSE [window |-> [w EXCEPT !.received = @ \cup {offset},
                               !.total_received = 1,
                               !.highest_seq = Highest(w, seq)],
          verdict |-> "new"]

\* mark_received: the new window, and Some(true), Some(false) or None as
\* "new", "duplicate" or "old".
MarkReceived(w, seq) ==
    LET offset == wrapping_sub(seq, w.base_seq) IN
    IF TooOld(w, seq)
    THEN [window |-> w, verdict |-> "old"]
    ELSE IF offset >= WindowSize
    THEN MarkBeyond(w, seq)
    ELSE IF offset \in w.received
    THEN [window |-> w, verdict |-> "duplicate"]
    ELSE [window |-> [w EXCEPT !.received = @ \cup {offset},
                               !.total_received = 1,
                               !.highest_seq = IF w.total_received = 0
                                               THEN seq ELSE Highest(w, seq)],
          verdict |-> "new"]

HasReceived(w, seq) ==
    /\ ~ seq_less_than(seq, w.base_seq)
    /\ wrapping_sub(seq, w.base_seq) \in w.received

\* Mutant: a gap at the base itself is not reported.
MissingAfterBase(w) ==
    LET reach == wrapping_sub(w.highest_seq, w.base_seq)
        end_offset == IF reach < WindowSize THEN reach ELSE WindowSize - 1
    IN  {wrapping_add(w.base_seq, o) :
            o \in {p \in 1 .. end_offset : p \notin w.received}}

\* The sequence numbers in base_seq .. highest_seq that are not marked.
GetMissing(w) ==
    LET reach == wrapping_sub(w.highest_seq, w.base_seq)
        end_offset == IF reach < WindowSize THEN reach ELSE WindowSize - 1
    IN  IF w.highest_seq = w.base_seq /\ w.total_received = 0
        THEN {}
        ELSE {wrapping_add(w.base_seq, o) :
                 o \in {p \in 0 .. end_offset : p \notin w.received}}

\* The length of the run of received numbers that starts at the base.
ContiguousRun(w) ==
    CHOOSE n \in 0 .. WindowSize :
        /\ \A o \in 0 .. n - 1 : o \in w.received
        /\ n < WindowSize => n \notin w.received

AdvanceBase(w) == SlideTo(w, wrapping_add(w.base_seq, ContiguousRun(w)))
=============================================================================
