-------------------------- MODULE RecvWindowModel ---------------------------
(***************************************************************************)
(* One receive window under any sequence of calls of its public methods,   *)
(* with any sequence number on the circle.  Two history variables say what *)
(* the caller was told:                                                    *)
(*   seen    the numbers accepted as new that the base has not passed      *)
(*   jumped  whether the window was ever reset by a slide of its own size  *)
(*           or more                                                       *)
(***************************************************************************)
EXTENDS RecvWindow

VARIABLES window, seen, jumped

vars == <<window, seen, jumped>>

Init ==
    /\ window = EmptyWindow
    /\ seen = {}
    /\ jumped = FALSE

\* What is left of a history once the base has moved to base.
NotPassed(S, base) == {s \in S : ~ seq_less_than(s, base)}

\* A slide of the window's size or more to new_seq.
Resets(new_seq) == wrapping_sub(new_seq, window.base_seq) >= WindowSize

Mark(seq) ==
    LET marked == MarkReceived(window, seq)
        accepted == IF marked.verdict = "new" THEN {seq} ELSE {}
    IN  /\ window' = marked.window
        /\ seen' = NotPassed(seen, window'.base_seq) \cup accepted
        /\ jumped' = (jumped \/ (seen # {} /\ accepted # {} /\ Resets(seq)))

Advance ==
    /\ window' = AdvanceBase(window)
    /\ seen' = NotPassed(seen, window'.base_seq)
    /\ jumped' = (jumped \/ ContiguousRun(window) = WindowSize)

Clear ==
    /\ window' = EmptyWindow
    /\ seen' = {}
    /\ jumped' = FALSE

Next ==
    \/ \E seq \in u24 : Mark(seq)
    \/ Advance
    \/ Clear

Spec == Init /\ [][Next]_vars

-----------------------------------------------------------------------------
TypeOK ==
    /\ window \in RecvWindowType
    /\ seen \subseteq u24
    /\ jumped \in BOOLEAN

\* No packet is dropped as a duplicate by mistake (mark_received returns
\* Some(false) only for a number it returned Some(true) for): however the
\* bits were shifted, reset or reused after a wraparound, a set bit stands
\* for a number that was accepted.
NeverFalseDuplicate ==
    \A s \in u24 : HasReceived(window, s) => s \in seen

\* Until the window is reset by a far packet, its memory is complete: no
\* accepted number the base has not passed is forgotten by slide_to's shift
\* of the bits, so no duplicate is accepted.
RemembersUntilReset ==
    ~ jumped => \A s \in seen : HasReceived(window, s)

\* Once anything has been received the base never moves back, so a number
\* refused as too old stays refused until the circle is walked round.  This
\* is slide_to, called by mark_received and advance_base.
BaseMovesForward ==
    [][window.total_received = 1 /\ window'.total_received = 1
         => ~ seq_less_than(window'.base_seq, window.base_seq)]_vars

\* While no reset has happened and highest_seq is a number that was seen,
\* get_missing never asks for a packet that has arrived and never misses a
\* gap below the highest number seen.
MissingAreTheGaps ==
    ~ jumped /\ window.highest_seq \in seen
      => GetMissing(window) =
            {s \in u24 : /\ ~ seq_less_than(s, window.base_seq)
                         /\ seq_less_than(s, window.highest_seq)
                         /\ s \notin seen}
=============================================================================
