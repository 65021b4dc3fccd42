-------------------------- MODULE ReliableOrdered ---------------------------
(***************************************************************************)
(* What src/reliability/levels.rs promises of Reliability::ReliableOrdered,*)
(* the level every application message is sent with: "Guaranteed to arrive *)
(* in the order sent".  Messages are handed over one by one, until the     *)
(* stream breaks; the receiving application has always read a prefix of    *)
(* what was handed over, and each step gives it one or more of the messages*)
(* that follow, also after a break.                                        *)
(***************************************************************************)
EXTENDS Naturals, Sequences

CONSTANT Messages       \* the sequence of messages to be sent

VARIABLES submitted, broken, delivered

vars == <<submitted, broken, delivered>>

Init == submitted = 0 /\ broken = FALSE /\ delivered = <<>>

Submit ==
    /\ ~broken
    /\ submitted < Len(Messages)
    /\ submitted' = submitted + 1
    /\ UNCHANGED <<broken, delivered>>

\* Nothing is handed over any more.
Break ==
    /\ ~broken
    /\ broken' = TRUE
    /\ UNCHANGED <<submitted, delivered>>

\* The messages after those already read, up to the n-th.
Deliver ==
    /\ \E n \in Len(delivered) + 1 .. submitted :
          delivered' = [i \in 1 .. n |-> Messages[i]]
    /\ UNCHANGED <<submitted, broken>>

Next == Submit \/ Break \/ Deliver

Spec == Init /\ [][Next]_vars

FairSpec == Spec /\ WF_vars(Submit) /\ WF_vars(Deliver)
=============================================================================
