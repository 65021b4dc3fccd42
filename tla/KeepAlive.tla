----------------------------- MODULE KeepAlive ------------------------------
(***************************************************************************)
(* Keep-alive of an idle connection: tick_task, its pings and the time-out *)
(* (src/connection.rs), and the smoothed round-trip time the time-out      *)
(* depends on (src/state/metrics.rs).                                      *)
(*                                                                         *)
(* Time is in milliseconds and passes in steps of one tick; packets arrive *)
(* before or after the tick of the same time.  The model starts when the   *)
(* last packet of the login has come and the state is Connected, at any    *)
(* place between two pings, and stops when the state is Disconnected.  The *)
(* peer is external: it answers every ping after one of RoundTrips, sends  *)
(* packets of its own if Chatty, and may die; the network loses up to      *)
(* MaxLost pings or pongs.                                                 *)
(*                                                                         *)
(* What tick_task does besides (ACKs, retransmission, expiry of fragments) *)
(* is in Link, and the end of the tasks in Session.  The entry of a ping   *)
(* whose pong is lost stays in pending_pings for ever, but nothing looks   *)
(* it up: pending leaves it out.                                           *)
(***************************************************************************)
EXTENDS Integers, FiniteSets

CONSTANTS
    Tick,               \* interval(Duration::from_millis(100))
    PingEvery,          \* ticks between two pings, 50
    InitialRtt,         \* 300 ms
    RoundTrips,         \* the times a ping and its pong may take
    MaxLost,            \* bound: pings and pongs lost
    Chatty              \* whether the peer sends packets of its own

\* Round trips are whole ticks and shorter than the time between two pings.
ASSUME KeepAliveAssumption ==
    /\ Tick \in Nat \ {0} /\ PingEvery \in Nat \ {0}
    /\ InitialRtt \in Nat
    /\ RoundTrips \subseteq Nat \ {0} /\ RoundTrips # {} /\ IsFiniteSet(RoundTrips)
    /\ \A r \in RoundTrips : r % Tick = 0 /\ r < Tick * PingEvery
    /\ MaxLost \in Nat /\ Chatty \in BOOLEAN

\* The network is regular enough for the margin of the time-out: the first
\* round trip is at most twice the initial estimate, and round trips vary by
\* at most twice the least estimate.
ASSUME RegularAssumption ==
    \A r, s \in RoundTrips :
        r =< 2 * InitialRtt /\ r - s =< 2 * s /\ r - s =< 2 * InitialRtt

VARIABLES
    state,              \* SharedState.state
    counter,            \* ping_counter, modulo PingEvery
    rtt,                \* ConnectionMetrics.rtt
    silent,             \* time_since_last_recv
    pending,            \* pending_pings: the age of each, and when its pong comes
    rx,                 \* receive_task: waiting, or about to record_recv
    ticked,             \* the tick of this time is over
    alive,              \* the peer has not died
    dead_for,           \* history: for how long it is dead
    lost                \* history: pings and pongs lost

vars == <<state, counter, rtt, silent, pending, rx, ticked, alive, dead_for, lost>>

Init ==
    /\ state = "Connected"
    /\ counter \in 0 .. PingEvery - 1
    /\ rtt = InitialRtt /\ silent = 0
    /\ pending = {} /\ rx = "wait" /\ ticked = TRUE
    /\ alive = TRUE /\ dead_for = 0 /\ lost = 0

-----------------------------------------------------------------------------
(***************************************************************************)
(* ConnectionMetrics.                                                      *)
(***************************************************************************)

\* Mutant: the old value keeps its full weight.
UpdateRttHeavy(sample) == rtt' = (rtt * 8 + sample) \div 8

update_rtt(sample) == rtt' = (rtt * 7 + sample) \div 8

\* 5 s, the time between two pings.
BaseTimeout == Tick * PingEvery

\* Mutant: the estimate counts once.
TimedOutHalfMargin == silent > BaseTimeout + rtt

\* Mutant: never.
NeverTimedOut == silent > BaseTimeout + 2 * rtt + silent

is_timed_out == silent > BaseTimeout + 2 * rtt

-----------------------------------------------------------------------------
(***************************************************************************)
(* tick_task.                                                              *)
(***************************************************************************)

\* send_keepalive_ping.  A dead peer does not answer.
SendPing ==
    \/ /\ alive
       /\ \E r \in RoundTrips : pending' = pending \cup {[age |-> 0, comes |-> r]}
       /\ UNCHANGED lost
    \/ /\ alive /\ lost < MaxLost
       /\ lost' = lost + 1
       /\ UNCHANGED pending
    \/ ~alive /\ UNCHANGED <<pending, lost>>

\* Mutant: a ping that is sent counts as one that is received.
TickResetsSilence ==
    /\ ~ticked /\ state = "Connected"
    /\ ticked' = TRUE
    /\ counter' = (counter + 1) % PingEvery
    /\ \/ is_timed_out /\ state' = "Disconnected" /\ UNCHANGED <<pending, lost, silent>>
       \/ /\ ~is_timed_out
          /\ IF counter' = 0 THEN SendPing /\ silent' = 0
                             ELSE UNCHANGED <<pending, lost, silent>>
          /\ UNCHANGED state
    /\ UNCHANGED <<rtt, rx, alive, dead_for>>

TickTask ==
    /\ ~ticked /\ state = "Connected"
    /\ ticked' = TRUE
    /\ counter' = (counter + 1) % PingEvery
    /\ \/ is_timed_out /\ state' = "Disconnected" /\ UNCHANGED <<pending, lost>>
       \/ /\ ~is_timed_out
          /\ IF counter' = 0 THEN SendPing ELSE UNCHANGED <<pending, lost>>
          /\ UNCHANGED state
    /\ UNCHANGED <<rtt, silent, rx, alive, dead_for>>

-----------------------------------------------------------------------------
(***************************************************************************)
(* receive_task handles a packet and then records it; a tick may come in   *)
(* between.                                                                *)
(***************************************************************************)

\* handle_connected_pong.
ReceivePong(p) ==
    /\ rx = "wait" /\ state = "Connected"
    /\ p.age = p.comes
    /\ pending' = pending \ {p}
    /\ update_rtt(p.age)
    /\ rx' = "record"
    /\ UNCHANGED <<state, counter, silent, ticked, alive, dead_for, lost>>

\* Any other packet.
ReceiveOther ==
    /\ rx = "wait" /\ state = "Connected"
    /\ Chatty /\ alive
    /\ rx' = "record"
    /\ UNCHANGED <<state, counter, rtt, silent, pending, ticked, alive, dead_for, lost>>

record_recv ==
    /\ rx = "record"
    /\ silent' = 0
    /\ rx' = "wait"
    /\ UNCHANGED <<state, counter, rtt, pending, ticked, alive, dead_for, lost>>

-----------------------------------------------------------------------------
(***************************************************************************)
(* The peer and time.                                                      *)
(***************************************************************************)

\* Pongs the peer has sent before may still come.
PeerDies ==
    /\ alive /\ alive' = FALSE
    /\ pending' \in SUBSET pending
    /\ UNCHANGED <<state, counter, rtt, silent, rx, ticked, dead_for, lost>>

\* Everything that is due at this time happens before time goes on.
TimePasses ==
    /\ state = "Connected"
    /\ ticked /\ rx = "wait"
    /\ \A p \in pending : p.age < p.comes
    /\ silent' = silent + Tick
    /\ pending' = {[p EXCEPT !.age = @ + Tick] : p \in pending}
    /\ dead_for' = IF alive THEN 0 ELSE dead_for + Tick
    /\ ticked' = FALSE
    /\ UNCHANGED <<state, counter, rtt, rx, alive, lost>>

Next ==
    \/ TickTask
    \/ \E p \in pending : ReceivePong(p)
    \/ ReceiveOther \/ record_recv
    \/ PeerDies \/ TimePasses

Spec == Init /\ [][Next]_vars

-----------------------------------------------------------------------------
(***************************************************************************)
(* Properties.                                                             *)
(***************************************************************************)

Longest == CHOOSE r \in RoundTrips \cup {InitialRtt} :
             \A s \in RoundTrips \cup {InitialRtt} : s =< r

TypeOK ==
    /\ state \in {"Connected", "Disconnected"}
    /\ counter \in 0 .. PingEvery - 1
    /\ rtt \in Nat
    /\ silent \in 0 .. BaseTimeout + 2 * Longest + Tick
    /\ pending \subseteq [age : 0 .. Longest, comes : RoundTrips]
    /\ rx \in {"wait", "record"}
    /\ ticked \in BOOLEAN /\ alive \in BOOLEAN
    /\ dead_for \in Nat
    /\ lost \in 0 .. MaxLost

\* An idle connection whose peer answers is not dropped for the jitter of its
\* round trips, not at its first ping either and not by a tick that comes
\* between a pong and its record_recv: a lost ping or pong is what it takes.
LivePeerKept == state = "Disconnected" => ~alive \/ lost > 0

\* A connection is not kept open for longer than the round trip still under
\* way, 5 s and two of the longest estimates after its peer has died,
\* whatever was lost before.
DeadPeerDetected ==
    state = "Connected" => dead_for =< Longest + BaseTimeout + 2 * Longest + Tick

\* However the samples come, the estimate stays between the initial one and
\* the samples: rounding down at every pong never makes it drift out below.
RttWithinSamples ==
    \E lo, hi \in RoundTrips \cup {InitialRtt} : lo =< rtt /\ rtt =< hi
=============================================================================
