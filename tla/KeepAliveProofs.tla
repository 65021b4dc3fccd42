-------------------------- MODULE KeepAliveProofs ---------------------------
(***************************************************************************)
(* Keep-alive, for every tick, interval between pings and set of round     *)
(* trips that the assumptions of KeepAlive allow.                          *)
(***************************************************************************)
EXTENDS KeepAlive, NaturalsInduction, WellFoundedInduction, TLAPS

Estimates == RoundTrips \cup {InitialRtt}

\* The time since tick_task last sent a ping, or would have.
SincePing == IF ticked THEN counter * Tick ELSE (counter + 1) * Tick

\* A ping is answered before the next one is sent: at most one is pending,
\* it is as old as the last turn of ping_counter, and its pong is not overdue.
OnePing ==
    /\ \A p, q \in pending : p = q
    /\ \A p \in pending : p.age = SincePing /\ p.age =< p.comes

\* tick_task has looked at the silence at every tick.
SilenceBounded ==
    silent =< BaseTimeout + 2 * Longest +
              (IF state = "Connected" /\ ticked THEN 0 ELSE Tick)

\* After the death of the peer only the pong under way ends the silence.
DeadSilence ==
    /\ alive => dead_for = 0
    /\ ~alive => /\ dead_for =< silent + Longest
                 /\ \A p \in pending : dead_for =< p.age
                 /\ rx = "record" => dead_for =< Longest

\* The silence while the peer answers, if the last pong took m, or none has
\* come and m = 0.  After a pong, and the record_recv that follows it, the
\* silence is what has passed since; while a ping is on its way it is one
\* interval more.
SilentSince(m) ==
    /\ m = 0 => rtt = InitialRtt
    /\ IF pending = {}
       THEN /\ m =< SincePing
            /\ \/ silent =< SincePing - m
               \/ /\ rx = "record" /\ SincePing = m /\ m \in RoundTrips
                  /\ silent =< BaseTimeout + 2 * rtt
       ELSE silent =< BaseTimeout + SincePing - m

Answering ==
    alive /\ lost = 0 /\ state = "Connected" => \E m \in RoundTrips \cup {0} : SilentSince(m)

KeepAliveInv ==
    /\ TypeOK /\ RttWithinSamples
    /\ OnePing /\ SilenceBounded /\ DeadSilence
    /\ Answering /\ LivePeerKept

-----------------------------------------------------------------------------
(***************************************************************************)
(* Arithmetic of the constants.                                            *)
(***************************************************************************)

\* A round trip is a number of ticks, fewer than there are between two pings.
LEMMA RoundTripInTicks ==
    ASSUME NEW r \in RoundTrips
    PROVE  \E k \in 1 .. PingEvery - 1 : r = k * Tick
<1>1. r \in Nat \ {0} /\ r % Tick = 0 /\ r < Tick * PingEvery /\ Tick \in Nat \ {0}
      /\ PingEvery \in Nat
  BY KeepAliveAssumption
<1>2. r = (r \div Tick) * Tick /\ r \div Tick \in Int
  BY <1>1
<1> DEFINE k == r \div Tick
<1> HIDE DEF k
<1>3. r = k * Tick /\ k \in Int
  BY <1>2 DEF k
<1>4. k > 0
  BY <1>1, <1>3
<1>5. k < PingEvery
  BY <1>1, <1>3
<1> QED
  BY <1>1, <1>3, <1>4, <1>5

\* Multiples of Tick are compared like their factors.
LEMMA TicksOrdered ==
    ASSUME NEW m \in Nat, NEW n \in Nat, m * Tick < n * Tick
    PROVE  m + 1 =< n /\ m * Tick + Tick =< n * Tick
<1>1. Tick \in Nat \ {0}
  BY KeepAliveAssumption
<1>2. m < n
  BY <1>1
<1>3. (m + 1) * Tick =< n * Tick
  BY <1>1, <1>2
<1> QED
  BY <1>1, <1>2, <1>3

\* One more tick.
LEMMA OneMoreTick ==
    ASSUME NEW n \in Nat
    PROVE  (n + 1) * Tick = n * Tick + Tick
BY KeepAliveAssumption

\* ping_counter goes round.
LEMMA CounterTurns ==
    ASSUME NEW c \in 0 .. PingEvery - 1
    PROVE  (c + 1) % PingEvery = IF c + 1 = PingEvery THEN 0 ELSE c + 1
BY KeepAliveAssumption

\* There is a longest estimate.
LEMMA LongestEstimate ==
    /\ Longest \in Estimates
    /\ Estimates \subseteq Nat
    /\ \A s \in Estimates : s =< Longest
<1> DEFINE Bounds == {u \in Nat : \A s \in Estimates : s =< u}
<1>1. Estimates \subseteq Nat /\ InitialRtt \in Estimates
  BY KeepAliveAssumption DEF Estimates
<1>2. Tick * PingEvery + InitialRtt \in Bounds
  BY KeepAliveAssumption DEF Estimates
<1>3. PICK u \in Bounds : \A v \in Bounds : ~ (<<v, u>> \in OpToRel(<, Nat))
  <2>1. IsWellFoundedOn(OpToRel(<, Nat), Nat)
    BY NatLessThanWellFounded
  <2>2. Bounds \subseteq Nat /\ Bounds # {}
    BY <1>2
  <2> HIDE DEF Bounds
  <2> QED
    BY <2>1, <2>2, WFMin, Zenon
<1>4. \A v \in Bounds : ~ (v < u)
  BY <1>3 DEF OpToRel
<1>5. u \in Estimates
  <2>1. SUFFICES ASSUME u \notin Estimates PROVE FALSE
    OBVIOUS
  <2>2. \A s \in Estimates : s < u
    BY <1>1, <2>1
  <2>3. u > 0
    BY <1>1, <2>2
  <2>4. u - 1 \in Bounds
    BY <1>1, <2>2, <2>3
  <2> QED
    BY <1>4, <2>4
<1> QED
  BY <1>1, <1>5 DEF Longest, Estimates

\* The margin of two estimates covers the difference of two round trips.
LEMMA MarginCoversJitter ==
    ASSUME NEW r \in RoundTrips, NEW m \in RoundTrips, NEW lo \in Estimates
    PROVE  r - m =< 2 * lo
<1>1. r \in Nat /\ m \in Nat /\ lo \in Nat
  BY KeepAliveAssumption DEF Estimates
<1>2. r - m =< 2 * m /\ r - m =< 2 * InitialRtt
  BY RegularAssumption
<1>3. lo \in RoundTrips => r - lo =< 2 * lo
  BY RegularAssumption
<1> QED
  BY <1>1, <1>2, <1>3 DEF Estimates
-----------------------------------------------------------------------------
(***************************************************************************)
(* The invariant, one action after the other.                              *)
(***************************************************************************)

\* What the parts of the invariant say of the numbers in a state.
LEMMA Numbers ==
    ASSUME KeepAliveInv
    PROVE  /\ SincePing \in Nat /\ BaseTimeout \in Nat /\ Tick \in Nat \ {0}
           /\ SincePing =< BaseTimeout
           /\ ticked => SincePing + Tick =< BaseTimeout
           /\ Longest \in Nat /\ rtt \in Nat /\ rtt =< Longest
           /\ silent \in Nat /\ dead_for \in Nat
           /\ RoundTrips \subseteq Nat \ {0}
           /\ \A r \in RoundTrips : r =< Longest /\ r + Tick =< BaseTimeout
<1>1. /\ Tick \in Nat \ {0} /\ PingEvery \in Nat \ {0} /\ counter \in 0 .. PingEvery - 1
      /\ ticked \in BOOLEAN /\ rtt \in Nat /\ silent \in Nat /\ dead_for \in Nat
      /\ RoundTrips \subseteq Nat \ {0}
  BY KeepAliveAssumption, LongestEstimate DEF KeepAliveInv, TypeOK
<1>2. /\ counter * Tick \in Nat /\ (counter + 1) * Tick \in Nat /\ BaseTimeout \in Nat
      /\ (counter + 1) * Tick = counter * Tick + Tick
      /\ (counter + 1) * Tick =< BaseTimeout
  BY <1>1 DEF BaseTimeout
<1>3. /\ SincePing \in Nat /\ SincePing =< BaseTimeout
      /\ ticked => SincePing + Tick =< BaseTimeout
  BY <1>1, <1>2 DEF SincePing
<1>4. rtt =< Longest /\ Longest \in Nat
  BY <1>1, LongestEstimate DEF KeepAliveInv, RttWithinSamples, Estimates
<1>5. ASSUME NEW r \in RoundTrips PROVE r =< Longest /\ r + Tick =< BaseTimeout
  <2>1. PICK k \in 1 .. PingEvery - 1 : r = k * Tick
    BY RoundTripInTicks
  <2>2. (k + 1) * Tick =< PingEvery * Tick /\ (k + 1) * Tick = k * Tick + Tick
    BY <1>1
  <2>3. r + Tick =< BaseTimeout
    BY <1>1, <2>1, <2>2 DEF BaseTimeout
  <2> QED
    BY <2>3, LongestEstimate DEF Estimates
<1> QED
  BY <1>1, <1>2, <1>3, <1>4, <1>5

\* The initial states.
LEMMA KeepAliveInit == Init => KeepAliveInv
<1> SUFFICES ASSUME Init PROVE KeepAliveInv
  OBVIOUS
<1>1. Longest \in Nat /\ InitialRtt \in Estimates
  BY LongestEstimate DEF Estimates
<1>2. Tick \in Nat /\ BaseTimeout \in Nat /\ MaxLost \in Nat /\ InitialRtt \in Nat
  BY KeepAliveAssumption DEF BaseTimeout
<1>3. TypeOK
  BY <1>1, <1>2 DEF Init, TypeOK
<1>4. RttWithinSamples
  BY <1>2 DEF Init, RttWithinSamples
<1>5. OnePing /\ SilenceBounded /\ DeadSilence /\ LivePeerKept
  BY <1>1, <1>2 DEF Init, OnePing, SilenceBounded, DeadSilence, LivePeerKept
<1>6. SincePing \in Nat
  BY <1>2, <1>3 DEF SincePing, TypeOK
<1>7. SilentSince(0)
  BY <1>6 DEF Init, SilentSince
<1> QED
  BY <1>3, <1>4, <1>5, <1>7 DEF KeepAliveInv, Answering

\* A tick: it cannot time out while the peer answers, and it sends a ping
\* only when no other is pending.
LEMMA TickStep ==
    ASSUME KeepAliveInv, TickTask
    PROVE  KeepAliveInv'
<1>1. /\ ~ticked /\ state = "Connected" /\ ticked' = TRUE
      /\ counter' = (counter + 1) % PingEvery
      /\ rtt' = rtt /\ silent' = silent /\ rx' = rx /\ alive' = alive /\ dead_for' = dead_for
  BY DEF TickTask
<1>2. /\ TypeOK /\ RttWithinSamples /\ OnePing /\ SilenceBounded /\ DeadSilence /\ Answering
  BY DEF KeepAliveInv
<1>3. counter \in 0 .. PingEvery - 1 /\ PingEvery \in Nat \ {0} /\ Tick \in Nat \ {0}
  BY <1>2, KeepAliveAssumption DEF TypeOK
<1>4. counter' = IF counter + 1 = PingEvery THEN 0 ELSE counter + 1
  BY <1>1, <1>3, CounterTurns
<1>5. counter' \in 0 .. PingEvery - 1
  BY <1>3, <1>4
<1>6. counter' # 0 => SincePing' = SincePing
  BY <1>1, <1>3, <1>4 DEF SincePing
<1>7. counter' = 0 => SincePing' = 0 /\ SincePing = BaseTimeout /\ pending = {}
  <2> SUFFICES ASSUME counter' = 0 PROVE SincePing' = 0 /\ SincePing = BaseTimeout /\ pending = {}
    OBVIOUS
  <2>1. SincePing' = 0 /\ SincePing = BaseTimeout
    BY <1>1, <1>3, <1>4 DEF SincePing, BaseTimeout
  <2>2. pending = {}
    BY <1>2, <2>1, Numbers DEF OnePing, TypeOK
  <2> QED
    BY <2>1, <2>2
<1>8. alive /\ lost = 0 => ~ is_timed_out
  <2> SUFFICES ASSUME alive, lost = 0 PROVE ~ is_timed_out
    OBVIOUS
  <2>1. PICK m \in RoundTrips \cup {0} : SilentSince(m)
    BY <1>1, <1>2 DEF Answering
  <2>2. CASE pending = {}
    BY <2>1, <2>2, Numbers DEF SilentSince, is_timed_out
  <2>3. CASE pending # {}
    <3>1. PICK p \in pending : TRUE
      BY <2>3
    <3>2. p.comes \in RoundTrips /\ SincePing =< p.comes
      BY <1>2, <3>1 DEF TypeOK, OnePing
    <3>3. PICK lo \in Estimates : lo =< rtt
      BY <1>2 DEF RttWithinSamples, Estimates
    <3>4. p.comes - m =< 2 * rtt
      <4>1. m \in RoundTrips => p.comes - m =< 2 * lo
        BY <3>2, MarginCoversJitter
      <4>2. m = 0 => p.comes =< 2 * rtt
        BY <2>1, <3>2, RegularAssumption DEF SilentSince
      <4> QED
        BY <3>2, <3>3, <4>1, <4>2, Numbers, LongestEstimate
    <3> QED
      BY <2>1, <2>3, <3>2, <3>4, Numbers DEF SilentSince, is_timed_out
  <2> QED
    BY <2>2, <2>3
<1>9. \/ is_timed_out /\ state' = "Disconnected" /\ pending' = pending /\ lost' = lost
      \/ ~is_timed_out /\ state' = "Connected" /\ counter' # 0 /\ pending' = pending /\ lost' = lost
      \/ ~is_timed_out /\ state' = "Connected" /\ counter' = 0 /\ SendPing
  BY <1>1 DEF TickTask
<1>10. CASE pending' = pending /\ lost' = lost /\ state' = "Connected" /\ counter' # 0 /\ ~is_timed_out
  <2>1. TypeOK' /\ RttWithinSamples' /\ LivePeerKept'
    BY <1>1, <1>2, <1>5, <1>10 DEF TypeOK, RttWithinSamples, LivePeerKept
  <2>2. OnePing' /\ DeadSilence'
    BY <1>1, <1>2, <1>6, <1>10 DEF OnePing, DeadSilence
  <2>3. SilenceBounded'
    BY <1>1, <1>10, Numbers DEF SilenceBounded, is_timed_out, BaseTimeout, Longest
  <2>4. Answering'
    BY <1>1, <1>2, <1>6, <1>10 DEF Answering, SilentSince, BaseTimeout
  <2> QED
    BY <2>1, <2>2, <2>3, <2>4 DEF KeepAliveInv
<1>11. CASE pending' = pending /\ lost' = lost /\ state' = "Disconnected" /\ is_timed_out
  <2>1. TypeOK' /\ RttWithinSamples'
    BY <1>1, <1>2, <1>5, <1>11 DEF TypeOK, RttWithinSamples
  <2>2. OnePing' /\ DeadSilence'
    BY <1>1, <1>2, <1>6, <1>7, <1>11 DEF OnePing, DeadSilence
  <2>3. SilenceBounded'
    BY <1>1, <1>2, <1>11 DEF SilenceBounded, BaseTimeout, Longest
  <2>4. Answering' /\ LivePeerKept'
    BY <1>1, <1>2, <1>8, <1>11 DEF Answering, LivePeerKept, TypeOK
  <2> QED
    BY <2>1, <2>2, <2>3, <2>4 DEF KeepAliveInv
<1>12. CASE ~is_timed_out /\ state' = "Connected" /\ counter' = 0 /\ SendPing
  <2>1. /\ \/ \E r \in RoundTrips : pending' = {[age |-> 0, comes |-> r]}
           \/ pending' = {}
        /\ lost' \in 0 .. MaxLost /\ lost' >= lost
        /\ alive /\ lost' = 0 => pending' # {}
    <3>1. pending = {} /\ lost \in 0 .. MaxLost /\ alive \in BOOLEAN /\ MaxLost \in Nat
      BY <1>2, <1>7, <1>12, KeepAliveAssumption DEF TypeOK
    <3>2. CASE alive /\ lost' = lost
               /\ \E r \in RoundTrips : pending' = pending \cup {[age |-> 0, comes |-> r]}
      BY <3>1, <3>2
    <3>3. CASE alive /\ lost < MaxLost /\ lost' = lost + 1 /\ pending' = pending
      BY <3>1, <3>3
    <3>4. CASE ~alive /\ pending' = pending /\ lost' = lost
      BY <3>1, <3>4
    <3> QED
      BY <1>12, <3>2, <3>3, <3>4 DEF SendPing
  <2>2. TypeOK' /\ RttWithinSamples' /\ LivePeerKept'
    <3>1. pending' \subseteq [age : 0 .. Longest, comes : RoundTrips]
      BY <2>1, Numbers
    <3> QED
      BY <1>1, <1>2, <1>5, <1>12, <2>1, <3>1 DEF TypeOK, RttWithinSamples, LivePeerKept
  <2>3. OnePing' /\ DeadSilence'
    <3>1. /\ \A p \in pending' : p.age = 0 /\ p.comes \in RoundTrips
          /\ \A p, q \in pending' : p = q
          /\ ~alive => pending' = {}
      BY <1>7, <1>12, <2>1 DEF SendPing
    <3>2. OnePing'
      BY <1>7, <1>12, <3>1, Numbers DEF OnePing
    <3> QED
      BY <1>1, <1>2, <3>1, <3>2 DEF DeadSilence
  <2>4. SilenceBounded'
    BY <1>1, <1>12, Numbers DEF SilenceBounded, is_timed_out, BaseTimeout, Longest
  <2>5. Answering'
    <3> SUFFICES ASSUME alive, lost' = 0 PROVE \E m \in RoundTrips \cup {0} : SilentSince(m)'
      BY <1>1 DEF Answering
    <3>1. lost = 0
      BY <1>2, <2>1 DEF TypeOK
    <3>2. PICK m \in RoundTrips \cup {0} : SilentSince(m)
      BY <1>1, <1>2, <3>1 DEF Answering
    <3>3. silent =< BaseTimeout - m
      BY <1>7, <1>12, <3>2, Numbers DEF SilentSince
    <3>4. SilentSince(m)'
      BY <1>1, <1>7, <1>12, <2>1, <3>2, <3>3, Numbers DEF SilentSince, BaseTimeout
    <3> QED
      BY <3>4
  <2> QED
    BY <2>2, <2>3, <2>4, <2>5 DEF KeepAliveInv
<1> QED
  BY <1>9, <1>10, <1>11, <1>12

\* A pong: the estimate stays within the samples, and its margin covers the
\* silence that the pong ends.
LEMMA PongStep ==
    ASSUME KeepAliveInv, NEW p \in pending, ReceivePong(p)
    PROVE  KeepAliveInv'
<1>1. /\ rx = "wait" /\ state = "Connected" /\ p.age = p.comes
      /\ pending' = pending \ {p} /\ rtt' = (rtt * 7 + p.age) \div 8 /\ rx' = "record"
      /\ state' = state /\ counter' = counter /\ silent' = silent /\ ticked' = ticked
      /\ alive' = alive /\ dead_for' = dead_for /\ lost' = lost
  BY DEF ReceivePong, update_rtt
<1>2. /\ TypeOK /\ RttWithinSamples /\ OnePing /\ SilenceBounded /\ DeadSilence
      /\ Answering /\ LivePeerKept
  BY DEF KeepAliveInv
<1>3. /\ p.age \in RoundTrips /\ p.age \in Nat /\ p.age = SincePing /\ p.age =< Longest
      /\ pending' = {} /\ SincePing' = SincePing
  BY <1>1, <1>2, Numbers DEF TypeOK, OnePing, SincePing
<1>4. RttWithinSamples'
  <2>1. PICK lo, hi \in Estimates : lo =< rtt /\ rtt =< hi
    BY <1>2 DEF RttWithinSamples, Estimates
  <2>2. lo \in Nat /\ hi \in Nat /\ rtt \in Nat /\ p.age \in Estimates
    BY <1>3, <2>1, LongestEstimate, Numbers DEF Estimates
  <2>3. (IF lo =< p.age THEN lo ELSE p.age) =< rtt'
    BY <1>1, <1>3, <2>1, <2>2
  <2>4. rtt' =< (IF hi >= p.age THEN hi ELSE p.age)
    BY <1>1, <1>3, <2>1, <2>2
  <2> QED
    BY <2>1, <2>2, <2>3, <2>4 DEF RttWithinSamples, Estimates
<1>5. TypeOK'
  BY <1>1, <1>2, <1>3 DEF TypeOK
<1>6. OnePing' /\ SilenceBounded' /\ DeadSilence' /\ LivePeerKept'
  <2>1. OnePing' /\ LivePeerKept'
    BY <1>1, <1>2, <1>3 DEF OnePing, LivePeerKept
  <2>2. SilenceBounded'
    BY <1>1, <1>2 DEF SilenceBounded, BaseTimeout
  <2>3. ~alive => dead_for =< Longest
    BY <1>2, <1>3, Numbers DEF DeadSilence
  <2>4. DeadSilence'
    BY <1>1, <1>2, <1>3, <2>3 DEF DeadSilence
  <2> QED
    BY <2>1, <2>2, <2>4
<1>7. Answering'
  <2> SUFFICES ASSUME alive, lost = 0 PROVE \E m \in RoundTrips \cup {0} : SilentSince(m)'
    BY <1>1 DEF Answering
  <2>1. PICK m \in RoundTrips \cup {0} : SilentSince(m)
    BY <1>1, <1>2 DEF Answering
  <2>2. silent =< BaseTimeout + p.age - m
    BY <1>3, <2>1 DEF SilentSince
  <2>3. p.age - m =< 2 * rtt'
    <3>1. CASE m \in RoundTrips
      <4>1. PICK lo \in Estimates : lo =< rtt'
        BY <1>4 DEF RttWithinSamples, Estimates
      <4>2. p.age - m =< 2 * lo
        BY <1>3, <3>1, MarginCoversJitter
      <4>3. m \in Nat /\ lo \in Nat /\ rtt' \in Nat
        BY <1>5, <3>1, LongestEstimate, Numbers DEF TypeOK
      <4> QED
        BY <1>3, <4>1, <4>2, <4>3
    <3>2. CASE m = 0
      <4>1. rtt = InitialRtt /\ p.age =< 2 * InitialRtt /\ p.age > 0
        BY <1>3, <2>1, <3>2, RegularAssumption, KeepAliveAssumption DEF SilentSince
      <4> QED
        BY <1>1, <1>3, <3>2, <4>1, KeepAliveAssumption
    <3> QED
      BY <3>1, <3>2
  <2>4. m \in Int /\ p.age \in Int /\ rtt' \in Int /\ BaseTimeout \in Int /\ silent \in Int
    BY <1>3, <1>5, Numbers DEF TypeOK
  <2>5. silent =< BaseTimeout + 2 * rtt'
    <3>1. \A a, b, c, d, e \in Int : a =< b + c - d /\ c - d =< 2 * e => a =< b + 2 * e
      OBVIOUS
    <3> QED
      BY <2>2, <2>3, <2>4, <3>1
  <2>6. p.age # 0
    BY <1>3, KeepAliveAssumption
  <2>7. SilentSince(p.age)'
    BY <1>1, <1>3, <2>5, <2>6 DEF SilentSince, BaseTimeout
  <2> QED
    BY <1>3, <2>7
<1> QED
  BY <1>4, <1>5, <1>6, <1>7 DEF KeepAliveInv

\* Another packet, and the record_recv after either.
LEMMA RecordStep ==
    ASSUME KeepAliveInv, ReceiveOther \/ record_recv
    PROVE  KeepAliveInv'
<1>1. /\ TypeOK /\ RttWithinSamples /\ OnePing /\ SilenceBounded /\ DeadSilence
      /\ Answering /\ LivePeerKept
  BY DEF KeepAliveInv
<1>2. /\ state' = state /\ counter' = counter /\ rtt' = rtt /\ pending' = pending
      /\ ticked' = ticked /\ alive' = alive /\ dead_for' = dead_for /\ lost' = lost
      /\ \/ rx = "wait" /\ rx' = "record" /\ alive /\ silent' = silent
         \/ rx = "record" /\ rx' = "wait" /\ silent' = 0
  BY DEF ReceiveOther, record_recv
<1>3. SincePing' = SincePing
  BY <1>2 DEF SincePing
<1>4. BaseTimeout + 2 * Longest + Tick \in Nat
  BY Numbers
<1>5. TypeOK' /\ RttWithinSamples' /\ OnePing' /\ LivePeerKept'
  BY <1>1, <1>2, <1>3, <1>4 DEF TypeOK, RttWithinSamples, OnePing, LivePeerKept
<1>6. SilenceBounded' /\ DeadSilence'
  BY <1>1, <1>2, Numbers DEF SilenceBounded, DeadSilence
<1>7. Answering'
  <2> SUFFICES ASSUME alive, lost = 0, state = "Connected"
               PROVE  \E m \in RoundTrips \cup {0} : SilentSince(m)'
    BY <1>2 DEF Answering
  <2>1. PICK m \in RoundTrips \cup {0} : SilentSince(m)
    BY <1>1 DEF Answering
  <2>2. m \in Nat /\ m =< BaseTimeout
    BY Numbers
  <2>3. SilentSince(m)'
    BY <1>2, <1>3, <2>1, <2>2, Numbers DEF SilentSince, BaseTimeout
  <2> QED
    BY <2>3
<1> QED
  BY <1>5, <1>6, <1>7 DEF KeepAliveInv

\* The death of the peer.
LEMMA DeathStep ==
    ASSUME KeepAliveInv, PeerDies
    PROVE  KeepAliveInv'
<1>1. /\ TypeOK /\ RttWithinSamples /\ OnePing /\ SilenceBounded /\ DeadSilence
      /\ Answering /\ LivePeerKept
  BY DEF KeepAliveInv
<1>2. /\ alive /\ alive' = FALSE /\ pending' \subseteq pending
      /\ state' = state /\ counter' = counter /\ rtt' = rtt /\ silent' = silent
      /\ rx' = rx /\ ticked' = ticked /\ dead_for' = dead_for /\ lost' = lost
  BY DEF PeerDies
<1>3. SincePing' = SincePing
  BY <1>2 DEF SincePing
<1>4. TypeOK' /\ RttWithinSamples' /\ OnePing' /\ LivePeerKept' /\ Answering'
  BY <1>1, <1>2, <1>3 DEF TypeOK, RttWithinSamples, OnePing, LivePeerKept, Answering
<1>5. SilenceBounded'
  BY <1>1, <1>2 DEF SilenceBounded, BaseTimeout
<1>6. \A p \in pending : p.age \in Nat
  BY <1>1, Numbers DEF TypeOK
<1>7. DeadSilence'
  BY <1>1, <1>2, <1>6, Numbers DEF DeadSilence
<1> QED
  BY <1>4, <1>5, <1>7 DEF KeepAliveInv

\* Time passes by one tick, and no pong becomes overdue: round trips are
\* whole ticks.
LEMMA TimeStep ==
    ASSUME KeepAliveInv, TimePasses
    PROVE  KeepAliveInv'
<1>1. /\ TypeOK /\ RttWithinSamples /\ OnePing /\ SilenceBounded /\ DeadSilence
      /\ Answering /\ LivePeerKept
  BY DEF KeepAliveInv
<1>2. /\ state = "Connected" /\ ticked /\ rx = "wait" /\ \A p \in pending : p.age < p.comes
      /\ silent' = silent + Tick
      /\ pending' = {[p EXCEPT !.age = @ + Tick] : p \in pending}
      /\ dead_for' = IF alive THEN 0 ELSE dead_for + Tick
      /\ ticked' = FALSE
      /\ state' = state /\ counter' = counter /\ rtt' = rtt /\ rx' = rx
      /\ alive' = alive /\ lost' = lost
  BY DEF TimePasses
<1>3. SincePing' = SincePing + Tick
  BY <1>1, <1>2, OneMoreTick DEF SincePing, TypeOK
<1>4. ASSUME NEW q \in pending'
      PROVE  \E p \in pending :
                /\ q = [age |-> p.age + Tick, comes |-> p.comes]
                /\ p.age \in Nat /\ p.comes \in RoundTrips
                /\ p.age + Tick =< p.comes
  <2>1. PICK p \in pending : q = [p EXCEPT !.age = @ + Tick]
    BY <1>2
  <2>2. p \in [age : 0 .. Longest, comes : RoundTrips]
    BY <1>1 DEF TypeOK
  <2>3. q = [age |-> p.age + Tick, comes |-> p.comes]
    BY <2>1, <2>2
  <2>4. PICK k \in 1 .. PingEvery - 1 : p.comes = k * Tick
    BY <2>2, RoundTripInTicks
  <2>5. p.age = counter * Tick /\ counter \in Nat /\ k \in Nat /\ p.age < p.comes
    BY <1>1, <1>2 DEF OnePing, SincePing, TypeOK
  <2>6. p.age + Tick =< p.comes
    BY <2>4, <2>5, TicksOrdered
  <2> QED
    BY <2>2, <2>3, <2>6, Numbers
<1>5. pending' \subseteq [age : 0 .. Longest, comes : RoundTrips]
  BY <1>4, Numbers
<1>6. silent =< BaseTimeout + 2 * Longest
  BY <1>1, <1>2, Numbers DEF SilenceBounded
<1>7. SilenceBounded'
  BY <1>2, <1>6, Numbers DEF SilenceBounded, BaseTimeout
<1>8. TypeOK' /\ RttWithinSamples' /\ LivePeerKept'
  <2>1. silent' \in 0 .. BaseTimeout + 2 * Longest + Tick /\ dead_for' \in Nat
    BY <1>2, <1>6, Numbers
  <2> QED
    BY <1>1, <1>2, <1>5, <2>1 DEF TypeOK, RttWithinSamples, LivePeerKept
<1>9. OnePing'
  BY <1>1, <1>3, <1>4 DEF OnePing
<1>10. DeadSilence'
  <2>1. ~alive => dead_for' =< silent' + Longest
    BY <1>1, <1>2, Numbers DEF DeadSilence
  <2>2. ~alive => \A q \in pending' : dead_for' =< q.age
    BY <1>1, <1>2, <1>4, Numbers DEF DeadSilence
  <2> QED
    BY <1>2, <2>1, <2>2 DEF DeadSilence
<1>11. Answering'
  <2> SUFFICES ASSUME alive, lost = 0 PROVE \E m \in RoundTrips \cup {0} : SilentSince(m)'
    BY <1>2 DEF Answering
  <2>1. PICK m \in RoundTrips \cup {0} : SilentSince(m)
    BY <1>1, <1>2 DEF Answering
  <2>2. m \in Nat
    BY Numbers
  <2>3. pending' = {} <=> pending = {}
    BY <1>2
  <2>4. SilentSince(m)'
    BY <1>2, <1>3, <2>1, <2>2, <2>3, Numbers DEF SilentSince, BaseTimeout
  <2> QED
    BY <2>4
<1> QED
  BY <1>7, <1>8, <1>9, <1>10, <1>11 DEF KeepAliveInv

\* The inductive step.
LEMMA KeepAliveStep == KeepAliveInv /\ [Next]_vars => KeepAliveInv'
<1> SUFFICES ASSUME KeepAliveInv, [Next]_vars PROVE KeepAliveInv'
  OBVIOUS
<1>1. CASE UNCHANGED vars
  BY <1>1
  DEF vars, KeepAliveInv, TypeOK, RttWithinSamples, OnePing, SilenceBounded, DeadSilence,
      Answering, LivePeerKept, SilentSince, SincePing, BaseTimeout
<1> QED
  BY <1>1, TickStep, PongStep, RecordStep, DeathStep, TimeStep DEF Next

-----------------------------------------------------------------------------
\* The invariant holds however ticks, packets, losses and the death of the
\* peer follow each other.
THEOREM KeepAliveInvariant == Spec => []KeepAliveInv
BY KeepAliveInit, KeepAliveStep, PTL DEF Spec

\* Type correctness: the silence, which only a packet ends, is bounded by the
\* time-out, and the age of a ping by the round trips.
THEOREM KeepAliveTypeCorrect == Spec => []TypeOK
<1>1. KeepAliveInv => TypeOK
  BY DEF KeepAliveInv
<1> QED
  BY <1>1, KeepAliveInvariant, PTL

\* The smoothed round-trip time never leaves the range of its samples.
THEOREM RttStaysWithinSamples == Spec => []RttWithinSamples
<1>1. KeepAliveInv => RttWithinSamples
  BY DEF KeepAliveInv
<1> QED
  BY <1>1, KeepAliveInvariant, PTL

\* is_timed_out never drops a peer that answers, as long as no ping and no
\* pong is lost.
THEOREM LivePeerNeverDropped == Spec => []LivePeerKept
<1>1. KeepAliveInv => LivePeerKept
  BY DEF KeepAliveInv
<1> QED
  BY <1>1, KeepAliveInvariant, PTL

\* is_timed_out finds out about a dead peer in bounded time.
THEOREM DeadPeerIsDetected == Spec => []DeadPeerDetected
<1>1. KeepAliveInv => DeadPeerDetected
  BY Numbers DEF KeepAliveInv, SilenceBounded, DeadSilence, DeadPeerDetected, TypeOK
<1> QED
  BY <1>1, KeepAliveInvariant, PTL
=============================================================================
