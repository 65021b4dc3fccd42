---------------------------- MODULE SessionProofs ---------------------------
(***************************************************************************)
(* Safety of one session, for every set of tasks that call close(), every  *)
(* number of frames and messages and every order of the tasks' steps.      *)
(***************************************************************************)
EXTENDS Session, ReliabilityTheorems

\* A session that has just been spawned satisfies the invariant.
LEMMA SessionInit == Init => SessionInv
<1> SUFFICES ASSUME Init PROVE SessionInv
  OBVIOUS
<1>1. ControlState /\ OfferInv
  BY DEF Init, ControlState, OfferInv
<1>2. GoodbyeInv
  <2>1. \A c \in Closers : closing[c] = FALSE
    BY DEF Init
  <2>2. closing \in [Closers -> BOOLEAN] /\ goodbyes = 0
    BY DEF Init
  <2> QED
    BY <2>1, <2>2 DEF GoodbyeInv
<1>3. LateInv
  BY DEF Init, LateInv
<1> QED
  BY <1>1, <1>2, <1>3 DEF SessionInv

\* What the end of the receive task, by its check or an error, preserves.
LEMMA EndReceiveStep ==
    ASSUME SessionInv, rx \in {"check", "recv"}, EndReceive
    PROVE  SessionInv'
<1> USE DEF EndReceive, mark_disconnected, app
<1>1. ControlState'
  BY DEF SessionInv, ControlState
<1>2. OfferInv'
  BY DEF SessionInv, OfferInv, is_closed
<1>3. GoodbyeInv'
  BY DEF SessionInv, GoodbyeInv
<1>4. LateInv'
  BY DEF SessionInv, LateInv, is_closed
<1> QED
  BY <1>1, <1>2, <1>3, <1>4 DEF SessionInv

\* What handle_frame preserves: a login frame that comes too late swaps
\* nothing, and may fire the notifier of a connection that is over.
LEMMA ReceiveFrameStep ==
    ASSUME SessionInv, NEW k \in Frames, ReceiveFrame(k)
    PROVE  SessionInv'
<1>1. state' = state \/ (state = "Connecting" /\ state' = "Connected" /\ established')
  BY DEF ReceiveFrame, HandleConnectionRequest, HandleNewIncoming, HandleGame,
         mark_connected, Swapped
<1>2. established' \in BOOLEAN /\ (established => established')
  <2>1. established \in BOOLEAN
    BY DEF SessionInv, ControlState
  <2>2. established' = established \/ established' = (established \/ state' = "Connected")
    BY Zenon DEF ReceiveFrame, HandleConnectionRequest, HandleNewIncoming, HandleGame
  <2> QED
    BY <2>1, <2>2, Zenon
<1>3. ControlState'
  BY <1>1, <1>2 DEF SessionInv, ControlState
<1>4. ready' = ready \/ (ready' = "fired" /\ (established' \/ state' = "Disconnected"))
  <2>1. CASE HandleNewIncoming(k)
    BY <2>1, <1>1, <1>3 DEF HandleNewIncoming, ControlState, mark_connected, Swapped,
       can_transition_to, is_connected
  <2>2. CASE ~ HandleNewIncoming(k)
    BY <2>2 DEF ReceiveFrame, HandleConnectionRequest, HandleGame
  <2> QED
    BY <2>1, <2>2
<1>5. OfferInv'
  BY <1>1, <1>2, <1>4 DEF SessionInv, OfferInv, ReceiveFrame, app, is_closed
<1>6. GoodbyeInv'
  <2>1. UNCHANGED <<goodbyes, closing>>
    BY DEF ReceiveFrame, app
  <2>2. state \in {"Disconnecting", "Disconnected"} => state' = state
    BY <1>1
  <2> QED
    BY <2>1, <2>2 DEF SessionInv, GoodbyeInv
<1>7. LateInv'
  <2>1. rx \in {"recv", "frames"} /\ rx' # "recv"
    BY DEF ReceiveFrame
  <2>2. late' = IF rx = "recv" /\ is_closed THEN late + 1 ELSE late
    BY DEF ReceiveFrame, TakePacket
  <2>3. is_closed => is_closed'
    BY <1>1 DEF is_closed
  <2> QED
    BY <2>1, <2>2, <2>3 DEF SessionInv, LateInv
<1> QED
  BY <1>3, <1>5, <1>6, <1>7 DEF SessionInv

\* The inductive step: every step of the tasks, the waiter and the
\* application preserves the invariant.
LEMMA SessionStep == SessionInv /\ [Next]_vars => SessionInv'
<1> SUFFICES ASSUME SessionInv, [Next]_vars PROVE SessionInv'
  OBVIOUS
<1> USE DEF SessionInv, ControlState, OfferInv, GoodbyeInv, LateInv, is_closed,
            is_connected, mark_disconnected
<1>1. CASE CheckClosed
  <2>1. CASE is_closed /\ EndReceive
    BY <1>1, <2>1, EndReceiveStep DEF CheckClosed
  <2>2. CASE ~(is_closed /\ EndReceive)
    BY <1>1, <2>2 DEF CheckClosed, app
  <2> QED
    BY <2>1, <2>2
<1>2. CASE ReceiveError
  BY <1>2, EndReceiveStep DEF ReceiveError
<1>3. CASE EndPacket
  BY <1>3 DEF EndPacket, app
<1>4. CASE ReceiveGoodbye
  BY <1>4 DEF ReceiveGoodbye, TakePacket, app
<1>5. CASE ReceiveOther
  BY <1>5 DEF ReceiveOther, TakePacket, app
<1>6. ASSUME NEW k \in Frames, ReceiveFrame(k) PROVE SessionInv'
  BY <1>6, ReceiveFrameStep
<1>7. CASE SendNext
  BY <1>7 DEF SendNext, app
<1>8. CASE SendQueueClosed
  BY <1>8 DEF SendQueueClosed, app
<1>9. CASE TickClosed
  BY <1>9 DEF TickClosed, app
<1>10. CASE TickTimeout
  BY <1>10 DEF TickTimeout, app
<1>11. CASE WaiterReady
  BY <1>11 DEF WaiterReady
<1>12. CASE WaiterGivesUp
  BY <1>12 DEF WaiterGivesUp
<1>13. CASE Accept
  BY <1>13 DEF Accept
<1>14. CASE AppSend
  BY <1>14 DEF AppSend
<1>15. CASE DropStream
  BY <1>15 DEF DropStream
<1>16. ASSUME NEW c \in Closers, CloseStart(c) PROVE SessionInv'
  BY <1>16 DEF CloseStart, mark_disconnecting, Swapped, can_transition_to
<1>17. ASSUME NEW c \in Closers, CloseFinish(c) PROVE SessionInv'
  BY <1>17 DEF CloseFinish
<1>18. ASSUME NEW c \in Closers, CloseFails(c) PROVE SessionInv'
  BY <1>18 DEF CloseFails
<1>19. CASE UNCHANGED vars
  BY <1>19 DEF vars, app
<1> QED
  BY <1>1, <1>2, <1>3, <1>4, <1>5, <1>6, <1>7, <1>8, <1>9, <1>10, <1>11, <1>12,
     <1>13, <1>14, <1>15, <1>16, <1>17, <1>18, <1>19 DEF Next

\* The invariant holds throughout.
THEOREM SessionInvariant == Spec => []SessionInv
BY SessionInit, SessionStep, PTL DEF Spec

\* However many tasks call close() at once, and however their calls fail or
\* are cancelled, the peer gets one goodbye at most.
THEOREM SessionSaysGoodbyeOnce == Spec => []OneGoodbye
<1>1. SessionInv => OneGoodbye
  BY DEF SessionInv, GoodbyeInv, OneGoodbye
<1> QED
  BY <1>1, SessionInvariant, PTL

\* After the connection has ended the receive task takes one packet more from
\* its socket at most.
THEOREM SessionTakesOneLatePacket == Spec => []OneLatePacket
<1>1. SessionInv => OneLatePacket
  BY DEF SessionInv, LateInv, OneLatePacket
<1> QED
  BY <1>1, SessionInvariant, PTL

\* accept() returns streams that were Connected, or are Disconnected by now.
THEOREM SessionOffersUsable == Spec => []OfferedIsUsableOrClosed
<1>1. SessionInv => OfferedIsUsableOrClosed
  BY DEF SessionInv, OfferInv, OfferedIsUsableOrClosed
<1> QED
  BY <1>1, SessionInvariant, PTL

\* No interleaving takes the connection state along an edge that
\* can_transition_to forbids.
THEOREM SessionTransitionsLegal == Spec => LegalTransitions
<1>1. SessionInv /\ [Next]_vars => [can_transition_to(state, state')]_state
  <2> SUFFICES ASSUME SessionInv, [Next]_vars
               PROVE  can_transition_to(state, state')
    OBVIOUS
  <2>1. state \in {"Connecting", "Connected", "Disconnecting", "Disconnected"}
    BY DEF SessionInv, ControlState
  <2>2. \/ state' = state
        \/ state' = "Disconnected"
        \/ state = "Connecting" /\ state' = "Connected"
        \/ state = "Connected" /\ state' = "Disconnecting"
    BY DEF Next, vars, CheckClosed, EndReceive, ReceiveError, EndPacket,
       ReceiveGoodbye, ReceiveOther, ReceiveFrame, HandleConnectionRequest,
       HandleNewIncoming, HandleGame, SendNext, SendQueueClosed, TickClosed,
       TickTimeout, WaiterReady, WaiterGivesUp, Accept, AppSend, DropStream,
       CloseStart, CloseFinish, CloseFails, mark_connected, mark_disconnecting,
       mark_disconnected, Swapped
  <2> QED
    BY <2>1, <2>2 DEF can_transition_to
<1> QED
  BY <1>1, SessionInvariant, PTL DEF Spec, LegalTransitions

-----------------------------------------------------------------------------
(***************************************************************************)
(* What the receive task delivers.                                         *)
(***************************************************************************)

\* The frame that has order index i.
Stream == [i \in u24 |-> IF ordered_login THEN i ELSE i + 2]

\* The login frames come first, so that a connection that is Connected gets
\* game packets only.
LoginInv ==
    /\ replied \in BOOLEAN
    /\ arrived \subseteq Frames
    /\ replied => 0 \in arrived
    /\ \A k \in arrived : k > 0 => replied
    /\ established => 1 \in arrived

\* What waits in the channel is game packets, each at its index; what the
\* channel has passed has arrived.
ChannelInv ==
    /\ ordered_login \in BOOLEAN
    /\ IsChannel(channel, Frames)
    /\ \A i \in DOMAIN channel.queue :
          /\ channel.queue[i] = Stream[i]
          /\ Stream[i] \in arrived \cap GameFrames
    /\ \A i \in u24 : i < channel.next_index => Stream[i] \in arrived

\* What was delivered is behind the channel.
DeliveredInv ==
    /\ delivered \in Seq(Frames)
    /\ GamePacketsInOrder
    /\ \A i \in DOMAIN delivered : OrderIndex(delivered[i]) < channel.next_index

\* What the three tasks and the stream's owner keep.
TaskState ==
    /\ rx \in {"check", "recv", "frames", "done"}
    /\ tx \in {"wait", "done"} /\ tick \in {"run", "done"}
    /\ ready \in {"armed", "fired", "dropped"}
    /\ handle \in {"waiter", "queued", "app", "dropped"}
    /\ submitted \in 0 .. MaxSends /\ sent \in 0 .. submitted

DataInv == LoginInv /\ ChannelInv /\ DeliveredInv /\ TaskState

\* A frame's order index is on the circle, and the stream has the frame there.
LEMMA FrameAtItsIndex ==
    ASSUME ordered_login \in BOOLEAN, NEW k \in Frames,
           ordered_login \/ k \in GameFrames
    PROVE  OrderIndex(k) \in u24 /\ Stream[OrderIndex(k)] = k
<1>1. OrderIndex(k) \in u24
  BY SessionAssumption, HalfSpaceAssumption
  DEF OrderIndex, Frames, GameFrames, u24, SeqSpace
<1> QED
  BY <1>1, SessionAssumption, HalfSpaceAssumption
  DEF OrderIndex, Stream, Frames, GameFrames

\* The distance between frame numbers and order indices.
Shift == IF ordered_login THEN 0 ELSE 2

\* A frame and its order index are Shift apart.
LEMMA IndexIsShifted ==
    /\ Shift \in {0, 2}
    /\ \A k \in Int : OrderIndex(k) = k - Shift
    /\ \A i \in u24 : Stream[i] = i + Shift
<1>1. CASE ordered_login
  BY <1>1 DEF Shift, OrderIndex, Stream, u24
<1>2. CASE ~ ordered_login
  BY <1>2 DEF Shift, OrderIndex, Stream, u24
<1> QED
  BY <1>1, <1>2

\* A frame goes into the ordered channel: a game packet, or the login frame
\* that is expected.
LEMMA ChannelStep ==
    ASSUME ChannelInv, LoginInv, NEW k \in Frames, k \notin arrived,
           ordered_login' = ordered_login, arrived' = arrived \cup {k},
           \/ k \in GameFrames
           \/ ordered_login /\ OrderIndex(k) = channel.next_index,
           NEW result, result = ChannelInsert(channel, OrderIndex(k), k),
           channel' = result.channel
    PROVE  /\ ChannelInv'
           /\ channel'.next_index >= channel.next_index
           /\ result.ready \in Seq(Frames)
           /\ Len(result.ready) = channel'.next_index - channel.next_index
           /\ \A j \in 1 .. Len(result.ready) :
                 /\ channel.next_index + j - 1 \in u24
                 /\ result.ready[j] = Stream[channel.next_index + j - 1]
                 /\ k \in GameFrames => result.ready[j] \in GameFrames
<1> DEFINE index == OrderIndex(k)
           n == channel.next_index
           n2 == channel'.next_index
<1>1. /\ ordered_login \in BOOLEAN /\ IsChannel(channel, Frames)
      /\ \A i \in DOMAIN channel.queue : /\ channel.queue[i] = Stream[i]
                                        /\ Stream[i] \in arrived \cap GameFrames
      /\ \A i \in u24 : i < n => Stream[i] \in arrived
  BY DEF ChannelInv
<1>2. index \in u24 /\ Stream[index] = k
  BY <1>1, FrameAtItsIndex
<1>3. IsChannel(channel', Frames) /\ result.ready \in Seq(Frames)
  BY <1>1, <1>2, ChannelInsertType
<1>4. /\ n2 \in n .. SeqSpace
      /\ n .. n2 - 1 \subseteq DOMAIN channel.queue \cup {index}
      /\ result.ready = [i \in 1 .. n2 - n |-> Stream[n + i - 1]]
      /\ DOMAIN channel'.queue \subseteq DOMAIN channel.queue \cup {index}
      /\ \A i \in DOMAIN channel'.queue : channel'.queue[i] = Stream[i]
  <2>1. result = ChannelInsert(channel, index, Stream[index])
    BY <1>2
  <2> HIDE DEF index
  <2> QED
    BY <1>1, <1>2, <2>1, ChannelFollowsStream
<1>5. n \in Nat /\ n2 \in Nat /\ n2 =< SeqSpace /\ n =< n2
  BY <1>1, <1>4, HalfSpaceAssumption DEF IsChannel, SeqSpace
<1>6. Len(result.ready) = n2 - n
  BY <1>4, <1>5
<1>7. Stream' = Stream
  BY DEF Stream
<1>8. DOMAIN channel.queue \subseteq u24
  BY <1>1 DEF IsChannel, IsMap
<1>9. k \notin GameFrames => DOMAIN channel'.queue \subseteq DOMAIN channel.queue
  BY DEF ChannelInsert, Drain, Without
<1> HIDE DEF index, n, n2
<1>10. \A i \in DOMAIN channel'.queue : Stream[i] \in arrived' \cap GameFrames
  BY <1>1, <1>2, <1>4, <1>9
<1>11. \A i \in u24 : i < n2 => Stream[i] \in arrived'
  <2> SUFFICES ASSUME NEW i \in u24, i < n2 PROVE Stream[i] \in arrived'
    OBVIOUS
  <2>1. CASE i < n
    BY <1>1, <2>1
  <2>2. CASE ~ (i < n)
    <3>1. i \in n .. n2 - 1
      BY <1>5, <2>2 DEF u24
    <3> QED
      BY <1>1, <1>2, <1>4, <3>1
  <2> QED
    BY <2>1, <2>2
<1>12. ChannelInv'
  BY <1>1, <1>3, <1>4, <1>7, <1>10, <1>11 DEF ChannelInv, n, n2
<1>13. ASSUME NEW j \in 1 .. Len(result.ready)
       PROVE  /\ n + j - 1 \in u24
              /\ result.ready[j] = Stream[n + j - 1]
              /\ k \in GameFrames => result.ready[j] \in GameFrames
  <2>1. j \in 1 .. n2 - n /\ n + j - 1 \in n .. n2 - 1
    BY <1>5, <1>6
  <2>2. result.ready[j] = Stream[n + j - 1]
    BY <1>4, <2>1
  <2>3. n + j - 1 \in DOMAIN channel.queue \cup {index}
    BY <1>4, <2>1
  <2> QED
    BY <1>1, <1>2, <1>8, <2>2, <2>3
<1> QED
  BY <1>3, <1>5, <1>6, <1>12, <1>13 DEF n, n2

\* What becomes ready goes behind what was delivered before.
LEMMA DeliverStep ==
    ASSUME ChannelInv, DeliveredInv, channel'.next_index \in Nat,
           channel'.next_index >= channel.next_index,
           ordered_login' = ordered_login,
           NEW added \in Seq(Frames),
           Len(added) = channel'.next_index - channel.next_index,
           \A j \in 1 .. Len(added) : /\ channel.next_index + j - 1 \in u24
                                      /\ added[j] = Stream[channel.next_index + j - 1]
                                      /\ added[j] \in GameFrames,
           delivered' \in {delivered, delivered \o added}
    PROVE  DeliveredInv'
<1> DEFINE n == channel.next_index
           n2 == channel'.next_index
           old == Len(delivered)
<1>1. /\ delivered \in Seq(Frames) /\ old \in Nat /\ DOMAIN delivered = 1 .. old
      /\ \A i \in 1 .. old : /\ delivered[i] \in GameFrames
                            /\ OrderIndex(delivered[i]) < n
      /\ \A i, j \in 1 .. old : i < j => delivered[i] < delivered[j]
      /\ ordered_login \in BOOLEAN /\ n \in Nat
  BY HalfSpaceAssumption
  DEF DeliveredInv, GamePacketsInOrder, ChannelInv, IsChannel, SeqSpace
<1>2. GameFrames \subseteq Frames /\ GameFrames \subseteq Int
  BY SessionAssumption DEF GameFrames, Frames
<1>3. /\ Shift \in {0, 2} /\ Shift' = Shift
      /\ \A k \in Int : OrderIndex(k) = k - Shift
      /\ \A i \in u24 : Stream[i] = i + Shift
  BY IndexIsShifted DEF Shift
<1>4. \A i \in 1 .. old : delivered[i] - Shift < n
  BY <1>1, <1>2, <1>3
<1>5. SUFFICES /\ delivered' \in Seq(Frames)
               /\ \A i \in DOMAIN delivered' : /\ delivered'[i] \in GameFrames
                                              /\ delivered'[i] - Shift < n2
               /\ \A i, j \in DOMAIN delivered' : i < j => delivered'[i] < delivered'[j]
  <2>1. ASSUME NEW k \in Int PROVE OrderIndex(k)' = k - Shift
    BY <1>3, <2>1 DEF OrderIndex, Shift
  <2> QED
    BY <1>2, <2>1 DEF DeliveredInv, GamePacketsInOrder
<1>6. /\ n \in Int /\ n2 \in Int /\ old \in Int /\ Shift \in Int
      /\ n =< n2
  <2>1. n \in Nat /\ n2 \in Nat /\ n2 >= n
    BY <1>1
  <2> HIDE DEF n, n2
  <2> QED
    BY <1>1, <1>3, <2>1
<1>7. \A i \in 1 .. old : delivered[i] \in Int
  BY <1>1, <1>2
<1>8. /\ Len(added) = n2 - n
      /\ \A j \in 1 .. Len(added) : added[j] \in GameFrames /\ added[j] = n + j - 1 + Shift
  BY <1>3
<1> HIDE DEF n, n2, old
<1>9. CASE delivered' = delivered
  <2>1. ASSUME NEW i \in 1 .. old PROVE delivered[i] - Shift < n2
    BY <1>4, <1>6, <1>7
  <2> QED
    BY <1>1, <1>9, <2>1
<1>10. CASE delivered' = delivered \o added
  <2>1. /\ delivered' \in Seq(Frames) /\ Len(added) \in Nat
        /\ DOMAIN delivered' = 1 .. old + Len(added)
        /\ \A i \in 1 .. old : delivered'[i] = delivered[i]
        /\ \A i \in old + 1 .. old + Len(added) : delivered'[i] = added[i - old]
    BY <1>1, <1>10
  <2>2. ASSUME NEW i \in old + 1 .. old + Len(added)
        PROVE  /\ delivered'[i] \in GameFrames
               /\ delivered'[i] = n + (i - old) - 1 + Shift
    <3>1. i - old \in 1 .. Len(added)
      BY <1>1, <2>1
    <3> QED
      BY <1>8, <2>1, <3>1
  <2>3. ASSUME NEW i \in 1 .. old
        PROVE  /\ delivered'[i] \in GameFrames
               /\ delivered'[i] < n + Shift
    <3>1. delivered'[i] = delivered[i] /\ delivered[i] \in Int
      BY <1>7, <2>1
    <3>2. delivered[i] \in GameFrames /\ delivered[i] - Shift < n
      BY <1>1, <1>4
    <3> QED
      BY <1>6, <3>1, <3>2
  <2>4. ASSUME NEW i \in DOMAIN delivered'
        PROVE  /\ delivered'[i] \in GameFrames
               /\ delivered'[i] - Shift < n2
    <3>1. i \in 1 .. old \/ i \in old + 1 .. old + Len(added)
      BY <1>1, <2>1
    <3>2. CASE i \in 1 .. old
      <4>1. delivered'[i] \in GameFrames /\ delivered'[i] < n + Shift
        BY <2>3, <3>2
      <4>2. delivered'[i] \in Int
        BY <1>2, <4>1
      <4> QED
        BY <1>6, <4>1, <4>2
    <3>3. CASE i \in old + 1 .. old + Len(added)
      BY <1>6, <1>8, <2>2, <3>3
    <3> QED
      BY <3>1, <3>2, <3>3
  <2>5. ASSUME NEW i \in DOMAIN delivered', NEW j \in DOMAIN delivered', i < j
        PROVE  delivered'[i] < delivered'[j]
    <3>1. CASE j \in 1 .. old
      BY <1>1, <2>1, <2>5, <3>1
    <3>2. CASE i \in 1 .. old /\ j \in old + 1 .. old + Len(added)
      <4>1. delivered'[i] < n + Shift /\ delivered'[i] \in Int
        BY <1>2, <2>3, <3>2
      <4>2. delivered'[j] = n + (j - old) - 1 + Shift
        BY <2>2, <3>2
      <4> QED
        BY <1>6, <3>2, <4>1, <4>2
    <3>3. CASE i \in old + 1 .. old + Len(added) /\ j \in old + 1 .. old + Len(added)
      <4>1. /\ delivered'[i] = n + (i - old) - 1 + Shift
            /\ delivered'[j] = n + (j - old) - 1 + Shift
        BY <2>2, <3>3
      <4> QED
        BY <1>6, <2>5, <3>3, <4>1
    <3> QED
      BY <1>1, <2>1, <2>5, <3>1, <3>2, <3>3
  <2> QED
    BY <2>1, <2>4, <2>5
<1> QED
  BY <1>9, <1>10

\* The invariant in a session that has just been spawned.
LEMMA DataInit == Init => DataInv
<1> SUFFICES ASSUME Init PROVE DataInv
  OBVIOUS
<1>1. LoginInv
  BY DEF Init, LoginInv
<1>2. /\ channel.next_index = 0 /\ channel.queue = EmptyMap /\ DOMAIN EmptyMap = {}
      /\ channel = EmptyChannel
  BY DEF Init, EmptyChannel, EmptyMap
<1>3. IsChannel(channel, Frames)
  BY <1>2, EmptyMapType, HalfSpaceAssumption DEF IsChannel, EmptyChannel, SeqSpace
<1>4. ChannelInv
  BY <1>2, <1>3 DEF Init, ChannelInv, u24
<1>5. DeliveredInv
  BY DEF Init, DeliveredInv, GamePacketsInOrder
<1>6. TaskState
  BY SessionAssumption DEF Init, TaskState
<1> QED
  BY <1>1, <1>4, <1>5, <1>6 DEF DataInv

\* A login frame leaves the channel alone, or is the one expected and moves it
\* on; nothing is delivered.
LEMMA LoginFrameStep ==
    ASSUME DataInv, NEW k \in Frames, k \notin arrived, AdvancePastLogin(k),
           ordered_login' = ordered_login, arrived' = arrived \cup {k},
           delivered' = delivered
    PROVE  ChannelInv' /\ DeliveredInv'
<1>1. LoginInv /\ ChannelInv /\ DeliveredInv
  BY DEF DataInv
<1>2. Stream' = Stream /\ \A f \in Int : OrderIndex(f)' = OrderIndex(f)
  BY DEF Stream, OrderIndex
<1>3. CASE channel' = channel
  <2>1. ChannelInv'
    BY <1>1, <1>2, <1>3 DEF ChannelInv
  <2>2. DeliveredInv'
    BY <1>1, <1>3 DEF DeliveredInv, GamePacketsInOrder, OrderIndex
  <2> QED
    BY <2>1, <2>2
<1>4. CASE /\ ordered_login /\ OrderIndex(k) = channel.next_index
           /\ channel' = ChannelInsert(channel, OrderIndex(k), k).channel
  <2>1. ChannelInv' /\ channel'.next_index >= channel.next_index
    BY <1>1, <1>4, ChannelStep
  <2>2. channel'.next_index \in Nat /\ channel.next_index \in Nat
    BY <1>1, <2>1, HalfSpaceAssumption DEF ChannelInv, IsChannel, SeqSpace
  <2>3. \A i \in DOMAIN delivered : OrderIndex(delivered[i]) \in Int
    BY <1>1, SessionAssumption, IndexIsShifted
    DEF DeliveredInv, GamePacketsInOrder, GameFrames
  <2>4. \A i \in DOMAIN delivered : OrderIndex(delivered[i]) < channel'.next_index
    BY <1>1, <2>1, <2>2, <2>3 DEF DeliveredInv
  <2>5. \A i \in DOMAIN delivered : OrderIndex(delivered[i])' = OrderIndex(delivered[i])
    BY DEF OrderIndex
  <2> QED
    BY <1>1, <2>1, <2>4, <2>5 DEF DeliveredInv, GamePacketsInOrder
<1> QED
  BY <1>3, <1>4 DEF AdvancePastLogin

\* handle_frame.
LEMMA DataFrameStep ==
    ASSUME SessionInv, DataInv, NEW k \in Frames, ReceiveFrame(k)
    PROVE  DataInv'
<1>1. /\ LoginInv /\ ChannelInv /\ DeliveredInv /\ TaskState
      /\ (state = "Connected" => established)
  BY DEF DataInv, SessionInv, ControlState
<1>2. /\ k \notin arrived /\ (k > 0 => replied) /\ arrived' = arrived \cup {k}
      /\ rx \in {"recv", "frames"} /\ rx' \in {"check", "frames"}
      /\ ordered_login' = ordered_login /\ tx' = tx /\ tick' = tick /\ sent' = sent
      /\ handle' = handle /\ submitted' = submitted
  BY DEF ReceiveFrame, app
<1>3. k \in Int /\ k >= 0 /\ 0 \in Frames
  BY SessionAssumption DEF Frames
<1>4. CASE HandleConnectionRequest(k)
  <2>1. /\ k = 0 /\ AdvancePastLogin(k) /\ replied' \in {replied, TRUE}
        /\ delivered' = delivered /\ ready' = ready /\ established' = established
    BY <1>4 DEF HandleConnectionRequest, Kind
  <2>2. LoginInv'
    BY <1>1, <1>2, <1>3, <2>1 DEF LoginInv
  <2>3. ChannelInv' /\ DeliveredInv'
    BY <1>2, <2>1, LoginFrameStep
  <2>4. TaskState'
    BY <1>1, <1>2, <2>1 DEF TaskState
  <2> QED
    BY <2>2, <2>3, <2>4 DEF DataInv
<1>5. CASE HandleNewIncoming(k)
  <2>1. /\ k = 1 /\ AdvancePastLogin(k) /\ replied' = replied
        /\ delivered' = delivered /\ ready' \in {ready, "fired"}
    BY <1>5 DEF HandleNewIncoming, Kind
  <2>2. LoginInv'
    BY <1>1, <1>2, <1>3, <2>1 DEF LoginInv
  <2>3. ChannelInv' /\ DeliveredInv'
    BY <1>2, <2>1, LoginFrameStep
  <2>4. TaskState'
    BY <1>1, <1>2, <2>1 DEF TaskState
  <2> QED
    BY <2>2, <2>3, <2>4 DEF DataInv
<1>6. CASE HandleGame(k)
  <2> DEFINE result == ChannelInsert(channel, OrderIndex(k), k)
  <2>1. /\ state = "Connected" \/ Kind(k) = "game"
        /\ channel' = result.channel
        /\ delivered' \in {delivered, delivered \o result.ready}
        /\ ready' = ready /\ replied' = replied /\ established' = established
    BY <1>6 DEF HandleGame, is_connected
  <2>2. k \notin {0, 1}
    <3>1. CASE state = "Connected"
      BY <1>1, <1>2, <3>1 DEF LoginInv
    <3>2. CASE Kind(k) = "game"
      BY <3>2 DEF Kind
    <3> QED
      BY <2>1, <3>1, <3>2
  <2>3. k \in GameFrames
    BY <1>3, <2>2 DEF Frames, GameFrames
  <2>4. LoginInv'
    BY <1>1, <1>2, <2>1, <2>3 DEF LoginInv
  <2> HIDE DEF result
  <2>5. /\ ChannelInv'
        /\ channel'.next_index >= channel.next_index
        /\ result.ready \in Seq(Frames)
        /\ Len(result.ready) = channel'.next_index - channel.next_index
        /\ \A j \in 1 .. Len(result.ready) :
              /\ channel.next_index + j - 1 \in u24
              /\ result.ready[j] = Stream[channel.next_index + j - 1]
              /\ result.ready[j] \in GameFrames
    BY <1>1, <1>2, <2>1, <2>3, ChannelStep DEF result
  <2>6. channel'.next_index \in Nat
    BY <2>5, HalfSpaceAssumption DEF ChannelInv, IsChannel, SeqSpace
  <2>7. DeliveredInv'
    BY <1>1, <1>2, <2>1, <2>5, <2>6, DeliverStep
  <2>8. TaskState'
    BY <1>1, <1>2, <2>1 DEF TaskState
  <2> QED
    BY <2>4, <2>5, <2>7, <2>8 DEF DataInv
<1> QED
  BY <1>4, <1>5, <1>6 DEF ReceiveFrame

\* The other steps leave the frames alone.
LEMMA DataQuietStep ==
    ASSUME DataInv, UNCHANGED <<protocol, established>>, TaskState'
    PROVE  DataInv'
<1>1. /\ ordered_login' = ordered_login /\ channel' = channel /\ delivered' = delivered
      /\ replied' = replied /\ arrived' = arrived /\ established' = established
  BY DEF protocol
<1>2. LoginInv'
  BY <1>1 DEF DataInv, LoginInv
<1>3. ChannelInv'
  BY <1>1 DEF DataInv, ChannelInv, Stream
<1>4. DeliveredInv'
  BY <1>1 DEF DataInv, DeliveredInv, GamePacketsInOrder, OrderIndex
<1> QED
  BY <1>2, <1>3, <1>4 DEF DataInv

\* The inductive step.
LEMMA DataStep == SessionInv /\ DataInv /\ [Next]_vars => DataInv'
<1> SUFFICES ASSUME SessionInv, DataInv, [Next]_vars PROVE DataInv'
  OBVIOUS
<1>1. ASSUME NEW k \in Frames, ReceiveFrame(k) PROVE DataInv'
  BY <1>1, DataFrameStep
<1>2. SUFFICES ASSUME ~ \E k \in Frames : ReceiveFrame(k)
               PROVE  UNCHANGED <<protocol, established>> /\ TaskState'
  BY <1>1, DataQuietStep
<1>3. TaskState
  BY DEF DataInv
<1>4. CASE CheckClosed \/ ReceiveError \/ EndPacket \/ ReceiveGoodbye \/ ReceiveOther
  BY <1>3, <1>4
  DEF CheckClosed, ReceiveError, EndReceive, EndPacket, ReceiveGoodbye, ReceiveOther,
      TaskState, app
<1>5. CASE SendNext \/ SendQueueClosed \/ TickClosed \/ TickTimeout
  BY <1>3, <1>5
  DEF SendNext, SendQueueClosed, EndSend, TickClosed, TickTimeout, TaskState, app
<1>6. CASE WaiterReady \/ WaiterGivesUp \/ Accept \/ AppSend \/ DropStream
  BY <1>3, <1>6, SessionAssumption
  DEF WaiterReady, WaiterGivesUp, Accept, AppSend, DropStream, TaskState
<1>7. CASE \E c \in Closers : CloseStart(c) \/ CloseFinish(c) \/ CloseFails(c)
  BY <1>3, <1>7 DEF CloseStart, CloseFinish, CloseFails, TaskState
<1>8. CASE UNCHANGED vars
  BY <1>3, <1>8 DEF vars, app, TaskState
<1> QED
  BY <1>2, <1>4, <1>5, <1>6, <1>7, <1>8 DEF Next

\* The frames are handled right, however they are reordered and batched.
THEOREM SessionDataInvariant == Spec => []DataInv
BY SessionInvariant, DataInit, DataStep, PTL DEF Spec

\* Type correctness of the whole session.
THEOREM SessionTypeCorrect == Spec => []TypeOK
<1>1. SessionInv /\ DataInv => TypeOK
  BY DEF SessionInv, ControlState, GoodbyeInv, LateInv, DataInv, LoginInv, ChannelInv,
         DeliveredInv, TaskState, TypeOK
<1> QED
  BY <1>1, SessionInvariant, SessionDataInvariant, PTL

\* handle_frame passes game packets to the application in order, each once,
\* and no login frame, also if game packets overtake the login.
THEOREM SessionGamePacketsInOrder == Spec => []GamePacketsInOrder
<1>1. DataInv => GamePacketsInOrder
  BY DEF DataInv, DeliveredInv
<1> QED
  BY <1>1, SessionDataInvariant, PTL

-----------------------------------------------------------------------------
(***************************************************************************)
(* Nothing received early is lost, if the channel has room for the packets *)
(* the peer sends.                                                         *)
(***************************************************************************)

\* The channel takes every packet that has not arrived before.
LEMMA RoomForPacket ==
    ASSUME LastFrame - 1 =< ChannelSize, ChannelInv, ~ordered_login,
           NEW k \in GameFrames, k \notin arrived
    PROVE  /\ OrderIndex(k) >= channel.next_index
           /\ Size(channel.queue) < ChannelSize
<1> DEFINE index == OrderIndex(k)
           Others == (0 .. LastFrame - 2) \ {index}
<1>1. /\ index \in u24 /\ Stream[index] = k /\ index = k - 2 /\ k \in 2 .. LastFrame
  BY FrameAtItsIndex, SessionAssumption
  DEF ChannelInv, OrderIndex, GameFrames, Frames
<1>2. /\ \A i \in DOMAIN channel.queue : i \in u24 /\ Stream[i] \in arrived \cap GameFrames
      /\ \A i \in u24 : i < channel.next_index => Stream[i] \in arrived
      /\ channel.next_index \in Nat
  BY HalfSpaceAssumption DEF ChannelInv, IsChannel, IsMap, SeqSpace
<1>3. index >= channel.next_index
  BY <1>1, <1>2 DEF u24
<1>4. DOMAIN channel.queue \subseteq Others
  <2> SUFFICES ASSUME NEW i \in DOMAIN channel.queue PROVE i \in Others
    OBVIOUS
  <2>1. i \in u24 /\ Stream[i] = i + 2 /\ Stream[i] \in GameFrames /\ Stream[i] # k
    BY <1>2 DEF Stream
  <2> QED
    BY <1>1, <2>1, SessionAssumption DEF GameFrames, u24
<1>5. /\ IsFiniteSet(0 .. LastFrame - 2) /\ Cardinality(0 .. LastFrame - 2) = LastFrame - 1
      /\ index \in 0 .. LastFrame - 2
  <2> DEFINE last == LastFrame - 2
  <2>1. last \in Int /\ 0 \in Int /\ ~ (0 > last) /\ last - 0 + 1 = LastFrame - 1
    BY <1>1, SessionAssumption
  <2>2. index \in 0 .. last
    BY <1>1, SessionAssumption
  <2> HIDE DEF last
  <2>3. IsFiniteSet(0 .. last) /\ Cardinality(0 .. last) = last - 0 + 1
    BY <2>1, FS_Interval
  <2> QED
    BY <2>1, <2>2, <2>3 DEF last
<1>6. IsFiniteSet(Others) /\ Cardinality(Others) = LastFrame - 2
  <2>1. IsFiniteSet(Others) /\ Cardinality(Others) = Cardinality(0 .. LastFrame - 2) - 1
    <3> HIDE DEF index
    <3> QED
      BY <1>5, FS_RemoveElement
  <2> QED
    BY <1>5, <2>1, SessionAssumption
<1>7. Cardinality(DOMAIN channel.queue) =< LastFrame - 2 /\ Cardinality(DOMAIN channel.queue) \in Nat
  BY <1>4, <1>6, FS_Subset, FS_CardinalityType
<1> QED
  BY <1>3, <1>7, SessionAssumption, ChannelSizeAssumption DEF Size

\* A game packet keeps the others, and is delivered or parked itself.
LEMMA KeepStep ==
    ASSUME LastFrame - 1 =< ChannelSize, DataInv, EarlyPacketsKept,
           NEW k \in GameFrames, ReceiveFrame(k), HandleGame(k)
    PROVE  EarlyPacketsKept'
<1> DEFINE index == OrderIndex(k)
           n == channel.next_index
           gap == FirstGap(channel.queue, n)
           result == ChannelInsert(channel, index, k)
<1> SUFFICES ASSUME ~ordered_login, handle # "dropped", NEW f \in GameFrames, f \in arrived'
             PROVE  \/ \E i \in DOMAIN delivered' : delivered'[i] = f
                    \/ OrderIndex(f) \in DOMAIN channel'.queue
  BY DEF EarlyPacketsKept, ReceiveFrame, app, OrderIndex
<1>1. /\ k \notin arrived /\ arrived' = arrived \cup {k}
      /\ channel' = result.channel /\ delivered' = delivered \o result.ready
  BY DEF ReceiveFrame, HandleGame
<1>2. /\ ChannelInv /\ delivered \in Seq(Frames)
      /\ n \in Nat /\ DOMAIN channel.queue \subseteq u24
      /\ k \in Frames /\ f \in Frames
  BY HalfSpaceAssumption, SessionAssumption
  DEF DataInv, DeliveredInv, ChannelInv, IsChannel, IsMap, SeqSpace, GameFrames, Frames
<1>3. index \in u24 /\ index >= n /\ Size(channel.queue) < ChannelSize
  BY <1>1, <1>2, RoomForPacket, FrameAtItsIndex DEF ChannelInv
<1>4. result.ready \in Seq(Frames)
  BY <1>2, <1>3, ChannelInsertType DEF ChannelInv
<1>5. /\ \A i \in DOMAIN delivered : i \in DOMAIN delivered' /\ delivered'[i] = delivered[i]
      /\ \A j \in DOMAIN result.ready :
            /\ Len(delivered) + j \in DOMAIN delivered'
            /\ delivered'[Len(delivered) + j] = result.ready[j]
  BY <1>1, <1>2, <1>4
<1>6. CASE index > n
  <2>1. channel'.queue = Put(channel.queue, index, k)
    BY <1>1, <1>2, <1>3, <1>6 DEF ChannelInsert, Park, ChannelInv, IsChannel, u24
  <2>2. DOMAIN channel'.queue = DOMAIN channel.queue \cup {index}
    BY <2>1 DEF Put
  <2> QED
    BY <1>1, <1>5, <2>2 DEF EarlyPacketsKept
<1>7. CASE index = n
  <2>1. /\ gap \in n + 1 .. SeqSpace
        /\ n + 1 .. gap - 1 \subseteq DOMAIN channel.queue
    BY <1>2, <1>3, <1>7, FirstGapProperty
  <2>2. gap \in Int /\ gap - n \in Nat /\ gap - n >= 1
    BY <1>2, <2>1, HalfSpaceAssumption DEF SeqSpace
  <2> HIDE DEF gap
  <2>3. /\ channel'.queue = Without(channel.queue, n + 1 .. gap - 1)
        /\ result.ready = [i \in 1 .. gap - n |->
                              IF i = 1 THEN k ELSE channel.queue[n + i - 1]]
    BY <1>1, <1>7 DEF ChannelInsert, Drain, gap
  <2>4. DOMAIN result.ready = 1 .. gap - n
    BY <2>3
  <2> HIDE DEF result, index, n
  <2>5. CASE f = k
    <3>1. 1 \in DOMAIN result.ready /\ result.ready[1] = k
      BY <2>2, <2>3, <2>4
    <3> QED
      BY <1>5, <2>5, <3>1
  <2>6. CASE f # k /\ \E i \in DOMAIN delivered : delivered[i] = f
    BY <1>5, <2>6
  <2>7. CASE f # k /\ ~ \E i \in DOMAIN delivered : delivered[i] = f
    <3>1. OrderIndex(f) \in DOMAIN channel.queue
      BY <1>1, <2>7 DEF EarlyPacketsKept
    <3>2. CASE OrderIndex(f) \in n + 1 .. gap - 1
      <4> DEFINE j == OrderIndex(f) - n + 1
      <4>1. j \in 2 .. gap - n /\ n + j - 1 = OrderIndex(f)
        <5>1. n \in Int /\ gap \in Int /\ OrderIndex(f) \in Int
          BY <1>2, <2>2, <3>1 DEF u24
        <5> QED
          BY <3>2, <5>1
      <4>2. result.ready[j] = channel.queue[OrderIndex(f)] /\ j \in DOMAIN result.ready
        BY <2>3, <2>4, <4>1
      <4>3. channel.queue[OrderIndex(f)] = f
        BY <1>2, <3>1, FrameAtItsIndex DEF ChannelInv
      <4> HIDE DEF j
      <4> QED
        BY <1>5, <4>2, <4>3
    <3>3. CASE OrderIndex(f) \notin n + 1 .. gap - 1
      BY <2>3, <3>1, <3>3 DEF Without
    <3> QED
      BY <3>2, <3>3
  <2> QED
    BY <2>5, <2>6, <2>7
<1> QED
  BY <1>2, <1>3, <1>6, <1>7 DEF u24

\* With a channel that has room for the game packets of the peer, none that
\* has been received is lost while the login goes on or after.
THEOREM SessionKeepsEarlyPackets ==
    LastFrame - 1 =< ChannelSize => (Spec => []EarlyPacketsKept)
<1> SUFFICES ASSUME LastFrame - 1 =< ChannelSize PROVE Spec => []EarlyPacketsKept
  OBVIOUS
<1>1. Init => EarlyPacketsKept
  BY DEF Init, EarlyPacketsKept
<1>2. SessionInv /\ DataInv /\ EarlyPacketsKept /\ [Next]_vars => EarlyPacketsKept'
  <2> SUFFICES ASSUME SessionInv, DataInv, EarlyPacketsKept, [Next]_vars
               PROVE  EarlyPacketsKept'
    OBVIOUS
  <2>1. ASSUME NEW k \in Frames, ReceiveFrame(k) PROVE EarlyPacketsKept'
    <3>1. CASE k \in GameFrames
      <4>1. k # 0 /\ k # 1
        BY <3>1, SessionAssumption DEF GameFrames
      <4>2. Kind(k) = "game"
        BY <4>1 DEF Kind
      <4>3. HandleGame(k)
        BY <2>1, <4>2 DEF ReceiveFrame, HandleConnectionRequest, HandleNewIncoming
      <4> QED
        BY <2>1, <3>1, <4>3, KeepStep
    <3>2. CASE k \notin GameFrames
      <4>1. k = 0 \/ k = 1
        BY <3>2 DEF Frames, GameFrames
      <4>2. ~ HandleGame(k)
        <5>1. SUFFICES ASSUME state = "Connected" PROVE FALSE
          BY <4>1 DEF HandleGame, is_connected, Kind
        <5> QED
          BY <2>1, <4>1, <5>1
          DEF SessionInv, ControlState, DataInv, LoginInv, ReceiveFrame
      <4>3. ~ordered_login => channel' = channel
        BY <2>1, <4>2
        DEF ReceiveFrame, HandleConnectionRequest, HandleNewIncoming, AdvancePastLogin
      <4>4. /\ delivered' = delivered /\ ordered_login' = ordered_login /\ handle' = handle
            /\ arrived' \cap GameFrames = arrived \cap GameFrames
        BY <2>1, <3>2, <4>2
        DEF ReceiveFrame, HandleConnectionRequest, HandleNewIncoming, app
      <4> QED
        BY <4>3, <4>4 DEF EarlyPacketsKept, OrderIndex
    <3> QED
      BY <3>1, <3>2
  <2>2. CASE ~ \E k \in Frames : ReceiveFrame(k)
    <3>1. UNCHANGED protocol /\ (handle = "dropped" => handle' = "dropped")
      BY <2>2
      DEF Next, vars, CheckClosed, EndReceive, ReceiveError, EndPacket, ReceiveGoodbye,
          ReceiveOther, SendNext, SendQueueClosed, TickClosed, TickTimeout, WaiterReady,
          WaiterGivesUp, Accept, AppSend, DropStream, CloseStart, CloseFinish, CloseFails, app
    <3> QED
      BY <3>1 DEF EarlyPacketsKept, OrderIndex, protocol
  <2> QED
    BY <2>1, <2>2
<1> QED
  BY <1>1, <1>2, SessionInvariant, SessionDataInvariant, PTL DEF Spec
=============================================================================
