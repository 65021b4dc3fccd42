------------------------------ MODULE Session ------------------------------
(***************************************************************************)
(* The life of one accepted connection, from the moment RakNetStream::new  *)
(* spawns its receive, send and tick tasks (src/connection.rs) to the end  *)
(* of all three: the login sequence, the notifier that hands the stream to *)
(* the accept queue (src/listener.rs), close(), drop and the time-out.     *)
(*                                                                         *)
(* The peer is external.  It numbers its frames 0, 1, 2, ...: 0 is its     *)
(* ConnectionRequest, 1 its NewIncomingConnection and the others are game  *)
(* packets.  It sends 0 in a datagram of its own and the others once it    *)
(* has the reply, batched into datagrams as it likes, and the network      *)
(* reorders them.  Link has what becomes of lost and duplicated ones: here *)
(* a frame arrives at most once.  The login frames take order indices of   *)
(* channel 0 where ordered_login, and have none otherwise.                 *)
(***************************************************************************)
EXTENDS OrderedChannel

CONSTANTS
    LastFrame,          \* bound: the peer's last frame
    Closers,            \* application tasks that may call close()
    MaxSends            \* bound: messages the application sends

ASSUME SessionAssumption ==
    /\ LastFrame \in Nat \ {0}
    /\ MaxSends \in Nat
    /\ LastFrame < SeqSpace

Frames == 0 .. LastFrame
GameFrames == 2 .. LastFrame

Kind(k) == CASE k = 0 -> "request" [] k = 1 -> "incoming" [] OTHER -> "game"

VARIABLES
    ordered_login,  \* whether the peer sends its login frames as ordered
    state,          \* SharedState.state
    rx,             \* receive_task: at its check, in socket.recv, in a packet, done
    tx,             \* send_task: in app_data_rx.recv, done
    tick,           \* tick_task: running, done
    channel,        \* SharedState.ordered_channels[0]
    delivered,      \* what went into recv_rx
    ready,          \* the oneshot: armed, fired, or dropped unfired
    handle,         \* where the RakNetStream is
    closing,        \* for each task, whether its close() is sending the goodbye
    submitted,      \* messages send() took
    sent,           \* of these, the ones send_task sent
    goodbyes,       \* disconnect notifications sent
    replied,        \* ConnectionRequestAccepted was sent
    \* history
    arrived,        \* the frames handled
    established,    \* state has been Connected
    late            \* packets taken from the socket after Disconnected

protocol == <<ordered_login, channel, delivered, replied, arrived>>
app == <<handle, closing, submitted, goodbyes>>
vars == <<state, rx, tx, tick, protocol, ready, app, sent, established, late>>

\* The order index the peer gave to frame k, where it has one.
OrderIndex(k) == IF ordered_login THEN k ELSE k - 2

Init ==
    /\ ordered_login \in BOOLEAN
    /\ state = "Connecting"
    /\ rx = "check" /\ tx = "wait" /\ tick = "run"
    /\ channel = EmptyChannel /\ delivered = <<>>
    /\ ready = "armed" /\ handle = "waiter"
    /\ closing = [c \in Closers |-> FALSE]
    /\ submitted = 0 /\ sent = 0 /\ goodbyes = 0
    /\ replied = FALSE /\ arrived = {}
    /\ established = FALSE /\ late = 0

-----------------------------------------------------------------------------
(***************************************************************************)
(* The connection state (src/state/connection.rs, src/state/shared.rs).    *)
(***************************************************************************)

can_transition_to(from, to) ==
    \/ from = to
    \/ from = "Connecting" /\ to \in {"Connected", "Disconnected"}
    \/ from = "Connected" /\ to \in {"Disconnecting", "Disconnected"}
    \/ from = "Disconnecting" /\ to = "Disconnected"

is_connected == state = "Connected"
is_closed == state = "Disconnected"

\* transition(expected, new): a validated compare-and-swap.
Swapped(expected, new) ==
    IF can_transition_to(expected, new) /\ state = expected THEN new ELSE state

\* Mutant: a plain store.
StoreConnected == state' = "Connected"

mark_connected == state' = Swapped("Connecting", "Connected")
mark_disconnecting == state' = Swapped("Connected", "Disconnecting")
mark_disconnected == state' = "Disconnected"

-----------------------------------------------------------------------------
(***************************************************************************)
(* receive_task.                                                           *)
(***************************************************************************)

\* The task ends: it marks the state and drops the notifier it owns.
EndReceive ==
    /\ rx' = "done"
    /\ mark_disconnected
    /\ ready' = IF ready = "armed" THEN "dropped" ELSE ready
    /\ UNCHANGED <<tx, tick, protocol, app, sent, established, late>>

\* The test at the top of the loop.
CheckClosed ==
    /\ rx = "check"
    /\ \/ is_closed /\ EndReceive
       \/ /\ ~is_closed
          /\ rx' = "recv"
          /\ UNCHANGED <<state, tx, tick, protocol, ready, app, sent, established, late>>

\* socket.recv fails.
ReceiveError == rx = "recv" /\ EndReceive

\* A packet is taken from the socket: nobody looks at the state again.
TakePacket == late' = IF is_closed THEN late + 1 ELSE late

\* Mutant: a frame without an order index is taken for index 0.
AdvanceDefaultIndex(k) ==
    LET order == IF ordered_login THEN k ELSE 0 IN
    channel' = IF order = channel.next_index
               THEN ChannelInsert(channel, order, k).channel
               ELSE channel

\* The order channel takes a login frame only if it is the one expected, and
\* what insert returns is thrown away.
AdvancePastLogin(k) ==
    channel' = IF ordered_login /\ OrderIndex(k) = channel.next_index
               THEN ChannelInsert(channel, OrderIndex(k), k).channel
               ELSE channel

\* handle_connection_request; sending the reply may fail.
HandleConnectionRequest(k) ==
    /\ ~is_connected /\ Kind(k) = "request"
    /\ AdvancePastLogin(k)
    /\ replied' \in {replied, TRUE}
    /\ UNCHANGED <<state, delivered, ready, established>>

\* Mutant: the notifier fires and the state is forgotten.
NewIncomingNotMarked(k) ==
    /\ ~is_connected /\ Kind(k) = "incoming"
    /\ AdvancePastLogin(k)
    /\ ready' = IF ready = "armed" THEN "fired" ELSE ready
    /\ UNCHANGED <<state, established, delivered, replied>>

\* What mark_connected returns is not looked at: the notifier fires anyway.
HandleNewIncoming(k) ==
    /\ ~is_connected /\ Kind(k) = "incoming"
    /\ AdvancePastLogin(k)
    /\ mark_connected
    /\ established' = (established \/ state' = "Connected")
    /\ ready' = IF ready = "armed" THEN "fired" ELSE ready
    /\ UNCHANGED <<delivered, replied>>

\* Mutant: an early game packet is delivered without the channel.
GameAtOnce(k) ==
    LET result == ChannelInsert(channel, OrderIndex(k), k) IN
    /\ is_connected \/ Kind(k) = "game"
    /\ channel' = IF is_connected THEN result.channel ELSE channel
    /\ delivered' = delivered \o (IF is_connected THEN result.ready ELSE <<k>>)
    /\ UNCHANGED <<state, ready, replied, established>>

\* A game packet, early or not, goes through the ordered channel; sending to
\* the application fails silently once the stream is gone.
HandleGame(k) ==
    LET result == ChannelInsert(channel, OrderIndex(k), k) IN
    /\ is_connected \/ Kind(k) = "game"
    /\ channel' = result.channel
    /\ delivered' = IF handle = "dropped" THEN delivered ELSE delivered \o result.ready
    /\ UNCHANGED <<state, ready, replied, established>>

\* handle_frame, for the first frame of a datagram or a later one.
ReceiveFrame(k) ==
    /\ rx \in {"recv", "frames"}
    /\ k \notin arrived /\ (k > 0 => replied)
    /\ rx' = IF Kind(k) = "request" THEN "check" ELSE "frames"
    /\ arrived' = arrived \cup {k}
    /\ IF rx = "recv" THEN TakePacket ELSE UNCHANGED late
    /\ HandleConnectionRequest(k) \/ HandleNewIncoming(k) \/ HandleGame(k)
    /\ UNCHANGED <<ordered_login, tx, tick, app, sent>>

\* Mutant: the loop goes on without its check.
ContinueReceiving ==
    /\ rx = "frames"
    /\ rx' = "recv"
    /\ UNCHANGED <<state, tx, tick, protocol, ready, app, sent, established, late>>

\* The frames of the datagram are through.
EndPacket ==
    /\ rx = "frames"
    /\ rx' = "check"
    /\ UNCHANGED <<state, tx, tick, protocol, ready, app, sent, established, late>>

\* The peer says goodbye, as a packet of its own or as a frame.
ReceiveGoodbye ==
    /\ \/ rx = "recv" /\ TakePacket
       \/ rx = "frames" /\ UNCHANGED late
    /\ rx' = IF rx = "recv" THEN "check" ELSE rx
    /\ mark_disconnected
    /\ UNCHANGED <<tx, tick, protocol, ready, app, sent, established>>

\* A ping, a pong, an ACK or anything else that leaves this state alone.
ReceiveOther ==
    /\ rx = "recv"
    /\ TakePacket
    /\ rx' = "check"
    /\ UNCHANGED <<state, tx, tick, protocol, ready, app, sent, established>>

-----------------------------------------------------------------------------
(***************************************************************************)
(* send_task and tick_task.                                                *)
(***************************************************************************)

EndSend == tx' = "done" /\ UNCHANGED sent

\* Mutant: a message is taken from an empty queue.
SendFromEmpty ==
    /\ tx = "wait"
    /\ IF is_closed THEN EndSend ELSE sent' = sent + 1 /\ UNCHANGED tx
    /\ UNCHANGED <<state, rx, tick, protocol, ready, app, established, late>>

\* The next message is sent, unless the connection is closed or sending fails:
\* then the task ends and what is queued is lost.
SendNext ==
    /\ tx = "wait" /\ sent < submitted
    /\ \/ is_closed /\ EndSend
       \/ ~is_closed /\ EndSend
       \/ ~is_closed /\ sent' = sent + 1 /\ UNCHANGED tx
    /\ UNCHANGED <<state, rx, tick, protocol, ready, app, established, late>>

\* The stream, and with it send_tx, is gone and the queue is empty.
SendQueueClosed ==
    /\ tx = "wait" /\ sent = submitted /\ handle = "dropped"
    /\ EndSend
    /\ UNCHANGED <<state, rx, tick, protocol, ready, app, established, late>>

TickClosed ==
    /\ tick = "run" /\ is_closed
    /\ tick' = "done"
    /\ UNCHANGED <<state, rx, tx, protocol, ready, app, sent, established, late>>

\* is_timed_out: nothing was received for long enough.
TickTimeout ==
    /\ tick = "run" /\ ~is_closed
    /\ tick' = "done"
    /\ mark_disconnected
    /\ UNCHANGED <<rx, tx, protocol, ready, app, sent, established, late>>

-----------------------------------------------------------------------------
(***************************************************************************)
(* The listener's waiter task and the application.                         *)
(***************************************************************************)

\* The notifier fired: the stream goes to the accept queue.
WaiterReady ==
    /\ handle = "waiter" /\ ready = "fired"
    /\ handle' = "queued"
    /\ UNCHANGED <<state, rx, tx, tick, protocol, ready, closing, submitted, goodbyes,
                   sent, established, late>>

\* The notifier was dropped: so is the stream.
WaiterGivesUp ==
    /\ handle = "waiter" /\ ready = "dropped"
    /\ handle' = "dropped"
    /\ mark_disconnected
    /\ UNCHANGED <<rx, tx, tick, protocol, ready, closing, submitted, goodbyes,
                   sent, established, late>>

Accept ==
    /\ handle = "queued"
    /\ handle' = "app"
    /\ UNCHANGED <<state, rx, tx, tick, protocol, ready, closing, submitted, goodbyes,
                   sent, established, late>>

\* send(): the message is queued for send_task.  MaxSends is a bound.
AppSend ==
    /\ handle = "app" /\ is_connected
    /\ tx = "wait"
    /\ submitted < MaxSends
    /\ submitted' = submitted + 1
    /\ UNCHANGED <<state, rx, tx, tick, protocol, ready, handle, closing, goodbyes,
                   sent, established, late>>

\* Mutant: every call that finds the connection open sends the goodbye.
CloseUnlessClosed(c) ==
    /\ handle = "app" /\ ~closing[c]
    /\ ~is_closed
    /\ state' = "Disconnecting"
    /\ closing' = [closing EXCEPT ![c] = TRUE]
    /\ UNCHANGED <<rx, tx, tick, protocol, ready, handle, submitted, goodbyes,
                   sent, established, late>>

\* close(), up to the await: only the call whose swap succeeds sends the
\* goodbye, the others mark the state Disconnected at once.
CloseStart(c) ==
    /\ handle = "app" /\ ~closing[c]
    /\ \/ /\ is_connected
          /\ mark_disconnecting
          /\ closing' = [closing EXCEPT ![c] = TRUE]
       \/ /\ ~is_connected
          /\ mark_disconnected
          /\ UNCHANGED closing
    /\ UNCHANGED <<rx, tx, tick, protocol, ready, handle, submitted, goodbyes,
                   sent, established, late>>

CloseFinish(c) ==
    /\ closing[c]
    /\ goodbyes' = goodbyes + 1
    /\ closing' = [closing EXCEPT ![c] = FALSE]
    /\ mark_disconnected
    /\ UNCHANGED <<rx, tx, tick, protocol, ready, handle, submitted, sent,
                   established, late>>

\* Sending the goodbye fails, or the call is cancelled: close() returns early.
CloseFails(c) ==
    /\ closing[c]
    /\ closing' = [closing EXCEPT ![c] = FALSE]
    /\ UNCHANGED <<state, rx, tx, tick, protocol, ready, handle, submitted, goodbyes,
                   sent, established, late>>

\* Mutant: drop leaves the state alone.
DropQuietly ==
    /\ handle = "app" /\ \A c \in Closers : ~closing[c]
    /\ handle' = "dropped"
    /\ UNCHANGED <<state, rx, tx, tick, protocol, ready, closing, submitted, goodbyes,
                   sent, established, late>>

\* drop of the RakNetStream, which no close() borrows any more.
DropStream ==
    /\ handle = "app" /\ \A c \in Closers : ~closing[c]
    /\ handle' = "dropped"
    /\ mark_disconnected
    /\ UNCHANGED <<rx, tx, tick, protocol, ready, closing, submitted, goodbyes,
                   sent, established, late>>

-----------------------------------------------------------------------------
Next ==
    \/ CheckClosed \/ ReceiveError \/ EndPacket \/ ReceiveGoodbye \/ ReceiveOther
    \/ \E k \in Frames : ReceiveFrame(k)
    \/ SendNext \/ SendQueueClosed
    \/ TickClosed \/ TickTimeout
    \/ WaiterReady \/ WaiterGivesUp \/ Accept
    \/ AppSend \/ DropStream
    \/ \E c \in Closers : CloseStart(c) \/ CloseFinish(c) \/ CloseFails(c)

Spec == Init /\ [][Next]_vars

(***************************************************************************)
(* Fairness.  tokio polls every task that can go on, and the timer of the  *)
(* tick task fires every 100 ms.  Nothing is assumed of the peer, of the   *)
(* application or of errors.                                               *)
(***************************************************************************)
Fairness ==
    /\ WF_vars(CheckClosed) /\ WF_vars(EndPacket)
    /\ WF_vars(SendNext) /\ WF_vars(SendQueueClosed)
    /\ WF_vars(TickClosed)
    /\ WF_vars(WaiterReady) /\ WF_vars(WaiterGivesUp)

FairSpec == Spec /\ Fairness

-----------------------------------------------------------------------------
(***************************************************************************)
(* Properties.                                                             *)
(***************************************************************************)

TypeOK ==
    /\ ordered_login \in BOOLEAN
    /\ state \in {"Connecting", "Connected", "Disconnecting", "Disconnected"}
    /\ rx \in {"check", "recv", "frames", "done"}
    /\ tx \in {"wait", "done"}
    /\ tick \in {"run", "done"}
    /\ IsChannel(channel, Frames)
    /\ delivered \in Seq(Frames)
    /\ ready \in {"armed", "fired", "dropped"}
    /\ handle \in {"waiter", "queued", "app", "dropped"}
    /\ closing \in [Closers -> BOOLEAN]
    /\ submitted \in 0 .. MaxSends /\ sent \in 0 .. submitted
    /\ goodbyes \in Nat /\ late \in Nat
    /\ replied \in BOOLEAN /\ established \in BOOLEAN
    /\ arrived \subseteq Frames

\* The state moves along the edges of can_transition_to only, whichever of
\* the tasks and calls write it, although mark_disconnected stores without
\* looking: above all, a connection that is over is never revived by a login
\* frame that was under way.
LegalTransitions == [][can_transition_to(state, state')]_state

\* Two tasks that call close() at once send one goodbye between them.
OneGoodbye == goodbyes =< 1

\* The application reads game packets, in order and each once, and never a
\* frame of the login sequence.
GamePacketsInOrder ==
    /\ \A i \in DOMAIN delivered : delivered[i] \in GameFrames
    /\ \A i, j \in DOMAIN delivered : i < j => delivered[i] < delivered[j]

\* The receive task may sit in socket.recv when the connection ends: it takes
\* one packet more, and then its check stops it.
OneLatePacket == late =< 1

\* When the stream is dropped the send task and the tick task end.
TasksWindDown == handle = "dropped" ~> tx = "done" /\ tick = "done"

\* A game packet that was received reaches the application or waits for the
\* ones before it ("Don't drop it", handle_frame on early game packets).  This
\* is for login frames that take no order index: with ordered ones, the early
\* packets that a login frame releases from the channel are thrown away.
EarlyPacketsKept ==
    ~ordered_login /\ handle # "dropped" =>
        \A k \in arrived \cap GameFrames :
            \/ \E i \in DOMAIN delivered : delivered[i] = k
            \/ OrderIndex(k) \in DOMAIN channel.queue

\* A time-out, a goodbye and the last login frame may race, and accept() may
\* then return a stream that never was Connected: that stream is closed, so
\* that every call on it fails, and no stream is offered half logged in.
OfferedIsUsableOrClosed ==
    handle \in {"queued", "app"} => established \/ is_closed

\* The inductive invariant behind the safety properties above.  A state
\* beyond Connecting that is not Disconnected was Connected once; the notifier
\* fires for a connection that was established or is over; at most one close()
\* is sending the goodbye, of a connection that has left Connected for good;
\* and after a late packet the receive task never waits for another.
ControlState ==
    /\ state \in {"Connecting", "Connected", "Disconnecting", "Disconnected"}
    /\ state \in {"Connected", "Disconnecting"} => established
    /\ established \in BOOLEAN

OfferInv ==
    /\ ready = "fired" => established \/ is_closed
    /\ handle \in {"queued", "app"} => ready = "fired"

GoodbyeInv ==
    /\ goodbyes \in {0, 1}
    /\ closing \in [Closers -> BOOLEAN]
    /\ \A c \in Closers : closing[c] =>
          /\ goodbyes = 0
          /\ \A d \in Closers : closing[d] => d = c
    /\ goodbyes = 1 \/ (\E c \in Closers : closing[c])
          => state \in {"Disconnecting", "Disconnected"}

LateInv ==
    /\ late \in {0, 1}
    /\ late = 1 => is_closed /\ rx # "recv"

SessionInv == ControlState /\ OfferInv /\ GoodbyeInv /\ LateInv
=============================================================================
