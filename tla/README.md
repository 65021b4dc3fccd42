# TLA+ models of the RakNet implementation

These modules model the `raknet` crate: the packet codec, the reliability layer,
the life of a connection, keep-alive, the client's connect sequence and the
listener. TLC checks them on small instances and TLAPS proves their safety
properties for every value of the constants. Line references are to `src/src/`
unless another path is given.

    tlc -workers 2 -config LinkSafety.cfg MCLink      # one run; PROJECT.json lists all
    tlapm LinkProofs.tla                              # one proof module

## The system

| Component | State | Operations | Modules |
|---|---|---|---|
| 24-bit arithmetic (`protocol/uint24.rs`) | none | wrapping add and subtract, circular comparison | `Uint24` |
| Receive window (`reliability/recv_window.rs`) | bits, base, highest | `mark_received`, `advance_base`, `get_missing`, `clear` | `RecvWindow`, `RecvWindowModel` |
| Send queue (`reliability/send_queue.rs`) | map from sequence number to datagram | `insert`, `acknowledge`, `acknowledge_range`, `get_expired` | `SendQueue` |
| ACK ranges (`reliability/ack.rs`) | sorted list of ranges | `insert`, encode, decode | `AckRangeList`, `PacketModel` |
| Ordered channel (`reliability/ordered.rs`) | next index, queue | `insert` | `OrderedChannel` |
| Fragment queue (`reliability/fragment.rs`) | map from split id to fragments | `insert`, `cleanup_expired` | `FragmentQueue` |
| Packet and frame codec (`protocol/codec.rs`, `protocol/frame.rs`) | none | encoders, decoders | `Levels`, `Wire`, `Packets`, `Frames`, `PacketModel` |
| Data transfer (`connection.rs`, `state/shared.rs`) | counters and all of the above | send, receive and tick task | `Link`, `MCLink`, `ReliableOrdered` |
| Life of a session (`connection.rs`, `state/connection.rs`) | connection state, tasks, notifier, stream | login, `send`, `recv`, `close`, drop, time-out | `Session` |
| Metrics (`state/metrics.rs`) and keep-alive (`connection.rs`) | RTT, time stamps, pending pings | `update_rtt`, `record_recv`, `is_timed_out`, pings | `KeepAlive` (partly) |
| Listener (`listener.rs`) | `connections`, accept queue | request handlers, waiters, `accept` | `Listener`, `Client` |
| Client (`client.rs`) | step, probe, MTU, stream | `connect` | `Client` |
| Sockets, errors (`socket.rs`, `error.rs`) | none | system calls | not modelled |

How they interact. The listener's loop spawns a handler for each packet. The
handler of an OpenConnectionRequest2 creates a session socket and a
`RakNetStream`, which spawns three tasks that share one `SharedState` through
mutexes and atomics: the receive task (datagrams in, ACKs noted, frames to the
ordered channel or to reassembly, payloads to the application), the send task
(application messages out, split where needed, tracked in the send queue) and
the tick task (time-out, ACK flush, retransmission, fragment expiry, keep-alive).
A oneshot tells the listener's waiter that the login is complete; the waiter then
puts the stream into the accept queue. The client goes through ping, MTU
discovery and the request for a session on one socket, and then creates a
`RakNetStream` of its own.

What is hard here: three tasks and the application write the connection state
with no common lock; the network loses, repeats and reorders; sending a datagram
and tracking it are separated by an await; looking an address up and entering it
are two critical sections; the client takes the next packet for the answer it
waits for; every queue has a limit and drops silently at it; numbers wrap; and
decoders must check a length before each read. `PROJECT.json` lists these hazards
with their lines.

What makes each part correct: the receive window accepts a number once and
refuses none wrongly; an ACK covers exactly what was received; what is encoded is
what is decoded, and nothing is read past its end; the ordered channel and
reassembly give the application whole messages in order; the sender keeps a
datagram until it has been accepted; a session moves through its states in one
direction, says goodbye once and winds down; a live peer is kept and a dead one
noticed; the listener has one session to an address, hands every completed login
over and frees the address afterwards; `connect()` returns, and settles on an MTU
that the path carries.

## The modules

**Data structures.** `Uint24`, `Maps`, `SendQueue`, `RecvWindow`,
`OrderedChannel`, `FragmentQueue` and `AckRangeList` are operators on records,
functions and sequences, one for each method. The circle has `2 * HalfSpace`
numbers (`2^24` in the code), the queues have constants for their limits.
`RecvWindow` has the BitVec as the set of its set bits. Except in `KeepAlive`
times of day are left out: whatever a timer may do may happen at any moment.

**RecvWindowModel** puts one receive window under every sequence of calls and
compares it with history variables that say what the caller was told.

**Levels, Wire, Packets, Frames** are the codec byte by byte. An encoder is a list of
fields; a decoder is a list of steps on a cursor, with the code's own length
checks as steps, and a read past the end has the outcome "panic". `Levels` has the
five reliability levels and the sizes of their headers, which `Client` uses as well;
`Frames` has those headers, split or not, the loop that decodes the frames of a
datagram, and the part of `handle_frame` that skips empty ones. Loops are recursive
functions of the number of turns (`DecodeFrames`, `Handled`, `DecodeRecords`,
`HandleAck`), so that the proofs can follow them. `decode_datagram` reads the sequence number from a slice and
does not advance (`protocol/codec.rs:664`), so that the loop begins at the
sequence number; the model keeps this. `length_bits + 7` (`protocol/frame.rs:212`)
wraps as in a release build; a debug build panics there above 65528 bits.

**PacketModel** writes an ACK packet from a list built by any insertions, a
control packet or a datagram, cuts it short at any byte, and lets every decoder
read it. `Encode` is the set of all packets of a kind, each with the arguments that
went into it.

**Link** is one direction of an established connection. Its variables are named
after the fields of `SharedState`; `net` and `acknet` are sets of packets under
way, from which a packet may be received and kept (a duplicate), received in any
order, or lost. `SendFrame` and `TrackFrame` are the two halves of
`send_reliable_frame` around its await, the loop body of `send_fragmented` is the
same pair. `SendFails` is an error of that `socket.send` (`connection.rs:564`,
`:701`): the sequence number and the order index are used up, nothing is tracked, and
the send task ends for good (`sending`). An error of a send in the tick task is only
printed, and is a packet loss. `ReceiveDatagram` is `handle_datagram` with `handle_frame` and
`deliver_frame_payload` under it; `FlushAcks`, `Retransmit` and `CleanupExpired`
are what the tick tasks do. A message is a sequence of chunks, and for each chunk
the model knows what its first byte reads as, since `handle_frame` looks at the
first byte of every frame. An ACK packet and `pending_acks` are sets of sequence
numbers; `PacketModel` shows that lists and packets stand for exactly these sets.
Datagrams from `CleanSeqs` on (16 in the code) are misread because of the missing
advance; what the frame loop makes of them depends on every byte, and `Misread`
leaves it open: nothing, the end of the connection, an order channel out of range,
which panics the receive task and leaves the others running (`receiving`), or a junk
payload that is delivered, ordered or taken for a fragment. `split_id` does not wrap (2^16 split packets).

**ReliableOrdered** is the abstract stream that `levels.rs` promises: what has
been read is always a prefix of what was handed over. It may break at any time: then
nothing more is handed over, and what was is still read. `Link` breaks it where a
send fails.

**Session** is the server side of one connection from `RakNetStream::new` to the
end of its tasks. `rx`, `tx` and `tick` are the program counters of the three
tasks, `closing` those of concurrent `close()` calls, `ready` the oneshot, and
`handle` says who owns the stream. `CheckClosed`, `ReceiveFrame`, `EndPacket` are
the receive loop; the state is only looked at in `CheckClosed`. A frame is handled
as in `handle_frame`: login frames before the connection is established, anything
else through the ordered channel. The peer is external and may send its login
frames with order indices or without. The check of `send()` and its push into the
channel are one step: a message pushed later is lost like one queued before.

**KeepAlive** is an idle, established connection against a clock that moves in
steps of one tick (100 ms). Packets that are due at a time arrive before or after
the tick of that time. The receive task handles a pong (`ReceivePong`, which
updates the estimate) and then records it (`record_recv`, which ends the silence),
and a tick may come between the two. The peer is external: it answers every ping
after one of `RoundTrips`, may send packets of its own and may die. Entries of
`pending_pings` whose pong was lost stay there for ever in the code; nothing looks
them up, and the model leaves them out.

**Listener** has every OpenConnectionRequest2 as a numbered request with its
handler task, session and waiter. The kernel, external, gives a packet to a
session socket connected to its sender if there is one; requests may be waiting
in the listener's buffer from before.

**Client** is `connect()`, called again when it fails, against the server's
answers. Packets in flight are sets, and what is in the client's socket from an
earlier attempt is there for the next one. On the server side a packet goes to
the listener's socket (`buffered`) or, if there is a session, to the session's,
which ignores it. A session whose login does not come times out, but its receive
task only notices with one more packet, and frees the address then. Until `calm`
the network loses, duplicates and delays packets and time-outs may be early;
`disturbed` remembers that this happened. `LocalError` is an error of the client's own
socket, at which `connect()` returns; it counts as a disturbance too. After `complete_connection_handshake`
the model stops: the stream has taken the socket.

Definitions whose comment begins with "Mutant" are wrong versions of the
definition after them, used to confirm that the properties notice.

## What TLC checks

| Run | Instance | Shows |
|---|---|---|
| `recv_window` | circle 12, window 4 | `NeverFalseDuplicate`, `RemembersUntilReset`, `MissingAreTheGaps`, `BaseMovesForward`, for any calls with any numbers |
| `packet` | circle 10; every control packet and datagrams of one or two frames of every level, over edge values; cut at every byte | `Compressed` (lists are minimal), `AcknowledgesExactly` (an ACK removes from a full send queue exactly what was inserted), `PacketsReadBack`, `FramesReadBack`, `NeverReadsPastTheEnd` |
| `link_safety` | 3 messages, a ping and a goodbye; window 2, send queue 3, channel 1; lossy, sends fail | `InOrderDelivery`, `TrackedUntilAccepted`, `ImplementsStream`, with every limit exceeded |
| `link_ample` | 3 messages, room for all; lossy, fair, sends may fail | `AcceptedIsHeld`, `ImplementsFairStream` (all is handed over unless a send fails, and all that was handed over is delivered in the end) |
| `link_split` | a split message with a chunk that reads as a ping, one without and a single one; window 4, send queue 1, one split at a time, expiry; the fifth datagram is misread | `WholeMessages`, `DeliveredOnce` |
| `session` | 5 frames, 2 closing tasks, 2 messages | `LegalTransitions`, `OneGoodbye`, `OneLatePacket`, `GamePacketsInOrder`, `EarlyPacketsKept`, `OfferedIsUsableOrClosed`, `TasksWindDown` |
| `listener` | 3 requests, 2 addresses | `OneSessionPerAddress`, `LoginReachesAccept`, `FailedLoginFreesAddress` |
| `client` | paths that carry two, one and none of the probes, both protocol versions; one packet left over between attempts, one duplicated | `DatagramsFitPath`, `FailsForAReason`, `ConnectReturns`, `RetriesGetThrough` |
| `keepalive` | pings every 1 s, round trips of 200 and 600 ms, one ping or pong may be lost (`LivePeerKept` is for none lost), a peer that also sends by itself | `LivePeerKept`, `DeadPeerDetected`, `RttWithinSamples` |

Each also checks its module's `TypeOK`, but for `link_ample` and `link_split`,
which leave it to `link_safety`.

Why the bounds are enough. A window of 4 on a circle of 12 has numbers before,
in, just past and far past the window and windows across the wrap. In
`link_safety` there are more messages than the window, the channel and the queue
hold, so that resets, drops and refusals all happen. `HalfSpace` always exceeds
the distance between two numbers in use, as 2^23 does for a window of 2048. The
byte strings of `packet` differ in every byte, so that a field read from the wrong
place is told apart, and the sequence numbers are the first of each way in which a
datagram is misread. Three frames after the login are enough for a gap, a run
behind it and a late login frame. Three requests give two racing handlers and one
that comes later. One packet from an earlier attempt is enough to be taken for the
answer to the next (`MaxStale`), and one duplicate (`MaxCopies`) for the same
within an attempt. In `keepalive` the time between pings is 1 s and not 5 s, which
keeps the base of the time-out and the time between two pings equal, as in the
code; the margin of two estimates is what the properties depend on. The instance
with the code's 50 ticks, round trips of 200, 400 and 600 ms and a quiet peer was
checked as well (9 million states). Deadlock checking is off where the system may
stop: a link with its messages sent, a session that is over, a listener without
requests, a client that got through, a connection that has timed out.

Fairness. `Link`: the tasks are scheduled, so that the next datagram goes out unless
its send fails (`SendFails` may happen and need not), a tracked datagram is sent again and
again (nothing ever takes it out but an ACK), and the network is strongly fair to
each chunk and each ACK, which only says that what is sent for ever arrives some
time. `Session`: tokio polls the tasks that can go on; nothing is assumed of the
peer, the application or of errors. `Listener`: the same for handlers and
waiters, and the application calls `accept()` in a loop. `Client`: tokio runs
`connect()`, its time-outs and the listener, the network becomes calm at some
time, and what a calm network holds arrives; the application calls a failed
`connect()` again, and leaves more than 5 s + 2 RTT between two attempts so that
the session of the last one times out. `KeepAlive` has no fairness: its promises
have deadlines and are invariants.

Three runs expect a violation, each of a statement in the repository:

| Run | Property | What happens |
|---|---|---|
| `datagram_misread` | `DatagramReadsBack` | `decode_datagram` leaves the sequence number in front of the frames (`protocol/codec.rs:664`). Below 16 its bytes read as an empty frame; from 16 on the frames behind it are misread. |
| `client_connect` | `ConnectSucceeds` | The handshake begins with `stream.send` on a stream that is not Connected (`client.rs:198`, `connection.rs:112`): `connect()` always fails, on a perfect network. |
| `link_split_stall` | `AllDelivered` | Fragments take order indices (`connection.rs:658`) but bypass the ordered channel (`:415`): every later single-frame message waits for ever, on a perfect network. |

### Known departures

Statements that the code does not keep and that have no run of their own. Each
was seen with these modules, by adding the formula or changing the constant:

- A duplicate is dropped before it is acknowledged (`connection.rs:261`), so that
  after one lost ACK its datagrams are retransmitted for ever:
  `<>[](DOMAIN send_queue = {})` fails in `Link`. It also fails without loss, by an
  ACK that overtakes `TrackFrame`.
- `AllDelivered` fails with a window of 2 and three messages (the reset makes a
  datagram too old), and for the payload `<<"game", "ping">>` (a chunk that reads
  as a ping is swallowed, `connection.rs:299`).
- `InOrderDelivery` fails when a split message follows a single one.
- `AcceptedIsHeld` fails with a channel of 1 (`ordered.rs:57`).
- With the send queue full a datagram goes out untracked (`connection.rs:570` ignores
  the result of `insert`) and is never repeated, where `docs/ARCHITECTURE.md:455`
  promises `Error::SendQueueFull`; nothing returns that error.
  `TrackedUntilAccepted` fails without its clause on `untracked`.
- A send that fails drops the messages that `send()` had already taken, and the
  connection stays Connected (`connection.rs:634`): `AllDelivered` fails without
  `~sending`.
- `accept()` may return a stream that has already ended (`connection.rs:360` ignores
  the result of `mark_connected`): `OfferedIsUsableOrClosed` fails without
  `is_closed`.
- When the connection ends and the peer is silent, the receive task stays in
  `socket.recv` (`connection.rs:174`) and `recv()` never returns `None` (`:126`).
- The address of an accepted connection is never taken out of `connections`
  (`listener.rs:336`).
- `DeliveredOnce`, `OneSessionPerAddress` and `EarlyPacketsKept` fail without the
  conditions their comments explain.
- Calling `connect()` again at once, every 5 s, keeps the dead session of the last
  attempt alive, since every packet counts as received.
- The time-out is 5 s + 2 RTT where `docs/PROTOCOL.md:458` says 10 s, and the
  estimate keeps 7/8 of the old value where `docs/PROTOCOL.md:453` says 9/10. With
  pings every 5 s, one lost ping or pong, or a first round trip over 600 ms, ends
  an idle connection: `LivePeerKept` fails without `lost > 0`, or without
  `RegularAssumption`.

## What is proved

The theorems hold for every value of the constants that satisfies the assumptions
in the modules: the sizes are natural numbers, the window is not empty and no
larger than half the circle, every message has a chunk, and the round trips of
`KeepAlive` are multiples of a tick, shorter than the time between two pings, and
regular (below). Half the circle is more than 1: on a circle of two numbers a
window of one number would move its base "back". What a single theorem needs
beyond this is a hypothesis in its statement. Each inductive invariant was checked
with TLC before it was proved.

| Module | Theorems |
|---|---|
| `ReliabilityTheorems` | lemmas on the ordered channel, the maps, the receive window and the fragment queue |
| `RecvWindowProofs` | `WindowTypeCorrect`, `WindowNeverFalseDuplicate`, `WindowRemembersUntilReset`, `WindowMissingAreTheGaps`, `WindowBaseMovesForward` |
| `LinkProofs` | `LinkTypeCorrect`, `LinkTracksUntilAccepted`, `LinkDeliversInOrder`, `LinkImplementsStream`, `LinkAcceptedIsHeld`, `LinkDeliversWholeMessages`, `LinkDeliversOnce` |
| `SessionProofs` | `SessionSaysGoodbyeOnce`, `SessionTakesOneLatePacket`, `SessionOffersUsable`, `SessionTransitionsLegal`, `SessionTypeCorrect`, `SessionGamePacketsInOrder`, `SessionKeepsEarlyPackets` |
| `KeepAliveProofs` | `KeepAliveTypeCorrect`, `RttStaysWithinSamples`, `LivePeerNeverDropped`, `DeadPeerIsDetected` |
| `ListenerProofs` | `ListenerTypeCorrect`, `OneLiveSession` |
| `ClientProofs` | `ClientTypeCorrect`, `ClientDatagramsFit`, `ClientFailsForAReason` |
| `PacketProofs` | `TypeCorrect`, `ListCompressed`, `ListExact`, `DecodersNeverPanic`, `NoReadPastTheEnd`, `AcksExact`, `PacketsRead`, `FramesRead` |

**Receive window.** `WindowInv` is the type invariant with `NeverFalseDuplicate`
and `RemembersUntilReset`: the set bits are among the accepted numbers and, until a
reset, are all of them. These are inductive together, since what a shift of the
bits keeps is exactly what the base has not passed (`ShortSlide`). The proofs of
`MissingAreTheGaps` and of `BaseMovesForward` follow from it by arithmetic on the
circle. `WrappingAddIsModular` and `WrappingSubIsModular` show that the corrections
in `Uint24` are reduction modulo the circle, which is what the code's masks do.

**Link, control.** `LinkTypeCorrect` rests on `MarkReceivedType` (a slide never
leaves a bit outside the window, and the branch of `mark_received` that gives up
after a slide is never taken), `ChannelInsertType` and `ReassembleType` (as many
fragments as the count says, with indices below it, leave none out; this needs a
cardinality argument). For `LinkTracksUntilAccepted` the invariant `TrackingInv`
adds that an ACK under way is for accepted datagrams, so that removing what it
names forgets nothing, and that the send task holds one datagram at most
(`AtMostOneHeld`). That a full queue never refuses one of the first `SendQueueSize`
datagrams needs `TrackedInOrder`: until the numbers wrap the queue only has numbers
below the next one to be tracked (`FirstLap`), so that it is full only after that many
(`RoomInQueue`, a cardinality argument), and what is tracked once stays tracked until
it is accepted (`FirstsTracked`), after the wrap too. A send that fails uses up one
number more, which is the last.

**Link, single-frame messages.** `LinkDeliversInOrder` and `LinkImplementsStream`
are for messages of one frame and no more of them than order indices, or than
datagrams that are read as sent (`OneFrameMessages`; with split messages or misread
datagrams the statement is false). `OrderInv` says that every copy of a datagram
anywhere carries the message its order index stands for and has the sequence
number of that message, that the channel has queued only such messages, and that
its next index counts what was delivered. `ChannelFollowsStream` is the lemma on
the channel alone. Window resets, full queues and lost packets are all covered:
they only lose. `LinkAcceptedIsHeld` takes game packets only, no more of them than
the channel queues (`AmpleGamePackets`; a full channel drops what was accepted).
`HeldInv` adds to `OrderInv` that the order index of an accepted datagram is behind
the channel or queued in it; that the channel then has room is a counting argument
(`RoomInChannel`).

**Link, all messages.** `LinkDeliversWholeMessages` has no hypothesis: messages may
be split, entries may expire, and every queue may be too small. The heart of
`WholeInv` is the owner of a split id: a message that is split, the last one to have
taken the id, and the only one whose chunks are on their way under it. Every
datagram on its way is a genuine chunk, and until a datagram is misread each entry
of the fragment queue has chunks of the owner in their places.
`LinkDeliversOnce` assumes that the numbers that are read as sent fit the window
(`CleanSeqs =< WindowSize`, 16 and 2048 in the code): the base then stays at 0 until
a datagram is misread, and the window refuses every second copy. Without a bound
the base walks round the circle, and an old copy passes for a new number. `OnceInv` adds that a chunk goes out under one sequence
number and that what is delivered, queued or awaiting reassembly has all been
received, so that a second whole copy would need a second reception.

**Session.** The control theorems hold for any number of closing tasks, from
`SessionInv`: a state past Connecting was Connected once, one `close()` at most is
sending, and it has left Connected for good, and after a late packet the receive
task never waits for another. `DataInv` is about frames: the login frames have
arrived before the connection is established, the channel queues game packets at
their own indices only, and what it has passed has arrived. `GamePacketsInOrder`
follows whether or not the login frames take order indices. `EarlyPacketsKept`
needs a channel with room for the peer's game packets
(`LastFrame - 1 =< ChannelSize`).

**Keep-alive.** `KeepAliveInv` has five parts beyond the types. A ping is answered
before the next one goes, so that one at most is pending and its age is the time
since the last turn of `ping_counter` (`OnePing`). The tick task has looked at the
silence at every tick (`SilenceBounded`). After the peer's death only the pong under
way can end the silence (`DeadSilence`). While the peer answers, the silence is
what has passed since the last pong, and one interval more while a ping is on its
way (`Answering`). `RttWithinSamples` is inductive as it stands and is used by the
others. `RegularAssumption` says that the first round trip is at most twice the
initial estimate, and that round trips differ by at most twice the
least estimate; without it a live peer is dropped (see the departures above).

**Listener.** `ListenerInv` says that the stream follows its handler, that the
accept queue holds streams that are queued, each once, that the address of a stream
that has been placed is entered, and that of two requests from one address whose
handlers did not overlap one is through before the other is looked at
(`OneAtATime`). The last needs the third: a late handler is refused because it
finds the address.

**Client.** `ClientInv` has two parts. `FitInv`: every packet in flight, stale ones
included, names an MTU that got through the path, so that whatever reply `connect()`
takes for its answer, the largest datagram of the stream fits. `Undisturbed`: in an
attempt that nothing has disturbed exactly one packet is under way, the request or
its reply, or the path has dropped a probe too large for it; a failure is then
impossible if the smallest probe fits and the versions agree.

**Codec.** `Inv` says that the list is sorted with a gap between any two ranges,
that it stands for exactly the numbers inserted (`ListedExactly`), and where the
packet on the wire comes from: it is what some encoder writes for some arguments
(`Origin`), or the beginning of it (`Arrived`). Everything else follows from the
bytes. Beyond `HalfSpaceAssumption` and `PacketAssumption` (fields have their
widths), each theorem names the lengths it needs. Every loop is a recursive
function; a lemma each shows that the function exists, and induction over its turns
goes through `UpTo`, where the predicate is a set of numbers, since the provers
cannot instantiate the library's induction theorems.

- *The list.* `AckInsert` finds the place of the number and merges with the range
  before it, the one after it, or both. `ListCompressed` and `ListExact` hold for
  single numbers and for whole records, which wrap round the circle or not.
- *Reading past the end.* A length check earns credit, a read spends it
  (`Affords`), and a list of steps is `Safe` if some assignment of credits suits it.
  `DecodersNeverPanic` gives one for each of the twelve decoders, for the records of
  an ACK and for every way in which the flags of a frame may continue. It is about
  every string of bytes, whatever its origin.
- *ACKs.* The records lie end to end behind the count, and each is read back where
  it lies (`DecodeRangeAt`); inserted again, their ranges cover what the list covered
  (`InsertRecords`), and `HandleAck` takes these numbers out of the send queue. The
  count is a u16, so `AcknowledgesExactly` is about numbers that form at most 65535
  runs; `RangePerRun` shows, by an injection, that a compressed list has no more
  ranges than its numbers have runs. `AcksExact` is for circles whose numbers fit
  three bytes, the code's included; a longer list needs 65536 gaps between two ticks,
  and its packet would not fit a UDP datagram.
- *Control packets.* What an encoder writes item by item (`Chain`) is paired with
  the steps of the decoder (`Aligned`): each step reads one item back if it is all
  there and fails if it is not. Decoders of other kinds fail at the first byte.
  `PacketsRead` needs pong data whose length fits its u16 (`TextsFit`) and a padding
  that the u16 of the MTU can report (`PaddingsFit`).
- *Frames.* `FrameSize` is `encoded_size`. `Reads` pairs the steps with the parts of
  a frame, and `IsLayout` says what parts can be read back: the fields that the
  flags announce and a payload as long as the length says. Frames sent have this
  layout if eight times the payload, rounded up, fits a u16 (`PayloadsFit`: 8191
  bytes, where `send_message` and the MTU of at most 1500 keep a payload below 1500).
  So has a sequence number below 16: its bytes are the flags and the length of an
  empty frame. `Reached` is the invariant of the frame loop: a number of frames are
  read, and the loop stands at the end of the last, or has failed at a frame that is
  not all there. `FramesRead` then follows since `handle_frame` skips the empty one.

Only model-checked: liveness (`ImplementsFairStream`, `TasksWindDown`,
`LoginReachesAccept`, `FailedLoginFreesAddress`, `ConnectReturns`,
`RetriesGetThrough`), since the prover does not do fairness. Every invariant and
every action property of a passing run is the subject of a theorem.

## Not modelled

- Sockets and errors: calls into the operating system and an enum.
- The client after its handshake: the code never gets there.
- NACKs, which the code decodes and ignores and never produces.
- Delivery at the reliability levels that the code never sends with (`Frames` has
  their headers).
- Byte and packet counts, the RTT variance and the statistics of the queues, which
  are only reported; and when an entry of a queue expires, which the models leave
  open.
- Sequences longer than the circle (order indices wrap at 2^24 while the channel's
  counter does not).
- Messages that `close()` drops without waiting for ACKs: `Session` has the
  behaviour, and no property promises anything else.

## Plan

Done, in this order: the data structures with `RecvWindowModel`; `Link` with
`ReliableOrdered`; `Session`; `Listener`; the first proofs for `Link` and `Session`;
the codec with `PacketModel`, and its misread datagrams in `Link` and its proofs;
`Client`; `KeepAlive`; the proofs of every safety property that the runs check of
the receive window, the link, the session, keep-alive, the listener and the client;
the proofs for the ACK lists and the codec.

What could follow: datagrams with a sequence number of 16 and more, for which `Link`
leaves open what the frame loop makes of them; the liveness properties of
`Listener` and `Client` on larger instances; and simpler proofs where a leaf is slow.
