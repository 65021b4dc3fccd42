-------------------------------- MODULE Link --------------------------------
(***************************************************************************)
(* One direction of an established connection: the send task and the tick  *)
(* task of one endpoint, the receive task and the tick task of the other,  *)
(* and a network between them that delays, reorders, duplicates and, where *)
(* Lossy, loses datagrams and ACK packets (src/connection.rs).             *)
(*                                                                         *)
(* The application queues the messages 1, 2, 3, ...  Payload[m] gives, for *)
(* each chunk of message m, what its first byte reads as: handle_frame     *)
(* looks at the first byte of every frame, also of a fragment, before      *)
(* anything else.  A message of one chunk fits a frame (mtu - 60 bytes);   *)
(* a longer one is split (mtu - 80 bytes a chunk).                         *)
(*                                                                         *)
(* Everything goes out as ReliableOrdered on channel 0, one frame to a     *)
(* datagram.  pending_acks is the set its AckRangeList stands for, as is   *)
(* an ACK packet: PacketModel shows that lists, packets and sets agree.    *)
(* Time is left open: an entry of the send queue may be retransmitted, and *)
(* an incomplete split packet may expire, at any moment.                   *)
(*                                                                         *)
(* decode_datagram leaves the three bytes of the sequence number in front  *)
(* of the frames (PacketModel has the bytes).  Below 16 they read as an    *)
(* empty frame, which is skipped; from 16 on they swallow the header       *)
(* behind them, and what the frame loop makes of the rest depends on every *)
(* byte.  That outcome is left open here (Misread).                        *)
(***************************************************************************)
EXTENDS RecvWindow, SendQueue, OrderedChannel, FragmentQueue

CONSTANTS
    CleanSeqs,          \* the datagrams below it are read as sent: 16 in the code
    Payload,            \* a sequence of messages, each a sequence of first bytes
    Lossy,              \* whether the network loses packets
    FragmentsExpire     \* whether fragments may wait for more than 8 seconds

FirstBytes == {"game", "ping", "disconnect"}

ASSUME PayloadAssumption ==
    /\ Payload \in Seq(Seq(FirstBytes))
    /\ \A m \in DOMAIN Payload : Payload[m] # <<>>

ASSUME CleanSeqsAssumption == CleanSeqs \in Nat

ASSUME LossyAssumption == Lossy \in BOOLEAN

ASSUME FragmentsExpireAssumption == FragmentsExpire \in BOOLEAN

VARIABLES
    \* the sending endpoint
    sending,        \* FALSE once the send task has ended
    msg,            \* the message the send task is at
    part,           \* the chunk of it that goes next
    send_seq,       \* SharedState.send_seq
    order_index,    \* SharedState.order_indices[0]
    split_id,       \* SharedState.split_id
    held,           \* the datagram sent but not yet put in the send queue
    send_queue,     \* SharedState.send_queue
    \* the network
    net,            \* datagrams on their way
    acknet,         \* ACK packets on their way back
    \* the receiving endpoint
    open,           \* FALSE once the state is Disconnected
    receiving,      \* FALSE once the receive task has panicked
    recv_window,    \* SharedState.recv_window
    pending_acks,   \* SharedState.pending_acks
    channel,        \* SharedState.ordered_channels[0]
    splits,         \* SharedState.fragment_queue
    delivered,      \* what went into the application channel
    \* history
    accepted,       \* the datagrams mark_received took for new
    untracked       \* the datagrams the full send queue refused

sender == <<sending, msg, part, send_seq, order_index, split_id>>
tracking == <<held, send_queue, untracked>>
receiver ==
    <<open, receiving, recv_window, pending_acks, channel, splits, delivered, accepted>>
vars == <<sender, tracking, net, acknet, receiver>>

Init ==
    /\ sending = TRUE /\ msg = 1 /\ part = 0
    /\ send_seq = 0 /\ order_index = 0 /\ split_id = 0
    /\ held = {} /\ send_queue = EmptyMap /\ untracked = {}
    /\ net = {} /\ acknet = {}
    /\ open = TRUE /\ receiving = TRUE
    /\ recv_window = EmptyWindow /\ pending_acks = {}
    /\ channel = EmptyChannel /\ splits = EmptyMap
    /\ delivered = <<>> /\ accepted = {}

-----------------------------------------------------------------------------
(***************************************************************************)
(* The send task.                                                          *)
(***************************************************************************)

ChunkCount(m) == Len(Payload[m])

\* The datagram that carries chunk part of message msg: the frame takes the
\* next order index, a fragment too, and the datagram the next number.
NextDatagram ==
    [seq |-> send_seq, order |-> order_index, split |-> split_id,
     index |-> part, count |-> ChunkCount(msg), msg |-> msg]

\* Mutant: every split packet goes out with the same split id.
SendSameSplitId ==
    /\ sending
    /\ msg \in DOMAIN Payload
    /\ held = {}
    /\ net' = net \cup {NextDatagram}
    /\ held' = {NextDatagram}
    /\ send_seq' = wrapping_add(send_seq, 1)
    /\ order_index' = wrapping_add(order_index, 1)
    /\ IF part + 1 < ChunkCount(msg)
       THEN part' = part + 1 /\ UNCHANGED msg
       ELSE part' = 0 /\ msg' = msg + 1
    /\ UNCHANGED <<sending, split_id, send_queue, untracked, acknet, receiver>>

\* socket.send of send_reliable_frame, or of one turn of send_fragmented's
\* loop.  The datagram is not tracked yet.
SendFrame ==
    /\ sending
    /\ msg \in DOMAIN Payload
    /\ held = {}
    /\ net' = net \cup {NextDatagram}
    /\ held' = {NextDatagram}
    /\ send_seq' = wrapping_add(send_seq, 1)
    /\ order_index' = wrapping_add(order_index, 1)
    /\ IF part + 1 < ChunkCount(msg)
       THEN part' = part + 1 /\ UNCHANGED <<msg, split_id>>
       ELSE /\ part' = 0
            /\ msg' = msg + 1
            /\ split_id' = IF ChunkCount(msg) > 1 THEN split_id + 1 ELSE split_id
    /\ UNCHANGED <<sending, send_queue, untracked, acknet, receiver>>

\* socket.send returns an error: the sequence number and the order index are
\* used up, nothing goes out, nothing is tracked, and the send task ends with
\* this message and all after it.  (An error of a send of the tick task is only
\* printed: the datagram or the ACK packet counts as lost.)
SendFails ==
    /\ sending
    /\ msg \in DOMAIN Payload
    /\ held = {}
    /\ sending' = FALSE
    /\ send_seq' = wrapping_add(send_seq, 1)
    /\ order_index' = wrapping_add(order_index, 1)
    /\ UNCHANGED <<msg, part, split_id, tracking, net, acknet, receiver>>

\* The queue.insert after the await of socket.send; its result is ignored.
TrackFrame ==
    /\ held # {}
    /\ LET d == CHOOSE h \in held : TRUE IN
       /\ send_queue' = QueueInsert(send_queue, d.seq, d)
       /\ untracked' = IF IsFull(send_queue) THEN untracked \cup {d} ELSE untracked
    /\ held' = {}
    /\ UNCHANGED <<sender, net, acknet, receiver>>

\* check_retransmissions for one expired entry.  The code collects a batch
\* and then sends it; a datagram sent late is one that the network delayed.
Retransmit(seq) ==
    /\ seq \in DOMAIN send_queue
    /\ net' = net \cup {send_queue[seq]}
    /\ UNCHANGED <<sender, tracking, acknet, receiver>>

\* handle_ack.  The network may keep a copy of the packet.
ReceiveAck(acks) ==
    /\ acks \in acknet
    /\ acknet' \in {acknet, acknet \ {acks}}
    /\ send_queue' = Without(send_queue, acks)
    /\ UNCHANGED <<sender, held, untracked, net, receiver>>

-----------------------------------------------------------------------------
(***************************************************************************)
(* The network.                                                            *)
(***************************************************************************)

LoseDatagram(d) ==
    /\ Lossy
    /\ d \in net
    /\ net' = net \ {d}
    /\ UNCHANGED <<sender, tracking, acknet, receiver>>

LoseAck(acks) ==
    /\ Lossy
    /\ acks \in acknet
    /\ acknet' = acknet \ {acks}
    /\ UNCHANGED <<sender, tracking, net, receiver>>

-----------------------------------------------------------------------------
(***************************************************************************)
(* The receiving endpoint.                                                 *)
(***************************************************************************)

Chunk(m, i) == [msg |-> m, index |-> i]

\* What the application should receive for message m.
Whole(m) == [i \in 1 .. ChunkCount(m) |-> Chunk(m, i - 1)]

FirstByte(d) == Payload[d.msg][d.index + 1]

\* A frame that reads as ID_CONNECTED_PING or ID_CONNECTED_PONG goes to the
\* ping handlers and no further.
HandlePing(d) ==
    /\ FirstByte(d) = "ping"
    /\ UNCHANGED <<open, receiving, channel, splits, delivered>>

\* A frame that reads as ID_DISCONNECT_NOTIFICATION ends the connection.
HandleDisconnect(d) ==
    /\ FirstByte(d) = "disconnect"
    /\ open' = FALSE
    /\ UNCHANGED <<receiving, channel, splits, delivered>>

\* An unsplit ReliableOrdered frame goes through the ordered channel.
HandleOrdered(d) ==
    LET result == ChannelInsert(channel, d.order, <<Chunk(d.msg, d.index)>>) IN
    /\ FirstByte(d) = "game"
    /\ d.count = 1
    /\ channel' = result.channel
    /\ delivered' = delivered \o result.ready
    /\ UNCHANGED <<open, receiving, splits>>

\* A fragment goes to deliver_frame_payload and not through the channel.
HandleFragment(d) ==
    LET result == FragmentInsert(splits, d.split, d.index, d.count,
                                 Chunk(d.msg, d.index)) IN
    /\ FirstByte(d) = "game"
    /\ d.count > 1
    /\ splits' = result.splits
    /\ delivered' = delivered \o result.whole
    /\ UNCHANGED <<open, receiving, channel>>

HandleFrame(d) ==
    \/ HandlePing(d)
    \/ HandleDisconnect(d)
    \/ HandleOrdered(d)
    \/ HandleFragment(d)

\* What misaligned bytes yield: no chunk of any message.
JunkChunk == [msg |-> 0, index |-> 0]

\* Bound: the split headers that misaligned bytes are taken for.
JunkSplit == [id : 0 .. MaxSplits, index : {0, 1}, count : {1, 2}]

MisreadOrdered ==
    /\ \E order \in u24 :
         LET result == ChannelInsert(channel, order, <<JunkChunk>>) IN
         /\ channel' = result.channel
         /\ delivered' = delivered \o result.ready
    /\ UNCHANGED <<open, receiving, splits>>

MisreadFragment ==
    /\ \E s \in JunkSplit :
         LET result == FragmentInsert(splits, s.id, s.index, s.count, JunkChunk) IN
         /\ splits' = result.splits
         /\ delivered' = delivered \o result.whole
    /\ UNCHANGED <<open, receiving, channel>>

\* The frame loop on misaligned bytes: they do not decode, or to nothing that
\* counts; or to a disconnect notification; or to an order channel there is
\* none of, which panics the receive task and leaves the others running; or to
\* a payload that is delivered at once, or ordered, or taken for a fragment.
\* Bound: one such frame.
Misread ==
    \/ UNCHANGED <<open, receiving, channel, splits, delivered>>
    \/ open' = FALSE /\ UNCHANGED <<receiving, channel, splits, delivered>>
    \/ receiving' = FALSE /\ UNCHANGED <<open, channel, splits, delivered>>
    \/ /\ delivered' = Append(delivered, <<JunkChunk>>)
       /\ UNCHANGED <<open, receiving, channel, splits>>
    \/ MisreadOrdered
    \/ MisreadFragment

\* A datagram taken for new is acknowledged before its frames are decoded.
AcceptDatagram(d) ==
    /\ pending_acks' = pending_acks \cup {d.seq}
    /\ accepted' = accepted \cup {d}
    /\ IF d.seq < CleanSeqs THEN HandleFrame(d) ELSE Misread

\* A duplicate, or one that is too old, is dropped and not acknowledged.
IgnoreDatagram ==
    UNCHANGED <<open, receiving, pending_acks, channel, splits, delivered, accepted>>

\* Mutant: a datagram is acknowledged before the window is asked.
AckBeforeCheck(d) ==
    LET marked == MarkReceived(recv_window, d.seq) IN
    /\ open /\ receiving
    /\ d \in net
    /\ net' \in {net, net \ {d}}
    /\ recv_window' = marked.window
    /\ IF marked.verdict = "new"
       THEN AcceptDatagram(d)
       ELSE /\ pending_acks' = pending_acks \cup {d.seq}
            /\ UNCHANGED <<open, receiving, channel, splits, delivered, accepted>>
    /\ UNCHANGED <<sender, tracking, acknet>>

\* handle_datagram.  The network may keep a copy of the datagram.
ReceiveDatagram(d) ==
    LET marked == MarkReceived(recv_window, d.seq) IN
    /\ open /\ receiving
    /\ d \in net
    /\ net' \in {net, net \ {d}}
    /\ recv_window' = marked.window
    /\ IF marked.verdict = "new" THEN AcceptDatagram(d) ELSE IgnoreDatagram
    /\ UNCHANGED <<sender, tracking, acknet>>

\* flush_acks in the receiver's tick task.
FlushAcks ==
    /\ open
    /\ pending_acks # {}
    /\ acknet' = acknet \cup {pending_acks}
    /\ pending_acks' = {}
    /\ UNCHANGED <<sender, tracking, net, open, receiving, recv_window, channel,
                   splits, delivered, accepted>>

\* cleanup_expired in the receiver's tick task, for one entry.
CleanupExpired(id) ==
    /\ FragmentsExpire
    /\ open
    /\ id \in DOMAIN splits
    /\ splits' = Without(splits, {id})
    /\ UNCHANGED <<sender, tracking, net, acknet, open, receiving, recv_window,
                   pending_acks, channel, delivered, accepted>>

-----------------------------------------------------------------------------
Next ==
    \/ SendFrame
    \/ SendFails
    \/ TrackFrame
    \/ \E seq \in DOMAIN send_queue : Retransmit(seq)
    \/ \E acks \in acknet : ReceiveAck(acks) \/ LoseAck(acks)
    \/ \E d \in net : ReceiveDatagram(d) \/ LoseDatagram(d)
    \/ FlushAcks
    \/ \E id \in DOMAIN splits : CleanupExpired(id)

Spec == Init /\ [][Next]_vars

(***************************************************************************)
(* Fairness.  The send task and both tick tasks are scheduled, so the next *)
(* datagram goes out unless its send fails, a held one is tracked, a queued*)
(* one retransmitted and an ACK flushed (the interval timer of tick_task   *)
(* never stops while the connection is open).  SendFails has no fairness:  *)
(* a send may fail, and need not.  The network is fair to each chunk: one  *)
(* sent again and again arrives.                                           *)
(***************************************************************************)
Fairness ==
    /\ WF_vars(SendFrame)
    /\ WF_vars(TrackFrame)
    /\ WF_vars(FlushAcks)
    /\ \A seq \in u24 : WF_vars(Retransmit(seq))
    /\ \A m \in DOMAIN Payload : \A i \in 0 .. ChunkCount(m) - 1 :
          SF_vars(\E d \in net : d.msg = m /\ d.index = i /\ ReceiveDatagram(d))
    /\ \A seq \in u24 : SF_vars(\E acks \in acknet : seq \in acks /\ ReceiveAck(acks))

FairSpec == Spec /\ Fairness

-----------------------------------------------------------------------------
(***************************************************************************)
(* Properties.                                                             *)
(***************************************************************************)

Datagram ==
    [seq : u24, order : u24, split : Nat, index : Nat, count : Nat \ {0},
     msg : DOMAIN Payload]

ChunkType == [msg : DOMAIN Payload \cup {0}, index : Nat]

TypeOK ==
    /\ sending \in BOOLEAN
    /\ msg \in 1 .. Len(Payload) + 1
    /\ part \in Nat /\ split_id \in Nat
    /\ send_seq \in u24 /\ order_index \in u24
    /\ held \subseteq Datagram /\ untracked \subseteq Datagram
    /\ IsMap(send_queue, u24, Datagram)
    /\ net \subseteq Datagram /\ accepted \subseteq Datagram
    /\ acknet \subseteq SUBSET u24
    /\ open \in BOOLEAN /\ receiving \in BOOLEAN
    /\ recv_window \in RecvWindowType
    /\ pending_acks \subseteq u24
    /\ IsChannel(channel, Seq(ChunkType))
    /\ IsSplits(splits, ChunkType)
    /\ delivered \in Seq(Seq(ChunkType))

\* What levels.rs promises for ReliableOrdered, for messages that fit one
\* frame and no more of them than datagrams are read as sent: whatever the
\* network does, and however often the receive window is reset and takes a
\* duplicate for new, the application reads messages 1, 2, 3, ... each once.
InOrderDelivery ==
    \A i \in DOMAIN delivered : i \in DOMAIN Payload /\ delivered[i] = Whole(i)

\* What it takes: every message fits one frame, and there are no more of them
\* than order indices, nor than sequence numbers that are read as sent.
OneFrameMessages ==
    /\ \A m \in DOMAIN Payload : ChunkCount(m) = 1
    /\ Len(Payload) =< SeqSpace /\ Len(Payload) =< CleanSeqs

\* Its inductive strengthening, for messages of one frame.  While there are
\* messages to send the order index, and the sequence number, say which one is
\* next; a datagram anywhere carries the whole message that its order index
\* stands for, and that has been sent; so does every packet the channel has
\* queued; and the channel's next index counts what was delivered.
Carries(d) ==
    /\ d.count = 1 /\ d.index = 0
    /\ d.msg = d.order + 1 /\ d.seq = d.order
    /\ d.msg < msg

Orderly ==
    /\ part = 0
    /\ sending /\ msg \in DOMAIN Payload =>
          order_index = msg - 1 /\ send_seq = msg - 1
    /\ \A d \in net \cup held : Carries(d)
    /\ \A s \in DOMAIN send_queue : Carries(send_queue[s])
    /\ \A k \in DOMAIN channel.queue : k + 1 < msg /\ channel.queue[k] = Whole(k + 1)
    /\ channel.next_index < msg
    /\ Len(delivered) = channel.next_index

OrderInv == TypeOK /\ Orderly /\ InOrderDelivery

\* The same as a refinement: the link implements the ordered stream of
\* ReliableOrdered, a message counting as handed over when its last chunk is
\* on the network.  The stream breaks when a send fails.
Stream == INSTANCE ReliableOrdered
    WITH Messages <- [m \in DOMAIN Payload |-> Whole(m)], submitted <- msg - 1,
         broken <- ~sending

ImplementsStream == Stream!Spec

\* With its liveness: everything handed over is read in the end, also when a
\* later send fails, and everything is handed over unless a send fails.
ImplementsFairStream == Stream!FairSpec

\* No datagram has been misread so far.
NothingMisread == \A d \in accepted : d.seq < CleanSeqs

\* Reassembly never mixes messages, drops a part or repeats one: until the
\* first datagram is misread, everything handed to the application is one whole
\* message that was sent (FragmentQueue::insert, with entries expiring at any
\* moment).
WholeMessages ==
    NothingMisread => \A i \in DOMAIN delivered : \E m \in DOMAIN Payload : delivered[i] = Whole(m)

\* No message reaches the application twice ("Duplicate Detection" of the
\* docs, "duplicates filtered" of levels.rs), as long as the receive window has
\* not been reset by a datagram beyond it (its base is then still 0) and no
\* datagram has been misread.
DeliveredOnce ==
    recv_window.base_seq = 0 /\ NothingMisread =>
        \A i, j \in DOMAIN delivered : delivered[i] = delivered[j] => i = j

\* The datagrams that have been sent so far, by sequence number.  Only used
\* while the numbers have not wrapped.
SentSeqs == 0 .. send_seq - 1

Seqs(S) == {d.seq : d \in S}

\* The sender never forgets a datagram before the receiver has taken it:
\* every number given out is accepted, or can still be retransmitted, or is
\* about to be tracked.  Two are not: the one whose send failed, which is the
\* last; and one that a full queue refused, which is not among the first
\* SendQueueSize.  It rests on ACKs being sent only for what was accepted, on
\* handle_ack removing nothing else and on the limit of the queue.
TrackedUntilAccepted ==
    \A n \in SentSeqs :
        \/ n \in Seqs(accepted) \cup DOMAIN send_queue \cup Seqs(held)
        \/ n \in Seqs(untracked) /\ n >= SendQueueSize
        \/ ~sending /\ n = send_seq - 1

\* Its inductive strengthening.  The send task holds at most one datagram,
\* and none when it has ended; an ACK, pending or on its way, is for a datagram
\* that was accepted.
AtMostOneHeld ==
    /\ held = {} \/ \E d \in held : held = {d}
    /\ held # {} => sending

AcksWereAccepted ==
    /\ pending_acks \subseteq Seqs(accepted)
    /\ \A acks \in acknet : acks \subseteq Seqs(accepted)

\* The first SendQueueSize of the numbers below b are tracked or accepted.
FirstsTracked(b) ==
    \A n \in 0 .. b - 1 :
        n < SendQueueSize => n \in Seqs(accepted) \cup DOMAIN send_queue

\* Until the numbers wrap, those in the queue are below the next one to be
\* tracked, so the queue is not full before SendQueueSize of them were.
FirstLap(b) ==
    /\ DOMAIN send_queue \subseteq 0 .. b - 1
    /\ \A d \in held : d.seq = b
    /\ send_seq = IF held = {} /\ sending THEN b ELSE wrapping_add(b, 1)

TrackedInOrder ==
    \/ FirstsTracked(SeqSpace)
    \/ \E b \in u24 : FirstsTracked(b) /\ FirstLap(b)

\* Every number given out is accounted for, one way or the other.
Accounted(n) ==
    \/ n \in Seqs(accepted) \cup DOMAIN send_queue \cup Seqs(held) \cup Seqs(untracked)
    \/ ~sending /\ n = send_seq - 1

AllAccounted == \A n \in SentSeqs : Accounted(n)

TrackingInv ==
    TypeOK /\ AtMostOneHeld /\ AcksWereAccepted /\ TrackedInOrder /\ AllAccounted

\* What was accepted, and so acknowledged and never sent again, is not lost:
\* its chunk has been delivered or waits in the channel or among the splits.
Waiting(d) ==
    \/ d.order \in DOMAIN channel.queue
    \/ d.split \in DOMAIN splits /\ d.index \in DOMAIN splits[d.split].fragments

AcceptedIsHeld ==
    \A d \in accepted :
        \/ Waiting(d)
        \/ \E i \in DOMAIN delivered : delivered[i] = Whole(d.msg)

\* Every message is eventually delivered, unless a send fails.
AllDelivered == <>(~sending \/ Len(delivered) = Len(Payload))
=============================================================================
