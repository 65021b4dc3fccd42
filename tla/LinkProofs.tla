----------------------------- MODULE LinkProofs -----------------------------
(***************************************************************************)
(* Theorems about Link, for every sequence of messages, every size of the  *)
(* sequence space, the windows and the queues, lossy network or not.       *)
(***************************************************************************)
EXTENDS Link, ReliabilityTheorems, SequenceTheorems

\* The datagram the send task builds next is well formed.
LEMMA NextDatagramType ==
    ASSUME TypeOK, msg \in DOMAIN Payload
    PROVE  NextDatagram \in Datagram
<1>1. ChunkCount(msg) \in Nat \ {0}
  BY PayloadAssumption DEF ChunkCount
<1> QED
  BY <1>1 DEF NextDatagram, Datagram, TypeOK

\* Handling the frame of an accepted datagram keeps the receiver's types,
\* whichever branch of handle_frame it takes.
LEMMA HandleFrameType ==
    ASSUME TypeOK, NEW d \in Datagram, HandleFrame(d)
    PROVE  /\ open' \in BOOLEAN /\ receiving' \in BOOLEAN
           /\ IsChannel(channel', Seq(ChunkType))
           /\ IsSplits(splits', ChunkType)
           /\ delivered' \in Seq(Seq(ChunkType))
<1>1. CASE HandlePing(d)
  BY <1>1 DEF HandlePing, TypeOK
<1>2. CASE HandleDisconnect(d)
  BY <1>2 DEF HandleDisconnect, TypeOK
<1>3. CASE HandleOrdered(d)
  <2> DEFINE result == ChannelInsert(channel, d.order, <<Chunk(d.msg, d.index)>>)
  <2>1. <<Chunk(d.msg, d.index)>> \in Seq(ChunkType) /\ d.order \in u24
    BY DEF Chunk, ChunkType, Datagram
  <2>2. /\ IsChannel(result.channel, Seq(ChunkType))
        /\ result.ready \in Seq(Seq(ChunkType))
    BY <2>1, ChannelInsertType DEF TypeOK
  <2>3. /\ channel' = result.channel /\ delivered' = delivered \o result.ready
        /\ open' = open /\ receiving' = receiving /\ splits' = splits
    BY <1>3 DEF HandleOrdered
  <2> HIDE DEF result
  <2>4. delivered' \in Seq(Seq(ChunkType))
    BY <2>2, <2>3, ConcatProperties DEF TypeOK
  <2> QED
    BY <2>2, <2>3, <2>4 DEF TypeOK
<1>4. CASE HandleFragment(d)
  <2> DEFINE result == FragmentInsert(splits, d.split, d.index, d.count,
                                      Chunk(d.msg, d.index))
  <2>1. /\ Chunk(d.msg, d.index) \in ChunkType
        /\ d.split \in Nat /\ d.index \in Nat /\ d.count \in Nat \ {0}
    BY DEF Chunk, ChunkType, Datagram
  <2>2. IsSplits(result.splits, ChunkType) /\ result.whole \in Seq(Seq(ChunkType))
    BY <2>1, FragmentInsertType DEF TypeOK
  <2>3. /\ splits' = result.splits /\ delivered' = delivered \o result.whole
        /\ open' = open /\ receiving' = receiving /\ channel' = channel
    BY <1>4 DEF HandleFragment
  <2> HIDE DEF result
  <2>4. delivered' \in Seq(Seq(ChunkType))
    BY <2>2, <2>3, ConcatProperties DEF TypeOK
  <2> QED
    BY <2>2, <2>3, <2>4 DEF TypeOK
<1> QED
  BY <1>1, <1>2, <1>3, <1>4 DEF HandleFrame

\* Nor does anything the frame loop can make of misaligned bytes break them.
LEMMA MisreadType ==
    ASSUME TypeOK, Misread
    PROVE  /\ open' \in BOOLEAN /\ receiving' \in BOOLEAN
           /\ IsChannel(channel', Seq(ChunkType))
           /\ IsSplits(splits', ChunkType)
           /\ delivered' \in Seq(Seq(ChunkType))
<1>1. JunkChunk \in ChunkType /\ <<JunkChunk>> \in Seq(ChunkType)
  BY DEF JunkChunk, ChunkType
<1>2. CASE UNCHANGED <<channel, splits, delivered>> /\ open' \in BOOLEAN /\ receiving' \in BOOLEAN
  BY <1>2 DEF TypeOK
<1>3. CASE /\ delivered' = Append(delivered, <<JunkChunk>>)
           /\ UNCHANGED <<open, receiving, channel, splits>>
  BY <1>1, <1>3, AppendProperties DEF TypeOK
<1>4. CASE MisreadOrdered
  <2>1. PICK order \in u24 :
            LET result == ChannelInsert(channel, order, <<JunkChunk>>) IN
            channel' = result.channel /\ delivered' = delivered \o result.ready
    BY <1>4 DEF MisreadOrdered
  <2> DEFINE result == ChannelInsert(channel, order, <<JunkChunk>>)
  <2>2. /\ IsChannel(result.channel, Seq(ChunkType))
        /\ result.ready \in Seq(Seq(ChunkType))
    BY <1>1, ChannelInsertType DEF TypeOK
  <2>3. /\ channel' = result.channel /\ delivered' = delivered \o result.ready
        /\ open' = open /\ receiving' = receiving /\ splits' = splits
    BY <1>4, <2>1 DEF MisreadOrdered
  <2> HIDE DEF result
  <2>4. delivered' \in Seq(Seq(ChunkType))
    BY <2>2, <2>3, ConcatProperties DEF TypeOK
  <2> QED
    BY <2>2, <2>3, <2>4 DEF TypeOK
<1>5. CASE MisreadFragment
  <2>1. PICK s \in JunkSplit :
            LET result == FragmentInsert(splits, s.id, s.index, s.count, JunkChunk) IN
            splits' = result.splits /\ delivered' = delivered \o result.whole
    BY <1>5 DEF MisreadFragment
  <2> DEFINE result == FragmentInsert(splits, s.id, s.index, s.count, JunkChunk)
  <2>2. s.id \in Nat /\ s.index \in Nat /\ s.count \in Nat \ {0}
    BY MaxSplitsAssumption DEF JunkSplit
  <2>3. IsSplits(result.splits, ChunkType) /\ result.whole \in Seq(Seq(ChunkType))
    BY <1>1, <2>2, FragmentInsertType DEF TypeOK
  <2>4. /\ splits' = result.splits /\ delivered' = delivered \o result.whole
        /\ open' = open /\ receiving' = receiving /\ channel' = channel
    BY <1>5, <2>1 DEF MisreadFragment
  <2> HIDE DEF result
  <2>5. delivered' \in Seq(Seq(ChunkType))
    BY <2>3, <2>4, ConcatProperties DEF TypeOK
  <2> QED
    BY <2>3, <2>4, <2>5 DEF TypeOK
<1> QED
  BY <1>2, <1>3, <1>4, <1>5 DEF Misread, TypeOK

\* handle_datagram as a whole preserves the types, the window and the
\* pending ACKs included.
LEMMA ReceiveDatagramType ==
    ASSUME TypeOK, NEW d \in net, ReceiveDatagram(d)
    PROVE  TypeOK'
<1> DEFINE marked == MarkReceived(recv_window, d.seq)
<1>1. d \in Datagram /\ d.seq \in u24
  BY DEF TypeOK, Datagram
<1>2. recv_window' \in RecvWindowType
  BY <1>1, MarkReceivedType DEF TypeOK, ReceiveDatagram
<1>3. net' \subseteq Datagram
  BY DEF TypeOK, ReceiveDatagram
<1>4. UNCHANGED <<sender, tracking, acknet>>
  BY DEF ReceiveDatagram
<1>5. CASE marked.verdict = "new"
  <2>1. AcceptDatagram(d)
    BY <1>5 DEF ReceiveDatagram
  <2>2. /\ open' \in BOOLEAN /\ receiving' \in BOOLEAN
        /\ IsChannel(channel', Seq(ChunkType))
        /\ IsSplits(splits', ChunkType)
        /\ delivered' \in Seq(Seq(ChunkType))
    BY <1>1, <2>1, HandleFrameType, MisreadType DEF AcceptDatagram
  <2>3. pending_acks' \subseteq u24 /\ accepted' \subseteq Datagram
    BY <1>1, <2>1 DEF AcceptDatagram, TypeOK
  <2> QED
    BY <1>2, <1>3, <1>4, <2>2, <2>3 DEF TypeOK, sender, tracking
<1>6. CASE marked.verdict # "new"
  <2>1. IgnoreDatagram
    BY <1>6 DEF ReceiveDatagram
  <2> QED
    BY <1>2, <1>3, <1>4, <2>1 DEF TypeOK, sender, tracking, IgnoreDatagram
<1> QED
  BY <1>5, <1>6

\* A connection that has just been set up is well typed.
LEMMA TypeInit == Init => TypeOK
<1> SUFFICES ASSUME Init PROVE TypeOK
  OBVIOUS
<1>1. 0 \in u24 /\ 0 \in 0 .. SeqSpace
  BY HalfSpaceAssumption DEF u24, SeqSpace
<1>2. EmptyWindow \in RecvWindowType
  BY <1>1 DEF EmptyWindow, RecvWindowType
<1>3. IsChannel(EmptyChannel, Seq(ChunkType))
  BY <1>1, EmptyMapType DEF EmptyChannel, IsChannel
<1>4. IsSplits(EmptyMap, ChunkType)
  BY DEF IsSplits, EmptyMap
<1>5. IsMap(EmptyMap, u24, Datagram)
  BY EmptyMapType
<1>6. msg \in 1 .. Len(Payload) + 1
  BY PayloadAssumption DEF Init
<1> QED
  BY <1>1, <1>2, <1>3, <1>4, <1>5, <1>6 DEF Init, TypeOK

\* Every step of either endpoint and of the network preserves the types.
LEMMA TypeStep == TypeOK /\ [Next]_vars => TypeOK'
<1> SUFFICES ASSUME TypeOK, [Next]_vars PROVE TypeOK'
  OBVIOUS
<1>1. CASE SendFrame
  <2>1. NextDatagram \in Datagram
    BY <1>1, NextDatagramType DEF SendFrame
  <2>2. send_seq' \in u24 /\ order_index' \in u24
    <3>1. 1 \in u24
      BY HalfSpaceAssumption DEF u24, SeqSpace
    <3> QED
      BY <1>1, <3>1, WrappingType DEF SendFrame, TypeOK
  <2>3. msg' \in 1 .. Len(Payload) + 1 /\ part' \in Nat /\ split_id' \in Nat
    <3>1. Len(Payload) \in Nat /\ msg \in 1 .. Len(Payload)
      BY <1>1, PayloadAssumption DEF SendFrame
    <3> QED
      BY <1>1, <3>1 DEF SendFrame, TypeOK
  <2> QED
    BY <1>1, <2>1, <2>2, <2>3 DEF SendFrame, TypeOK, receiver
<1>2. CASE TrackFrame
  <2> DEFINE d == CHOOSE h \in held : TRUE
  <2>1. d \in held /\ d \in Datagram /\ d.seq \in u24
    BY <1>2 DEF TrackFrame, TypeOK, Datagram
  <2> HIDE DEF d
  <2>2. IsMap(QueueInsert(send_queue, d.seq, d), u24, Datagram)
    BY <2>1, PutType DEF QueueInsert, TypeOK
  <2> QED
    BY <1>2, <2>1, <2>2 DEF TrackFrame, TypeOK, sender, receiver, d
<1>3. ASSUME NEW seq \in DOMAIN send_queue, Retransmit(seq) PROVE TypeOK'
  BY <1>3 DEF Retransmit, TypeOK, IsMap, sender, tracking, receiver
<1>4. ASSUME NEW acks \in acknet, ReceiveAck(acks) PROVE TypeOK'
  <2>1. IsMap(Without(send_queue, acks), u24, Datagram)
    BY WithoutType DEF TypeOK
  <2> QED
    BY <1>4, <2>1 DEF ReceiveAck, TypeOK, sender, receiver
<1>5. ASSUME NEW acks \in acknet, LoseAck(acks) PROVE TypeOK'
  BY <1>5 DEF LoseAck, TypeOK, sender, tracking, receiver
<1>6. ASSUME NEW d \in net, ReceiveDatagram(d) PROVE TypeOK'
  BY <1>6, ReceiveDatagramType
<1>7. ASSUME NEW d \in net, LoseDatagram(d) PROVE TypeOK'
  BY <1>7 DEF LoseDatagram, TypeOK, sender, tracking, receiver
<1>8. CASE FlushAcks
  BY <1>8 DEF FlushAcks, TypeOK, sender, tracking
<1>9. ASSUME NEW id \in DOMAIN splits, CleanupExpired(id) PROVE TypeOK'
  <2>1. IsSplits(Without(splits, {id}), ChunkType)
    BY DEF TypeOK, IsSplits, Without
  <2> QED
    BY <1>9, <2>1 DEF CleanupExpired, TypeOK, sender, tracking
<1>10. CASE SendFails
  <2>1. 1 \in u24
    BY HalfSpaceAssumption DEF u24, SeqSpace
  <2>2. send_seq' \in u24 /\ order_index' \in u24
    BY <1>10, <2>1, WrappingType DEF SendFails, TypeOK
  <2> QED
    BY <1>10, <2>2 DEF SendFails, TypeOK, tracking, receiver
<1>11. CASE UNCHANGED vars
  BY <1>11 DEF vars, TypeOK, sender, tracking, receiver
<1> QED
  BY <1>1, <1>2, <1>3, <1>4, <1>5, <1>6, <1>7, <1>8, <1>9, <1>10, <1>11 DEF Next

\* Every reachable state of the link is well typed: in particular sequence
\* and order indices stay on the 24-bit circle, the ordered channel never
\* queues an index outside it and its drain loop ends, and reassembly
\* produces a sequence of fragments with none missing.
THEOREM LinkTypeCorrect == Spec => []TypeOK
BY TypeInit, TypeStep, PTL DEF Spec

-----------------------------------------------------------------------------
\* A step of the receiver that accepts datagrams only adds to them.
LEMMA ReceiveAccepts ==
    ASSUME NEW d \in net, ReceiveDatagram(d)
    PROVE  \/ /\ accepted' = accepted \cup {d}
              /\ pending_acks' = pending_acks \cup {d.seq}
           \/ accepted' = accepted /\ pending_acks' = pending_acks
BY DEF ReceiveDatagram, AcceptDatagram, IgnoreDatagram

\* A send queue whose keys are below a bound is not full before the bound.
LEMMA RoomInQueue ==
    ASSUME NEW b \in Nat, b < SendQueueSize, DOMAIN send_queue \subseteq 0 .. b - 1
    PROVE  ~ IsFull(send_queue)
<1>1. IsFiniteSet(0 .. b - 1) /\ Cardinality(0 .. b - 1) = b
  <2>1. CASE b = 0
    <3>1. 0 .. b - 1 = {}
      BY <2>1
    <3> QED
      BY <2>1, <3>1, FS_EmptySet
  <2>2. CASE b # 0
    <3>1. b - 1 \in Int /\ ~ (0 > b - 1) /\ b - 1 - 0 + 1 = b
      BY <2>2
    <3> QED
      BY <3>1, FS_Interval
  <2> QED
    BY <2>1, <2>2
<1>2. /\ Cardinality(DOMAIN send_queue) \in Nat
      /\ Cardinality(DOMAIN send_queue) =< b
  BY <1>1, FS_Subset, FS_CardinalityType
<1> QED
  BY <1>2, SendQueueSizeAssumption DEF IsFull, Size

\* What is tracked or accepted remains so in a step that removes from the queue
\* only what was accepted.
LEMMA FirstsStayTracked ==
    ASSUME NEW b,
           Seqs(accepted) \cup DOMAIN send_queue
               \subseteq Seqs(accepted') \cup DOMAIN send_queue',
           FirstsTracked(b)
    PROVE  FirstsTracked(b)'
BY DEF FirstsTracked

\* The number after b, until the numbers wrap.
LEMMA NextNumber ==
    ASSUME NEW b \in u24
    PROVE  /\ b \in Nat /\ SeqSpace \in Nat
           /\ \/ b + 1 < SeqSpace /\ wrapping_add(b, 1) = b + 1 /\ b + 1 \in u24
              \/ b + 1 = SeqSpace /\ wrapping_add(b, 1) = 0
BY HalfSpaceAssumption DEF wrapping_add, u24, SeqSpace

\* The invariant over a step that leaves the send task alone: the queue loses
\* only what was accepted and gains nothing.
LEMMA TrackedInOrderStays ==
    ASSUME TrackedInOrder, UNCHANGED <<held, send_seq, sending>>,
           DOMAIN send_queue' \subseteq DOMAIN send_queue,
           Seqs(accepted) \cup DOMAIN send_queue
               \subseteq Seqs(accepted') \cup DOMAIN send_queue'
    PROVE  TrackedInOrder'
<1>1. ASSUME NEW b \in u24, FirstsTracked(b), FirstLap(b)
      PROVE  FirstsTracked(b)' /\ FirstLap(b)'
  BY <1>1, FirstsStayTracked DEF FirstLap
<1>2. FirstsTracked(SeqSpace) => FirstsTracked(SeqSpace)'
  BY FirstsStayTracked
<1> QED
  BY <1>1, <1>2 DEF TrackedInOrder

\* The invariant over the send task's steps.
LEMMA SendTaskInOrder ==
    ASSUME TrackingInv, SendFrame \/ SendFails \/ TrackFrame
    PROVE  TrackedInOrder'
<1>1. CASE FirstsTracked(SeqSpace)
  <2>1. DOMAIN send_queue \subseteq DOMAIN send_queue'
    BY DEF SendFrame, SendFails, TrackFrame, tracking, QueueInsert, Put
  <2>2. accepted' = accepted
    BY DEF SendFrame, SendFails, TrackFrame, receiver
  <2> QED
    BY <1>1, <2>1, <2>2, FirstsStayTracked DEF TrackedInOrder
<1>2. ASSUME NEW b \in u24, FirstsTracked(b), FirstLap(b)
      PROVE  TrackedInOrder'
  <2>0. b \in Nat /\ b \in Int
    BY NextNumber
  <2>1. CASE SendFrame \/ SendFails
    <3>1. /\ held = {} /\ sending /\ send_queue' = send_queue /\ accepted' = accepted
          /\ send_seq = b /\ send_seq' = wrapping_add(b, 1)
      BY <1>2, <2>1 DEF SendFrame, SendFails, tracking, receiver, FirstLap
    <3>2. FirstsTracked(b)'
      BY <1>2, <3>1, FirstsStayTracked
    <3>3. ASSUME NEW d \in held' PROVE d.seq = b
      <4>1. SendFrame
        BY <2>1, <3>1, <3>3 DEF SendFails, tracking
      <4>2. d = NextDatagram
        BY <3>3, <4>1 DEF SendFrame
      <4> QED
        BY <3>1, <4>2 DEF NextDatagram
    <3>4. ~ (held' = {} /\ sending')
      BY <2>1 DEF SendFrame, SendFails
    <3>5. FirstLap(b)'
      BY <1>2, <3>1, <3>3, <3>4 DEF FirstLap
    <3> QED
      BY <3>2, <3>5 DEF TrackedInOrder
  <2>2. CASE TrackFrame
    <3> DEFINE d == CHOOSE h \in held : TRUE
    <3>1. d \in held /\ held # {}
      BY <2>2 DEF TrackFrame
    <3>2. /\ send_queue' = QueueInsert(send_queue, d.seq, d) /\ held' = {}
          /\ UNCHANGED <<send_seq, sending, accepted>>
      BY <2>2 DEF TrackFrame, sender, receiver
    <3> HIDE DEF d
    <3>3. d.seq = b /\ send_seq = wrapping_add(b, 1) /\ sending
          /\ DOMAIN send_queue \subseteq 0 .. b - 1
      BY <1>2, <3>1 DEF FirstLap, TrackingInv, AtMostOneHeld
    <3>4. /\ DOMAIN send_queue \subseteq DOMAIN send_queue'
          /\ DOMAIN send_queue' \subseteq DOMAIN send_queue \cup {b}
      BY <3>2, <3>3 DEF QueueInsert, Put
    <3>5. b < SendQueueSize => b \in DOMAIN send_queue'
      BY <2>0, <3>2, <3>3, RoomInQueue DEF QueueInsert, Put
    <3>6. FirstsTracked(b + 1)'
      <4>1. FirstsTracked(b)'
        BY <1>2, <3>2, <3>4, FirstsStayTracked
      <4>2. \A n \in 0 .. (b + 1) - 1 : n \in 0 .. b - 1 \/ n = b
        BY <2>0
      <4> QED
        BY <3>5, <4>1, <4>2 DEF FirstsTracked
    <3>7. CASE b + 1 = SeqSpace
      BY <3>6, <3>7 DEF TrackedInOrder
    <3>8. CASE wrapping_add(b, 1) = b + 1 /\ b + 1 \in u24
      <4>1. DOMAIN send_queue' \subseteq 0 .. (b + 1) - 1
        BY <2>0, <3>3, <3>4
      <4>2. FirstLap(b + 1)'
        BY <3>2, <3>3, <3>8, <4>1 DEF FirstLap
      <4> QED
        BY <3>6, <3>8, <4>2 DEF TrackedInOrder
    <3> QED
      BY <3>7, <3>8, NextNumber
  <2> QED
    BY <2>1, <2>2
<1> QED
  BY <1>1, <1>2 DEF TrackingInv, TrackedInOrder

\* A number remains accounted for over a step that gives out none, when the
\* queue and the send task lose only what was accepted, tracked or refused.
LEMMA AccountedStays ==
    ASSUME UNCHANGED <<send_seq, sending>>, AllAccounted,
           Seqs(accepted) \cup DOMAIN send_queue \cup Seqs(held) \cup Seqs(untracked)
               \subseteq Seqs(accepted') \cup DOMAIN send_queue' \cup Seqs(held')
                         \cup Seqs(untracked')
    PROVE  AllAccounted'
BY DEF SentSeqs, Accounted, AllAccounted

\* Being accounted for, and the order of tracking, give the property.
LEMMA TrackedFromOrder ==
    ASSUME TypeOK, TrackedInOrder, AllAccounted
    PROVE  TrackedUntilAccepted
<1> SUFFICES ASSUME NEW n \in SentSeqs
             PROVE  \/ n \in Seqs(accepted) \cup DOMAIN send_queue \cup Seqs(held)
                    \/ n \in Seqs(untracked) /\ n >= SendQueueSize
                    \/ ~sending /\ n = send_seq - 1
  BY DEF TrackedUntilAccepted
<1>1. /\ send_seq \in Nat /\ send_seq < SeqSpace /\ SeqSpace \in Nat
      /\ n \in Nat /\ n < send_seq
  BY HalfSpaceAssumption DEF TypeOK, SentSeqs, u24, SeqSpace
<1>2. CASE n >= SendQueueSize
  BY <1>2 DEF AllAccounted, Accounted
<1>3. CASE n < SendQueueSize
  <2>1. CASE FirstsTracked(SeqSpace)
    BY <1>1, <1>3, <2>1 DEF FirstsTracked
  <2>2. ASSUME NEW b \in u24, FirstsTracked(b), FirstLap(b)
        PROVE  \/ n \in Seqs(accepted) \cup DOMAIN send_queue \cup Seqs(held)
               \/ ~sending /\ n = send_seq - 1
    <3>1. b \in Nat /\ (send_seq = b \/ send_seq = b + 1)
          /\ (send_seq = b + 1 => held # {} \/ ~sending)
      BY <1>1, <2>2, NextNumber DEF FirstLap
    <3>2. CASE n < b
      BY <1>1, <1>3, <2>2, <3>1, <3>2 DEF FirstsTracked
    <3>3. CASE n = b
      <4>1. send_seq = b + 1 /\ (held # {} \/ ~sending)
        BY <1>1, <3>1, <3>3
      <4>2. held # {} => b \in Seqs(held)
        BY <2>2 DEF FirstLap, Seqs
      <4> QED
        BY <3>1, <3>3, <4>1, <4>2
    <3> QED
      BY <1>1, <3>1, <3>2, <3>3
  <2> QED
    BY <2>1, <2>2 DEF TrackedInOrder
<1> QED
  BY <1>1, <1>2, <1>3, SendQueueSizeAssumption

\* The inductive step of the tracking invariant: sending, failing, tracking,
\* acknowledging and accepting keep every number accounted for.
LEMMA TrackingStep == TrackingInv /\ [Next]_vars => TrackingInv'
<1> SUFFICES ASSUME TrackingInv, [Next]_vars PROVE TrackingInv'
  OBVIOUS
<1> DEFINE Goal == AtMostOneHeld' /\ AcksWereAccepted' /\ TrackedInOrder' /\ AllAccounted'
<1>1. ASSUME SendFrame \/ SendFails PROVE Goal
  <2>1. AtMostOneHeld'
    BY <1>1 DEF SendFrame, SendFails, tracking, AtMostOneHeld
  <2>2. AcksWereAccepted'
    BY <1>1 DEF SendFrame, SendFails, receiver, TrackingInv, AcksWereAccepted, Seqs
  <2>3. /\ held = {} /\ sending /\ send_seq' = wrapping_add(send_seq, 1)
        /\ UNCHANGED <<send_queue, untracked, accepted>>
    BY <1>1 DEF SendFrame, SendFails, tracking, receiver
  <2>4. ASSUME NEW n \in SentSeqs' PROVE Accounted(n)'
    <3>1. send_seq \in u24
      BY DEF TrackingInv, TypeOK
    <3>2. n \in SentSeqs \/ (n = send_seq /\ send_seq' = send_seq + 1 /\ send_seq \in Nat)
      BY <2>3, <2>4, <3>1, NextNumber DEF SentSeqs
    <3>3. CASE n \in SentSeqs
      <4>1. n \in Seqs(accepted) \cup DOMAIN send_queue \cup Seqs(untracked)
        BY <2>3, <3>3 DEF TrackingInv, AllAccounted, Accounted, Seqs
      <4> QED
        BY <2>3, <4>1 DEF Accounted
    <3>4. CASE n = send_seq /\ send_seq' = send_seq + 1 /\ send_seq \in Nat
      <4>1. CASE SendFrame
        <5>1. NextDatagram \in held' /\ NextDatagram.seq = n
          BY <3>4, <4>1 DEF SendFrame, NextDatagram
        <5> QED
          BY <5>1 DEF Accounted, Seqs
      <4>2. CASE SendFails
        BY <3>4, <4>2 DEF SendFails, Accounted
      <4> QED
        BY <1>1, <4>1, <4>2
    <3> QED
      BY <3>2, <3>3, <3>4
  <2> QED
    BY <1>1, <2>1, <2>2, <2>4, SendTaskInOrder DEF AllAccounted
<1>2. ASSUME TrackFrame PROVE Goal
  <2> DEFINE d == CHOOSE h \in held : TRUE
  <2>1. held = {d}
    BY <1>2 DEF TrackFrame, TrackingInv, AtMostOneHeld
  <2>2. /\ send_queue' = QueueInsert(send_queue, d.seq, d)
        /\ untracked' = IF IsFull(send_queue) THEN untracked \cup {d} ELSE untracked
        /\ held' = {} /\ UNCHANGED <<sender, acknet, receiver>>
    BY <1>2 DEF TrackFrame
  <2> HIDE DEF d
  <2>3. DOMAIN send_queue \cup {d.seq} \cup Seqs(untracked)
            \subseteq DOMAIN send_queue' \cup Seqs(untracked')
    BY <2>2 DEF QueueInsert, Put, Seqs
  <2>4. AllAccounted'
    <3>1. Seqs(held) = {d.seq} /\ accepted' = accepted
      BY <2>1, <2>2 DEF Seqs, receiver
    <3> QED
      BY <2>2, <2>3, <3>1, AccountedStays DEF sender, TrackingInv
  <2> QED
    BY <1>2, <2>2, <2>4, SendTaskInOrder
    DEF receiver, TrackingInv, AtMostOneHeld, AcksWereAccepted, Seqs
<1>3. ASSUME UNCHANGED <<sender, held, untracked>>,
             DOMAIN send_queue' \subseteq DOMAIN send_queue,
             accepted \subseteq accepted',
             DOMAIN send_queue \subseteq Seqs(accepted) \cup DOMAIN send_queue',
             AcksWereAccepted'
      PROVE  Goal
  <2>1. Seqs(accepted) \subseteq Seqs(accepted')
    BY <1>3 DEF Seqs
  <2>2. TrackedInOrder'
    BY <1>3, <2>1, TrackedInOrderStays DEF TrackingInv, sender
  <2>3. AllAccounted'
    BY <1>3, <2>1, AccountedStays DEF sender, TrackingInv
  <2> QED
    BY <1>3, <2>2, <2>3 DEF TrackingInv, AtMostOneHeld, sender
<1>4. ASSUME NEW acks \in acknet, ReceiveAck(acks) PROVE Goal
  <2>1. acks \subseteq Seqs(accepted)
    BY DEF TrackingInv, AcksWereAccepted
  <2>2. DOMAIN send_queue' = DOMAIN send_queue \ acks
    BY <1>4 DEF ReceiveAck, Without
  <2>3. AcksWereAccepted'
    BY <1>4 DEF ReceiveAck, receiver, TrackingInv, AcksWereAccepted, Seqs
  <2> QED
    BY <1>3, <1>4, <2>1, <2>2, <2>3 DEF ReceiveAck, receiver
<1>5. ASSUME NEW d \in net, ReceiveDatagram(d) PROVE Goal
  <2>1. UNCHANGED <<sender, tracking, acknet>>
    BY <1>5 DEF ReceiveDatagram
  <2>2. AcksWereAccepted' /\ accepted \subseteq accepted'
    BY <1>5, <2>1, ReceiveAccepts DEF TrackingInv, AcksWereAccepted, Seqs
  <2> QED
    BY <1>3, <2>1, <2>2 DEF tracking
<1>6. ASSUME FlushAcks PROVE Goal
  <2>1. AcksWereAccepted'
    BY <1>6 DEF FlushAcks, TrackingInv, AcksWereAccepted, Seqs
  <2> QED
    BY <1>3, <1>6, <2>1 DEF FlushAcks, tracking
<1>7. ASSUME UNCHANGED <<sender, tracking, pending_acks, accepted>>,
             acknet' \subseteq acknet
      PROVE  Goal
  <2>1. AcksWereAccepted'
    BY <1>7 DEF TrackingInv, AcksWereAccepted, Seqs
  <2> QED
    BY <1>3, <1>7, <2>1 DEF tracking
<1>8. \/ SendFrame \/ SendFails \/ TrackFrame
      \/ \E acks \in acknet : ReceiveAck(acks)
      \/ \E d \in net : ReceiveDatagram(d)
      \/ FlushAcks
      \/ /\ UNCHANGED <<sender, tracking, pending_acks, accepted>>
         /\ acknet' \subseteq acknet
  BY DEF Next, vars, receiver, Retransmit, LoseAck, LoseDatagram, CleanupExpired
<1>9. Goal
  BY <1>1, <1>2, <1>4, <1>5, <1>6, <1>7, <1>8
<1> QED
  BY <1>9, TypeStep DEF TrackingInv

\* The sender never forgets a datagram before the receiver has accepted it,
\* whatever is lost, duplicated or delayed, and whenever the ACKs arrive.  Two
\* datagrams it does not track: the one whose send failed, after which nothing
\* is sent, and one beyond the first SendQueueSize that a full queue refused.
THEOREM LinkTracksUntilAccepted == Spec => []TrackedUntilAccepted
<1>1. Init => TrackingInv
  <2> SUFFICES ASSUME Init PROVE TrackingInv
    OBVIOUS
  <2>1. TypeOK
    BY TypeInit
  <2>2. SentSeqs = {}
    BY DEF Init, SentSeqs
  <2>3. 0 \in u24 /\ 0 .. 0 - 1 = {}
    BY HalfSpaceAssumption DEF u24, SeqSpace
  <2>4. FirstsTracked(0) /\ FirstLap(0)
    BY <2>3 DEF Init, FirstsTracked, FirstLap, EmptyMap
  <2>5. TrackedInOrder
    BY <2>3, <2>4 DEF TrackedInOrder
  <2> QED
    BY <2>1, <2>2, <2>5 DEF Init, TrackingInv, AtMostOneHeld, AcksWereAccepted,
                            AllAccounted, Seqs
<1>2. TrackingInv => TrackedUntilAccepted
  BY TrackedFromOrder DEF TrackingInv
<1> QED
  BY <1>1, <1>2, TrackingStep, PTL DEF Spec

-----------------------------------------------------------------------------
\* The stream of messages by order index.
StreamOf == [k \in u24 |-> Whole(k + 1)]

\* A message that fits one frame is delivered as its one chunk.
LEMMA WholeOfOneFrame ==
    ASSUME OneFrameMessages, NEW m \in DOMAIN Payload
    PROVE  Whole(m) = <<Chunk(m, 0)>>
BY DEF OneFrameMessages, Whole

\* An unsplit frame that carries its message moves the channel along the
\* stream: still only sent messages are queued, each at its own index, and
\* what is delivered is the next piece of the stream.
LEMMA HandleOrderedStep ==
    ASSUME OneFrameMessages, OrderInv, NEW d \in Datagram, Carries(d), HandleOrdered(d)
    PROVE  /\ \A k \in DOMAIN channel'.queue :
                  k + 1 < msg /\ channel'.queue[k] = Whole(k + 1)
           /\ channel'.next_index < msg
           /\ Len(delivered') = channel'.next_index
           /\ \A i \in DOMAIN delivered' : i \in DOMAIN Payload /\ delivered'[i] = Whole(i)
<1> DEFINE data == <<Chunk(d.msg, d.index)>>
           result == ChannelInsert(channel, d.order, data)
           next == result.channel.next_index
<1>1. /\ TypeOK /\ Orderly /\ InOrderDelivery
  BY DEF OrderInv
<1>2. d.order \in u24 /\ d.msg = d.order + 1 /\ d.msg \in DOMAIN Payload /\ d.msg < msg
  BY DEF Datagram, Carries
<1>3. data = StreamOf[d.order]
  BY <1>2, WholeOfOneFrame DEF StreamOf, Carries
<1>4. IsChannel(channel, Seq(ChunkType)) /\ DOMAIN channel.queue \subseteq u24
  BY <1>1 DEF TypeOK, IsChannel, IsMap
<1>5. \A k \in DOMAIN channel.queue : channel.queue[k] = StreamOf[k]
  BY <1>1, <1>4 DEF Orderly, StreamOf
<1>6. channel' = result.channel /\ delivered' = delivered \o result.ready
  BY DEF HandleOrdered
<1>7. /\ next \in channel.next_index .. SeqSpace
      /\ channel.next_index .. next - 1 \subseteq DOMAIN channel.queue \cup {d.order}
      /\ result.ready = [i \in 1 .. next - channel.next_index |->
                            StreamOf[channel.next_index + i - 1]]
      /\ DOMAIN result.channel.queue \subseteq DOMAIN channel.queue \cup {d.order}
      /\ \A k \in DOMAIN result.channel.queue : result.channel.queue[k] = StreamOf[k]
  <2>1. result = ChannelInsert(channel, d.order, StreamOf[d.order])
    BY <1>3
  <2> HIDE DEF result, data
  <2> QED
    BY <1>2, <1>4, <1>5, <2>1, ChannelFollowsStream
<1>8. result.ready \in Seq(Seq(ChunkType)) /\ delivered \in Seq(Seq(ChunkType))
  <2>1. data \in Seq(ChunkType)
    BY DEF Chunk, ChunkType, Datagram
  <2> QED
    BY <1>1, <1>2, <1>4, <2>1, ChannelInsertType DEF TypeOK
<1> HIDE DEF result, data
<1>9. /\ msg \in 1 .. Len(Payload) + 1 /\ Len(Payload) \in Nat
      /\ DOMAIN Payload = 1 .. Len(Payload) /\ Len(Payload) =< SeqSpace
      /\ SeqSpace \in Nat
  BY <1>1, PayloadAssumption, HalfSpaceAssumption DEF TypeOK, OneFrameMessages, SeqSpace
<1>10. /\ channel.next_index \in Nat /\ channel.next_index < msg
       /\ Len(delivered) = channel.next_index
  BY <1>1, <1>4, <1>9 DEF Orderly, IsChannel
<1>11. \A k \in DOMAIN channel.queue \cup {d.order} : k \in u24 /\ k + 1 < msg
  BY <1>1, <1>2, <1>4 DEF Orderly
<1>12. \A k \in DOMAIN channel'.queue : k + 1 < msg /\ channel'.queue[k] = Whole(k + 1)
  BY <1>6, <1>7, <1>11 DEF StreamOf
<1>13. next < msg
  <2>1. CASE next = channel.next_index
    BY <2>1, <1>10
  <2>2. CASE next # channel.next_index
    <3>1. next - 1 \in channel.next_index .. next - 1 /\ next \in Nat
      BY <2>2, <1>7, <1>10
    <3>2. (next - 1) + 1 < msg
      BY <3>1, <1>7, <1>11
    <3> QED
      BY <3>1, <3>2, <1>9
  <2> QED
    BY <2>1, <2>2
<1> DEFINE n == channel.next_index
<1>14. next - n \in Nat /\ next \in Nat
  BY <1>7, <1>10
<1>15. /\ Len(result.ready) = next - n
       /\ \A i \in 1 .. next - n : result.ready[i] = StreamOf[n + i - 1]
  BY <1>7, <1>8, <1>14
<1>16. /\ Len(delivered') = Len(delivered) + (next - n)
       /\ \A i \in 1 .. Len(delivered) + (next - n) : delivered'[i] =
            IF i <= Len(delivered) THEN delivered[i] ELSE result.ready[i - Len(delivered)]
       /\ delivered' \in Seq(Seq(ChunkType))
  BY <1>6, <1>8, <1>15, ConcatProperties
<1>17. Len(delivered') = channel'.next_index
  BY <1>6, <1>10, <1>14, <1>16
<1>18. \A i \in DOMAIN delivered' : i \in DOMAIN Payload /\ delivered'[i] = Whole(i)
  <2> SUFFICES ASSUME NEW i \in DOMAIN delivered'
               PROVE  i \in DOMAIN Payload /\ delivered'[i] = Whole(i)
    OBVIOUS
  <2>1. i \in 1 .. next
    BY <1>6, <1>16, <1>17
  <2>2. i \in DOMAIN Payload
    BY <2>1, <1>9, <1>13, <1>14
  <2>3. CASE i <= n
    <3>1. i \in DOMAIN delivered
      BY <2>1, <2>3, <1>8, <1>10
    <3>2. delivered[i] = Whole(i)
      BY <3>1, <1>1 DEF InOrderDelivery
    <3>3. i \in 1 .. Len(delivered) + (next - n) /\ i <= Len(delivered)
      BY <2>1, <2>3, <1>10, <1>14
    <3> QED
      BY <2>2, <3>2, <3>3, <1>16
  <2>4. CASE ~ (i <= n)
    <3>1. i - n \in 1 .. next - n /\ n + (i - n) - 1 = i - 1 /\ i - 1 \in u24
      BY <2>1, <2>4, <1>7, <1>10, <1>14, <1>9 DEF u24
    <3>2. delivered'[i] = result.ready[i - n]
      BY <2>1, <2>4, <1>10, <1>14, <1>16
    <3>3. result.ready[i - n] = StreamOf[i - 1]
      BY <3>1, <1>15
    <3>4. StreamOf[i - 1] = Whole(i)
      BY <3>1, <2>1, <1>14 DEF StreamOf
    <3> QED
      BY <2>2, <3>2, <3>3, <3>4
  <2> QED
    BY <2>3, <2>4
<1> QED
  BY <1>6, <1>12, <1>13, <1>17, <1>18

\* A datagram that carries its message has a number that is read as sent.
LEMMA CarriesIsClean ==
    ASSUME OneFrameMessages, NEW d \in Datagram, Carries(d)
    PROVE  d.seq < CleanSeqs
<1>1. /\ d.msg \in 1 .. Len(Payload) /\ d.seq = d.order /\ d.msg = d.order + 1
      /\ d.order \in Int /\ Len(Payload) \in Nat
  BY PayloadAssumption DEF Datagram, Carries, u24
<1> QED
  BY <1>1, CleanSeqsAssumption DEF OneFrameMessages

\* What a step of the receive task does to the ordered stream.
LEMMA ReceiveOrderly ==
    ASSUME OneFrameMessages, OrderInv, NEW d \in net, ReceiveDatagram(d)
    PROVE  Orderly' /\ InOrderDelivery'
<1>1. TypeOK /\ Orderly /\ InOrderDelivery
  BY DEF OrderInv
<1>2. d \in Datagram /\ Carries(d) /\ d.count = 1
  BY <1>1 DEF TypeOK, Orderly, Carries
<1>3. UNCHANGED <<sender, tracking>> /\ net' \subseteq net
  BY DEF ReceiveDatagram
<1>4. /\ part' = 0
      /\ sending' /\ msg' \in DOMAIN Payload =>
            order_index' = msg' - 1 /\ send_seq' = msg' - 1
      /\ \A e \in net' \cup held' : Carries(e)'
      /\ \A s \in DOMAIN send_queue' : Carries(send_queue[s])'
  BY <1>1, <1>3 DEF Orderly, Carries, sender, tracking
<1>5. CASE channel' = channel /\ delivered' = delivered
  BY <1>1, <1>3, <1>4, <1>5 DEF Orderly, InOrderDelivery, sender
<1>6. CASE HandleOrdered(d)
  <2>1. /\ \A k \in DOMAIN channel'.queue :
               k + 1 < msg /\ channel'.queue[k] = Whole(k + 1)
        /\ channel'.next_index < msg
        /\ Len(delivered') = channel'.next_index
        /\ \A i \in DOMAIN delivered' : i \in DOMAIN Payload /\ delivered'[i] = Whole(i)
    BY <1>2, <1>6, HandleOrderedStep
  <2>2. msg' = msg
    BY <1>3 DEF sender
  <2> QED
    BY <1>4, <2>1, <2>2 DEF Orderly, InOrderDelivery
<1>7. HandleOrdered(d) \/ (channel' = channel /\ delivered' = delivered)
  <2>1. ~ HandleFragment(d) /\ d.seq < CleanSeqs
    BY <1>2, CarriesIsClean DEF HandleFragment
  <2> QED
    BY <2>1 DEF ReceiveDatagram, AcceptDatagram, IgnoreDatagram, HandleFrame,
                HandlePing, HandleDisconnect
<1> QED
  BY <1>5, <1>6, <1>7

\* The inductive step of the order invariant.
LEMMA OrderStep ==
    ASSUME OneFrameMessages, OrderInv, [Next]_vars
    PROVE  OrderInv'
<1>0. TypeOK /\ Orderly /\ InOrderDelivery
  BY DEF OrderInv
<1> SUFFICES Orderly' /\ InOrderDelivery'
  BY <1>0, TypeStep DEF OrderInv
<1>1. CASE SendFrame
  <2>1. /\ msg \in DOMAIN Payload /\ part = 0 /\ order_index = msg - 1
        /\ ChunkCount(msg) = 1 /\ send_seq = msg - 1
    BY <1>0, <1>1 DEF SendFrame, Orderly, OneFrameMessages
  <2>2. /\ part' = 0 /\ msg' = msg + 1
        /\ order_index' = wrapping_add(order_index, 1)
        /\ send_seq' = wrapping_add(send_seq, 1)
        /\ net' = net \cup {NextDatagram} /\ held' = {NextDatagram}
        /\ UNCHANGED <<send_queue, receiver>>
    BY <1>1, <2>1 DEF SendFrame
  <2>3. /\ msg \in Nat /\ DOMAIN Payload = 1 .. Len(Payload)
        /\ Len(Payload) \in Nat /\ Len(Payload) =< SeqSpace
    BY <1>0, PayloadAssumption DEF TypeOK, OneFrameMessages
  <2>4. msg' \in DOMAIN Payload => order_index' = msg' - 1 /\ send_seq' = msg' - 1
    BY <2>1, <2>2, <2>3, HalfSpaceAssumption DEF wrapping_add, SeqSpace
  <2>5. ASSUME NEW d \in Datagram, Carries(d) PROVE Carries(d)'
    <3>1. d.msg \in Nat
      BY <2>3 DEF Datagram
    <3> QED
      BY <2>2, <2>3, <2>5, <3>1 DEF Carries
  <2>6. ASSUME NEW d, d = NextDatagram PROVE Carries(d)'
    <3>1. d.count = 1 /\ d.index = 0 /\ d.msg = msg /\ d.order = msg - 1
          /\ d.seq = msg - 1
      BY <2>1, <2>6 DEF NextDatagram
    <3> QED
      BY <2>2, <2>3, <3>1 DEF Carries
  <2>7. \A d \in net' \cup held' : Carries(d)'
    BY <1>0, <2>2, <2>5, <2>6 DEF Orderly, TypeOK
  <2>8. \A s \in DOMAIN send_queue' : Carries(send_queue[s])'
    <3> SUFFICES ASSUME NEW s \in DOMAIN send_queue PROVE Carries(send_queue[s])'
      BY <2>2
    <3>1. send_queue[s] \in Datagram /\ Carries(send_queue[s])
      BY <1>0 DEF Orderly, TypeOK, IsMap
    <3>2. send_queue[s].msg \in Nat
      BY <3>1, <2>3 DEF Datagram
    <3> QED
      BY <2>2, <2>3, <3>1, <3>2 DEF Carries
  <2>9. /\ \A k \in DOMAIN channel'.queue :
               k + 1 < msg' /\ channel'.queue[k] = Whole(k + 1)
        /\ channel'.next_index < msg'
        /\ Len(delivered') = channel'.next_index
    <3>1. DOMAIN channel.queue \subseteq Nat /\ channel.next_index \in Nat
      BY <1>0, HalfSpaceAssumption DEF TypeOK, IsChannel, IsMap, u24, SeqSpace
    <3> QED
      BY <1>0, <2>2, <2>3, <3>1 DEF Orderly, receiver
  <2>10. InOrderDelivery'
    BY <1>0, <2>2 DEF InOrderDelivery, receiver
  <2> QED
    BY <2>2, <2>4, <2>7, <2>8, <2>9, <2>10 DEF Orderly
<1>2. CASE TrackFrame
  <2> DEFINE d == CHOOSE h \in held : TRUE
  <2>1. d \in held
    BY <1>2 DEF TrackFrame
  <2>2. /\ send_queue' = QueueInsert(send_queue, d.seq, d)
        /\ held' = {} /\ net' = net /\ UNCHANGED <<sender, receiver>>
    BY <1>2 DEF TrackFrame
  <2> HIDE DEF d
  <2>3. \A s \in DOMAIN send_queue' : Carries(send_queue[s])'
    <3>1. Carries(d)
      BY <1>0, <2>1 DEF Orderly
    <3>2. \A s \in DOMAIN send_queue' :
              \/ send_queue'[s] = d
              \/ (s \in DOMAIN send_queue /\ send_queue'[s] = send_queue[s])
      BY <2>2 DEF QueueInsert, Put
    <3> QED
      BY <1>0, <2>2, <3>1, <3>2 DEF Orderly, Carries, sender
  <2> QED
    BY <1>0, <2>2, <2>3 DEF Orderly, Carries, InOrderDelivery, sender, receiver
<1>3. ASSUME NEW seq \in DOMAIN send_queue, Retransmit(seq)
      PROVE  Orderly' /\ InOrderDelivery'
  BY <1>0, <1>3
  DEF Retransmit, sender, tracking, receiver, Orderly, Carries, InOrderDelivery
<1>4. ASSUME NEW acks \in acknet, ReceiveAck(acks)
      PROVE  Orderly' /\ InOrderDelivery'
  BY <1>0, <1>4
  DEF ReceiveAck, Without, sender, receiver, Orderly, Carries, InOrderDelivery
<1>5. ASSUME NEW acks \in acknet, LoseAck(acks)
      PROVE  Orderly' /\ InOrderDelivery'
  BY <1>0, <1>5
  DEF LoseAck, sender, tracking, receiver, Orderly, Carries, InOrderDelivery
<1>6. ASSUME NEW d \in net, ReceiveDatagram(d)
      PROVE  Orderly' /\ InOrderDelivery'
  BY <1>6, ReceiveOrderly
<1>7. ASSUME NEW d \in net, LoseDatagram(d)
      PROVE  Orderly' /\ InOrderDelivery'
  BY <1>0, <1>7
  DEF LoseDatagram, sender, tracking, receiver, Orderly, Carries, InOrderDelivery
<1>8. CASE FlushAcks
  BY <1>0, <1>8
  DEF FlushAcks, sender, tracking, Orderly, Carries, InOrderDelivery
<1>9. ASSUME NEW id \in DOMAIN splits, CleanupExpired(id)
      PROVE  Orderly' /\ InOrderDelivery'
  BY <1>0, <1>9
  DEF CleanupExpired, sender, tracking, Orderly, Carries, InOrderDelivery
<1>10. CASE SendFails
  BY <1>0, <1>10
  DEF SendFails, tracking, receiver, Orderly, Carries, InOrderDelivery
<1>11. CASE UNCHANGED vars
  BY <1>0, <1>11
  DEF vars, sender, tracking, receiver, Orderly, Carries, InOrderDelivery
<1> QED
  BY <1>1, <1>2, <1>3, <1>4, <1>5, <1>6, <1>7, <1>8, <1>9, <1>10, <1>11 DEF Next

\* It holds of a connection that has just been set up.
LEMMA OrderInit == Init => OrderInv
<1> SUFFICES ASSUME Init PROVE OrderInv
  OBVIOUS
<1>1. TypeOK
  BY TypeInit
<1> QED
  BY <1>1 DEF Init, OrderInv, Orderly, InOrderDelivery, EmptyChannel, EmptyMap

\* Messages that fit one frame are delivered in the order sent, each once
\* and none skipped, for every number of them up to the size of the circle
\* and every size of the windows and queues, though datagrams and ACKs are
\* lost, duplicated and reordered, the receive window forgets what it has
\* received and full queues drop what they should keep.
THEOREM LinkDeliversInOrder ==
    ASSUME OneFrameMessages
    PROVE  Spec => []InOrderDelivery
<1>1. OrderInv /\ [Next]_vars => OrderInv'
  BY OrderStep
<1>2. OrderInv => InOrderDelivery
  BY DEF OrderInv
<1> QED
  BY <1>1, <1>2, OrderInit, PTL DEF Spec

-----------------------------------------------------------------------------
\* A step of the link either hands over the next message, or breaks the stream,
\* or delivers one or more of the messages that follow, or does none of these.
LEMMA StreamStep ==
    ASSUME OneFrameMessages, OrderInv, OrderInv', [Next]_vars
    PROVE  [Stream!Next]_(Stream!vars)
<1> DEFINE Messages == [m \in DOMAIN Payload |-> Whole(m)]
<1>1. /\ DOMAIN Payload = 1 .. Len(Payload) /\ Len(Payload) \in Nat
      /\ msg \in Nat /\ msg' \in Nat
      /\ delivered \in Seq(Seq(ChunkType)) /\ delivered' \in Seq(Seq(ChunkType))
  BY PayloadAssumption DEF OrderInv, TypeOK
<1>2. Len(Messages) = Len(Payload)
  BY <1>1
<1>3. CASE msg' = msg /\ sending' = sending /\ delivered' = delivered
  BY <1>3 DEF Stream!vars
<1>4. CASE SendFrame
  <2>1. /\ sending /\ sending' = sending
        /\ msg \in DOMAIN Payload /\ msg' = msg + 1 /\ delivered' = delivered
    BY <1>4 DEF SendFrame, receiver, OrderInv, Orderly, OneFrameMessages
  <2>2. msg - 1 < Len(Messages) /\ msg' - 1 = (msg - 1) + 1
    BY <1>1, <1>2, <2>1
  <2> QED
    BY <2>1, <2>2 DEF Stream!Next, Stream!Submit
<1>5. ASSUME NEW d \in net, ReceiveDatagram(d), delivered' # delivered
      PROVE  Stream!Deliver
  <2>1. msg' = msg /\ sending' = sending
    BY <1>5 DEF ReceiveDatagram, sender
  <2>2. /\ Len(delivered) \in Nat /\ Len(delivered') \in Nat
        /\ Len(delivered') =< msg - 1
    BY <1>1, <2>1 DEF OrderInv, Orderly, TypeOK, IsChannel
  <2>3. \A i \in 1 .. Len(delivered') : delivered'[i] = Messages[i]
    BY <1>1 DEF OrderInv, InOrderDelivery
  <2>4. delivered' = [i \in 1 .. Len(delivered') |-> Messages[i]]
    <3> HIDE DEF Messages
    <3> QED
      BY <1>1, <2>2, <2>3
  <2>5. Len(delivered) < Len(delivered')
    <3>1. Len(delivered) =< Len(delivered')
      <4>1. PICK more \in Seq(Seq(ChunkType)) : delivered' = delivered \o more
        <5>1. d \in Datagram /\ TypeOK
          BY DEF OrderInv, TypeOK
        <5>2. CASE HandleOrdered(d)
          <6> DEFINE result == ChannelInsert(channel, d.order, <<Chunk(d.msg, d.index)>>)
          <6>1. <<Chunk(d.msg, d.index)>> \in Seq(ChunkType) /\ d.order \in u24
            BY <5>1 DEF Chunk, ChunkType, Datagram
          <6>2. result.ready \in Seq(Seq(ChunkType))
            BY <5>1, <6>1, ChannelInsertType DEF TypeOK
          <6>3. delivered' = delivered \o result.ready
            BY <5>2 DEF HandleOrdered
          <6> QED
            BY <6>2, <6>3
        <5>3. HandleOrdered(d)
          <6>1. ~ HandleFragment(d) /\ d.seq < CleanSeqs
            BY <5>1, CarriesIsClean DEF HandleFragment, OrderInv, Orderly, Carries
          <6> QED
            BY <1>5, <6>1 DEF ReceiveDatagram, AcceptDatagram, IgnoreDatagram,
                              HandleFrame, HandlePing, HandleDisconnect
        <5> QED
          BY <5>2, <5>3
      <4> QED
        BY <1>1, <4>1, ConcatProperties
    <3>2. Len(delivered) # Len(delivered')
      <4> SUFFICES ASSUME Len(delivered) = Len(delivered') PROVE FALSE
        OBVIOUS
      <4>1. \A i \in 1 .. Len(delivered) : delivered[i] = delivered'[i]
        BY <1>1 DEF OrderInv, InOrderDelivery
      <4> QED
        BY <1>1, <1>5, <4>1, SeqEqual
    <3> QED
      BY <2>2, <3>1, <3>2
  <2>6. Len(delivered') \in Len(delivered) + 1 .. msg - 1
    BY <1>1, <2>2, <2>5
  <2> HIDE DEF Messages
  <2> QED
    BY <2>1, <2>4, <2>6 DEF Stream!Deliver, Messages
<1>6. \/ SendFrame
      \/ SendFails
      \/ \E d \in net : ReceiveDatagram(d)
      \/ msg' = msg /\ sending' = sending /\ delivered' = delivered
  BY DEF Next, vars, sender, receiver, TrackFrame, Retransmit, ReceiveAck, LoseAck,
         LoseDatagram, FlushAcks, CleanupExpired
<1>7. ASSUME NEW d \in net, ReceiveDatagram(d) PROVE msg' = msg /\ sending' = sending
  BY <1>7 DEF ReceiveDatagram, sender
<1>8. CASE SendFails
  BY <1>8 DEF SendFails, receiver, Stream!Next, Stream!Break
<1> QED
  BY <1>3, <1>4, <1>5, <1>6, <1>7, <1>8 DEF Stream!Next

\* The link implements the ordered stream that levels.rs promises, safety
\* only: whatever it does maps to a step of ReliableOrdered or to none.
THEOREM LinkImplementsStream ==
    ASSUME OneFrameMessages
    PROVE  Spec => ImplementsStream
<1>1. Init => Stream!Init
  BY DEF Init, Stream!Init
<1>2. OrderInv /\ [Next]_vars => OrderInv'
  BY OrderStep
<1>3. OrderInv /\ OrderInv' /\ [Next]_vars => [Stream!Next]_(Stream!vars)
  BY StreamStep
<1> QED
  BY <1>1, <1>2, <1>3, OrderInit, PTL DEF Spec, ImplementsStream, Stream!Spec
-----------------------------------------------------------------------------
\* Every message is one game packet, and the ordered channel has room for as
\* many as there are.
AmpleGamePackets ==
    /\ OneFrameMessages
    /\ \A m \in DOMAIN Payload : Payload[m] = <<"game">>
    /\ Len(Payload) =< ChannelSize

\* The strengthening of AcceptedIsHeld for such messages: an accepted datagram
\* carries its message, and its order index is behind the channel or queued.
HeldInv ==
    /\ OrderInv
    /\ \A d \in accepted :
          /\ Carries(d)
          /\ d.order < channel.next_index \/ d.order \in DOMAIN channel.queue

\* There is room for a packet that is not queued yet.
LEMMA RoomInChannel ==
    ASSUME AmpleGamePackets, OrderInv, NEW index \in u24, index + 1 < msg,
           index \notin DOMAIN channel.queue
    PROVE  Size(channel.queue) < ChannelSize
<1> DEFINE n == Len(Payload)
           Others == (0 .. n - 1) \ {index}
<1>1. n \in Nat /\ msg \in Int /\ msg =< n + 1 /\ n =< ChannelSize /\ index \in 0 .. n - 1
  BY PayloadAssumption DEF AmpleGamePackets, OrderInv, TypeOK, u24
<1>2. DOMAIN channel.queue \subseteq Others
  <2>1. \A k \in DOMAIN channel.queue : k \in u24 /\ k + 1 < msg
    BY DEF OrderInv, Orderly, TypeOK, IsChannel, IsMap
  <2> QED
    BY <1>1, <2>1 DEF u24
<1>3. IsFiniteSet(0 .. n - 1) /\ Cardinality(0 .. n - 1) = n
  <2> HIDE DEF n
  <2>1. n - 1 \in Int /\ ~ (0 > n - 1) /\ n - 1 - 0 + 1 = n
    BY <1>1
  <2> QED
    BY <2>1, FS_Interval
<1>4. IsFiniteSet(Others) /\ Cardinality(Others) = n - 1
  BY <1>1, <1>3, FS_RemoveElement
<1>5. Cardinality(DOMAIN channel.queue) =< n - 1 /\ Cardinality(DOMAIN channel.queue) \in Nat
  BY <1>2, <1>4, FS_Subset, FS_CardinalityType
<1> QED
  BY <1>1, <1>5, ChannelSizeAssumption DEF Size

\* The receive task keeps what it accepts.
LEMMA ReceiveHeld ==
    ASSUME AmpleGamePackets, HeldInv, NEW d \in net, ReceiveDatagram(d)
    PROVE  \A e \in accepted' :
               /\ Carries(e)'
               /\ e.order < channel'.next_index \/ e.order \in DOMAIN channel'.queue
<1>1. OneFrameMessages /\ TypeOK /\ OrderInv
  BY DEF AmpleGamePackets, HeldInv, OrderInv
<1>2. d \in Datagram /\ Carries(d) /\ d.order \in u24 /\ d.order + 1 < msg
  BY <1>1 DEF TypeOK, OrderInv, Orderly, Carries, Datagram
<1>3. msg' = msg
  BY DEF ReceiveDatagram, sender
<1>4. \A e \in accepted \cup {d} : Carries(e)'
  BY <1>2, <1>3 DEF HeldInv, Carries
<1>5. CASE IgnoreDatagram
  BY <1>3, <1>5 DEF IgnoreDatagram, HeldInv, Carries
<1>6. CASE AcceptDatagram(d)
  <2> DEFINE result == ChannelInsert(channel, d.order, <<Chunk(d.msg, d.index)>>)
  <2>1. accepted' = accepted \cup {d} /\ HandleFrame(d)
    BY <1>1, <1>2, <1>6, CarriesIsClean DEF AcceptDatagram
  <2>2. FirstByte(d) = "game"
    BY <1>2 DEF FirstByte, AmpleGamePackets, Carries, Datagram
  <2>3. channel' = result.channel
    BY <1>2, <2>1, <2>2
    DEF HandleFrame, HandlePing, HandleDisconnect, HandleOrdered, HandleFragment, Carries
  <2>4. IsChannel(channel, Seq(ChunkType)) /\ DOMAIN channel.queue \subseteq u24
    BY <1>1 DEF TypeOK, IsChannel, IsMap
  <2>5. Size(channel.queue) < ChannelSize \/ d.order \in DOMAIN channel.queue
    BY <1>1, <1>2, RoomInChannel
  <2>6. \A k \in DOMAIN channel.queue \cup {d.order} :
            k < channel'.next_index \/ k \in DOMAIN channel'.queue
    <3> HIDE DEF result
    <3>1. \A k \in DOMAIN channel.queue \cup {d.order} :
              k < result.channel.next_index \/ k \in DOMAIN result.channel.queue
      BY <1>2, <2>4, <2>5, ChannelKeeps DEF result
    <3> QED
      BY <2>3, <3>1
  <2>7. /\ channel.next_index \in Int /\ channel'.next_index \in Int
        /\ channel.next_index =< channel'.next_index
    <3> DEFINE data == <<Chunk(d.msg, d.index)>>
    <3>1. data = StreamOf[d.order]
      BY <1>1, <1>2, WholeOfOneFrame DEF StreamOf, Carries, Datagram
    <3>2. \A k \in DOMAIN channel.queue : channel.queue[k] = StreamOf[k]
      BY <1>1, <2>4 DEF OrderInv, Orderly, StreamOf
    <3>3. result = ChannelInsert(channel, d.order, StreamOf[d.order])
      BY <3>1
    <3> HIDE DEF result
    <3>4. result.channel.next_index \in channel.next_index .. SeqSpace
      BY <1>2, <2>4, <3>2, <3>3, ChannelFollowsStream
    <3>5. channel.next_index \in Int
      BY <2>4 DEF IsChannel
    <3> QED
      BY <2>3, <3>4, <3>5
  <2>8. ASSUME NEW e \in accepted
        PROVE  e.order < channel'.next_index \/ e.order \in DOMAIN channel'.queue
    <3>1. e.order \in Int
      BY <1>1 DEF TypeOK, Datagram, u24
    <3>2. e.order < channel.next_index \/ e.order \in DOMAIN channel.queue
      BY DEF HeldInv
    <3> QED
      BY <2>6, <2>7, <3>1, <3>2
  <2> QED
    BY <1>4, <2>1, <2>6, <2>8
<1> QED
  BY <1>5, <1>6 DEF ReceiveDatagram

\* A datagram that is accepted, and so acknowledged and never sent again, has
\* been delivered or waits in the channel: for game packets that fit one frame,
\* as many as the channel can queue, whatever the network and the window do.
THEOREM LinkAcceptedIsHeld ==
    ASSUME AmpleGamePackets
    PROVE  Spec => []AcceptedIsHeld
<1>0. OneFrameMessages
  BY DEF AmpleGamePackets
<1>1. Init => HeldInv
  BY OrderInit DEF HeldInv, Init
<1>2. ASSUME HeldInv, [Next]_vars
      PROVE  HeldInv'
  <2>1. OrderInv'
    BY <1>0, <1>2, OrderStep DEF HeldInv
  <2>2. CASE \E d \in net : ReceiveDatagram(d)
    BY <1>2, <2>1, <2>2, ReceiveHeld DEF HeldInv
  <2>3. CASE accepted' = accepted /\ channel' = channel /\ msg' \in {msg, msg + 1}
    <3>1. \A e \in accepted : e.msg \in Int /\ msg \in Int
      BY <1>2, PayloadAssumption DEF HeldInv, OrderInv, TypeOK, Datagram
    <3> QED
      BY <1>2, <2>1, <2>3, <3>1 DEF HeldInv, Carries
  <2>4. \/ \E d \in net : ReceiveDatagram(d)
        \/ accepted' = accepted /\ channel' = channel /\ msg' \in {msg, msg + 1}
    BY <1>2 DEF Next, vars, sender, receiver, SendFrame, SendFails, TrackFrame, Retransmit,
                ReceiveAck, LoseAck, LoseDatagram, FlushAcks, CleanupExpired
  <2> QED
    BY <2>2, <2>3, <2>4
<1>3. ASSUME HeldInv, NEW d \in accepted
      PROVE  Waiting(d) \/ \E i \in DOMAIN delivered : delivered[i] = Whole(d.msg)
  <2>1. CASE d.order \in DOMAIN channel.queue
    BY <2>1 DEF Waiting
  <2>2. CASE d.order < channel.next_index
    <3>1. /\ d.order \in Nat /\ d.msg = d.order + 1 /\ channel.next_index \in Nat
          /\ delivered \in Seq(Seq(ChunkType)) /\ Len(delivered) = channel.next_index
      BY <1>3, HalfSpaceAssumption
      DEF HeldInv, OrderInv, Orderly, Carries, TypeOK, IsChannel, Datagram, u24, SeqSpace
    <3>2. d.msg \in DOMAIN delivered
      BY <2>2, <3>1
    <3> QED
      BY <1>3, <3>2 DEF HeldInv, OrderInv, InOrderDelivery
  <2> QED
    BY <1>3, <2>1, <2>2 DEF HeldInv
<1>4. HeldInv => AcceptedIsHeld
  BY <1>3 DEF AcceptedIsHeld
<1>5. HeldInv /\ [Next]_vars => HeldInv'
  BY <1>2
<1> QED
  BY <1>1, <1>4, <1>5, PTL DEF Spec
-----------------------------------------------------------------------------
\* The datagrams that can still arrive.
Flying == net \cup held \cup {send_queue[s] : s \in DOMAIN send_queue}

\* Message m is the one that goes out under split id: it is split, no later
\* message has the id, and no other datagram on its way does.
Owns(m, id) ==
    /\ ChunkCount(m) > 1
    /\ id =< split_id
    /\ id = split_id => m = msg
    /\ \A d \in Flying : d.count > 1 /\ d.split = id => d.msg = m

\* A datagram holds one of its message's chunks.
Genuine(d) ==
    /\ d.count = ChunkCount(d.msg) /\ d.index < d.count
    /\ d.count > 1 => Owns(d.msg, d.split)

\* An entry of the fragment queue holds chunks of message m, each in its place.
PiecesOf(entry, m) ==
    /\ entry.total_count = ChunkCount(m)
    /\ \A i \in DOMAIN entry.fragments : entry.fragments[i] = Chunk(m, i)

Wholes == {Whole(m) : m \in DOMAIN Payload}

\* The strengthening of WholeMessages: what is on its way is genuine, and as
\* long as nothing is misread the channel queues whole messages and an entry
\* of the fragment queue belongs to the message that owns its id.
WholeInv ==
    /\ TypeOK
    /\ msg \in DOMAIN Payload => part < ChunkCount(msg)
    /\ \A d \in Flying : Genuine(d)
    /\ NothingMisread =>
          /\ delivered \in Seq(Wholes)
          /\ IsChannel(channel, Wholes)
          /\ \A id \in DOMAIN splits :
                \E m \in DOMAIN Payload : Owns(m, id) /\ PiecesOf(splits[id], m)

\* Only the send task puts a new datagram on its way.
LEMMA FlyingStep ==
    ASSUME [Next]_vars
    PROVE  \/ SendFrame /\ Flying' \subseteq Flying \cup {NextDatagram}
           \/ UNCHANGED <<msg, part, split_id>> /\ Flying' \subseteq Flying
<1>1. CASE SendFrame
  BY <1>1 DEF SendFrame, Flying
<1>2. CASE TrackFrame
  <2> DEFINE d == CHOOSE h \in held : TRUE
  <2>1. d \in held
    BY <1>2 DEF TrackFrame
  <2>2. /\ send_queue' = QueueInsert(send_queue, d.seq, d) /\ held' = {} /\ net' = net
        /\ UNCHANGED sender
    BY <1>2 DEF TrackFrame
  <2> HIDE DEF d
  <2>3. \A s \in DOMAIN send_queue' :
            \/ send_queue'[s] = d
            \/ (s \in DOMAIN send_queue /\ send_queue'[s] = send_queue[s])
    BY <2>2 DEF QueueInsert, Put
  <2> QED
    BY <2>1, <2>2, <2>3 DEF Flying, sender
<1>3. ASSUME NEW seq \in DOMAIN send_queue, Retransmit(seq)
      PROVE  UNCHANGED sender /\ Flying' \subseteq Flying
  BY <1>3 DEF Retransmit, tracking, Flying
<1>4. ASSUME NEW acks \in acknet, ReceiveAck(acks)
      PROVE  UNCHANGED sender /\ Flying' \subseteq Flying
  BY <1>4 DEF ReceiveAck, Without, Flying
<1>5. ASSUME NEW acks \in acknet, LoseAck(acks)
      PROVE  UNCHANGED sender /\ Flying' \subseteq Flying
  BY <1>5 DEF LoseAck, tracking, Flying
<1>6. ASSUME NEW d \in net, ReceiveDatagram(d) \/ LoseDatagram(d)
      PROVE  UNCHANGED sender /\ Flying' \subseteq Flying
  BY <1>6 DEF ReceiveDatagram, LoseDatagram, tracking, Flying
<1>7. CASE FlushAcks \/ \E id \in DOMAIN splits : CleanupExpired(id)
  BY <1>7 DEF FlushAcks, CleanupExpired, tracking, Flying, sender
<1>8. CASE UNCHANGED vars
  BY <1>8 DEF vars, tracking, Flying, sender
<1>9. CASE SendFails
  BY <1>9 DEF SendFails, tracking, Flying
<1> QED
  BY <1>1, <1>2, <1>3, <1>4, <1>5, <1>6, <1>7, <1>8, <1>9 DEF Next, sender

\* What is on its way is a datagram.
LEMMA FlyingType ==
    ASSUME TypeOK PROVE Flying \subseteq Datagram
BY DEF TypeOK, IsMap, Flying

\* What the send task does to its counters.
LEMMA SendCounts ==
    ASSUME WholeInv, SendFrame
    PROVE  /\ msg \in DOMAIN Payload /\ msg \in Nat
           /\ part \in Nat /\ split_id \in Nat /\ ChunkCount(msg) \in Nat
           /\ part < ChunkCount(msg)
           /\ \/ part' = part + 1 /\ part' < ChunkCount(msg) /\ msg' = msg /\ split_id' = split_id
              \/ /\ part' = 0 /\ msg' = msg + 1
                 /\ split_id' = IF ChunkCount(msg) > 1 THEN split_id + 1 ELSE split_id
BY PayloadAssumption DEF WholeInv, TypeOK, SendFrame, ChunkCount

\* The message that owns a split id goes on owning it.
LEMMA OwnsPersists ==
    ASSUME WholeInv, [Next]_vars, NEW m, NEW id \in Nat, Owns(m, id)
    PROVE  Owns(m, id)'
<1>1. CASE UNCHANGED <<msg, part, split_id>> /\ Flying' \subseteq Flying
  BY <1>1 DEF Owns
<1>2. CASE SendFrame /\ Flying' \subseteq Flying \cup {NextDatagram}
  <2>1. id =< split_id' /\ (id = split_id' => m = msg')
    BY <1>2, SendCounts DEF Owns
  <2>2. NextDatagram.split = id => NextDatagram.msg = m
    BY DEF NextDatagram, Owns
  <2> QED
    BY <1>2, <2>1, <2>2 DEF Owns
<1> QED
  BY <1>1, <1>2, FlyingStep

\* The send task makes genuine datagrams only.
LEMMA FlyingGenuine ==
    ASSUME WholeInv, [Next]_vars
    PROVE  /\ msg' \in DOMAIN Payload => part' < ChunkCount(msg')
           /\ \A d \in Flying' : Genuine(d)'
<1>1. ASSUME NEW d \in Flying PROVE Genuine(d)'
  <2>1. Genuine(d) /\ d.split \in Nat
    BY FlyingType DEF WholeInv, Datagram
  <2> QED
    BY <2>1, OwnsPersists DEF Genuine
<1>2. CASE UNCHANGED <<msg, part, split_id>> /\ Flying' \subseteq Flying
  BY <1>1, <1>2 DEF WholeInv
<1>3. CASE SendFrame /\ Flying' \subseteq Flying \cup {NextDatagram}
  <2>1. PICK d : d = NextDatagram
    OBVIOUS
  <2>0. d.split = split_id /\ d.msg = msg /\ d.index = part /\ d.count = ChunkCount(msg)
    BY <2>1 DEF NextDatagram
  <2>2. ASSUME ChunkCount(msg) > 1 PROVE Owns(msg, split_id)
    <3>1. \A e \in Flying : e.count > 1 /\ e.split = split_id => e.msg = msg
      BY DEF WholeInv, Genuine, Owns
    <3> QED
      BY <1>3, <2>2, <3>1, SendCounts DEF Owns
  <2>3. ASSUME ChunkCount(msg) > 1 PROVE Owns(d.msg, d.split)'
    BY <1>3, <2>0, <2>2, <2>3, SendCounts, OwnsPersists
  <2>4. Genuine(d)'
    BY <1>3, <2>0, <2>3, SendCounts DEF Genuine
  <2>5. msg' \in DOMAIN Payload => part' < ChunkCount(msg')
    <3>1. ASSUME msg' \in DOMAIN Payload PROVE ChunkCount(msg') \in Nat \ {0}
      BY <3>1, PayloadAssumption DEF ChunkCount
    <3> QED
      BY <1>3, <3>1, SendCounts
  <2> QED
    BY <1>1, <1>3, <2>1, <2>4, <2>5
<1> QED
  BY <1>2, <1>3, FlyingStep

\* A whole message is the sequence of its chunks.
LEMMA WholeType ==
    ASSUME NEW m \in DOMAIN Payload
    PROVE  /\ ChunkCount(m) \in Nat \ {0}
           /\ Whole(m) \in Seq(ChunkType) /\ Len(Whole(m)) = ChunkCount(m)
           /\ \A i \in 0 .. ChunkCount(m) - 1 : Whole(m)[i + 1] = Chunk(m, i)
<1>1. ChunkCount(m) \in Nat \ {0}
  BY PayloadAssumption DEF ChunkCount
<1>2. \A i \in 1 .. ChunkCount(m) : Chunk(m, i - 1) \in ChunkType
  BY <1>1 DEF Chunk, ChunkType
<1>3. Whole(m) \in Seq(ChunkType) /\ Len(Whole(m)) = ChunkCount(m)
  BY <1>1, <1>2 DEF Whole
<1>4. \A i \in 0 .. ChunkCount(m) - 1 : i + 1 \in 1 .. ChunkCount(m) /\ (i + 1) - 1 = i
  BY <1>1
<1> QED
  BY <1>1, <1>3, <1>4 DEF Whole

\* A genuine fragment joins the others of its message, or completes it.
LEMMA HandleFragmentStep ==
    ASSUME WholeInv, NothingMisread, NEW d \in net, HandleFragment(d)
    PROVE  /\ Owns(d.msg, d.split) /\ channel' = channel
           /\ d.split \in DOMAIN splits => PiecesOf(splits[d.split], d.msg)
           /\ d.split \in DOMAIN splits' => PiecesOf(splits'[d.split], d.msg)
           /\ \A j \in DOMAIN splits' :
                  j # d.split => j \in DOMAIN splits /\ splits'[j] = splits[j]
           /\ \A i : ArrivedBefore(splits', d.split, i) =>
                  i = d.index \/ ArrivedBefore(splits, d.split, i)
           /\ \/ delivered' = delivered
              \/ /\ delivered' = Append(delivered, Whole(d.msg))
                 /\ \A i \in 0 .. ChunkCount(d.msg) - 1 :
                        i = d.index \/ ArrivedBefore(splits, d.split, i)
<1> DEFINE m == d.msg
           result == FragmentInsert(splits, d.split, d.index, d.count, Chunk(m, d.index))
<1>1. /\ d \in Flying /\ d \in Datagram /\ Genuine(d) /\ m \in DOMAIN Payload
      /\ d.split \in Nat /\ d.index \in Nat /\ d.count \in Nat \ {0}
  BY FlyingType DEF WholeInv, Flying, Datagram
<1>2. d.count > 1 /\ d.count = ChunkCount(m) /\ d.index \in 0 .. d.count - 1 /\ Owns(m, d.split)
  BY <1>1 DEF HandleFragment, Genuine
<1>3. /\ Whole(m) \in Seq(ChunkType) /\ Len(Whole(m)) = d.count
      /\ \A i \in 0 .. d.count - 1 : Whole(m)[i + 1] = Chunk(m, i)
  BY <1>1, <1>2, WholeType
<1>4. IsSplits(splits, ChunkType) /\ IsSplits(splits', ChunkType)
  BY <1>1, HandleFrameType DEF WholeInv, TypeOK, HandleFrame
<1>5. ASSUME d.split \in DOMAIN splits PROVE PiecesOf(splits[d.split], m)
  <2>1. PICK o \in DOMAIN Payload : Owns(o, d.split) /\ PiecesOf(splits[d.split], o)
    BY <1>5 DEF WholeInv
  <2> QED
    BY <1>1, <1>2, <2>1 DEF Owns
<1>6. FragmentsOf(splits, d.split, Whole(m))
  <2> SUFFICES ASSUME d.split \in DOMAIN splits
               PROVE  /\ splits[d.split].total_count = d.count
                      /\ \A i \in DOMAIN splits[d.split].fragments :
                             splits[d.split].fragments[i] = Whole(m)[i + 1]
    BY <1>3 DEF FragmentsOf
  <2>1. DOMAIN splits[d.split].fragments \subseteq 0 .. d.count - 1
    BY <1>2, <1>4, <1>5 DEF IsSplits, IsEntry, IsMap, PiecesOf
  <2> QED
    BY <1>2, <1>3, <1>5, <2>1 DEF PiecesOf
<1>7. result = FragmentInsert(splits, d.split, d.index, Len(Whole(m)), Whole(m)[d.index + 1])
  BY <1>1, <1>2, <1>3
<1>8. splits' = result.splits /\ delivered' = delivered \o result.whole /\ channel' = channel
  BY DEF HandleFragment
<1> HIDE DEF result
<1>9. /\ \A j \in DOMAIN result.splits :
             j # d.split => j \in DOMAIN splits /\ result.splits[j] = splits[j]
      /\ FragmentsOf(result.splits, d.split, Whole(m))
      /\ \A i : ArrivedBefore(result.splits, d.split, i) =>
             i = d.index \/ ArrivedBefore(splits, d.split, i)
      /\ \/ result.whole = <<>>
         \/ /\ result.whole = Only(Whole(m))
            /\ \A i \in 0 .. Len(Whole(m)) - 1 : i = d.index \/ ArrivedBefore(splits, d.split, i)
  <2>1. d.split \in Nat /\ Whole(m) \in Seq(ChunkType) /\ d.index \in 0 .. Len(Whole(m)) - 1
    BY <1>1, <1>2, <1>3
  <2> QED
    BY <1>4, <1>6, <1>7, <2>1, FragmentsFollowPacket
<1>10. ASSUME d.split \in DOMAIN splits' PROVE PiecesOf(splits'[d.split], m)
  <2>1. DOMAIN splits'[d.split].fragments \subseteq 0 .. d.count - 1
    BY <1>3, <1>4, <1>8, <1>9, <1>10 DEF IsSplits, IsEntry, IsMap, FragmentsOf
  <2> QED
    BY <1>2, <1>3, <1>8, <1>9, <1>10, <2>1 DEF PiecesOf, FragmentsOf
<1>11. \/ delivered' = delivered
       \/ /\ delivered' = Append(delivered, Whole(m))
          /\ \A i \in 0 .. ChunkCount(m) - 1 : i = d.index \/ ArrivedBefore(splits, d.split, i)
  <2>1. delivered \in Seq(Seq(ChunkType))
    BY DEF WholeInv, TypeOK
  <2>2. CASE result.whole = <<>>
    BY <1>8, <2>1, <2>2
  <2>3. CASE /\ result.whole = Only(Whole(m))
             /\ \A i \in 0 .. Len(Whole(m)) - 1 :
                    i = d.index \/ ArrivedBefore(splits, d.split, i)
    <3>1. delivered' = Append(delivered, Whole(m))
      BY <1>3, <1>8, <2>1, <2>3 DEF Only
    <3> QED
      BY <1>2, <1>3, <2>3, <3>1
  <2> QED
    BY <1>9, <2>2, <2>3
<1> QED
  BY <1>2, <1>5, <1>8, <1>9, <1>10, <1>11

\* handle_frame on a genuine datagram: whole messages stay whole.
LEMMA HandleWhole ==
    ASSUME WholeInv, NothingMisread, NEW d \in net, ReceiveDatagram(d), HandleFrame(d)
    PROVE  /\ delivered' \in Seq(Wholes)
           /\ IsChannel(channel', Wholes)
           /\ \A id \in DOMAIN splits' :
                 \E m \in DOMAIN Payload : Owns(m, id) /\ PiecesOf(splits'[id], m)
<1>1. /\ delivered \in Seq(Wholes) /\ IsChannel(channel, Wholes)
      /\ \A id \in DOMAIN splits :
            \E m \in DOMAIN Payload : Owns(m, id) /\ PiecesOf(splits[id], m)
  BY DEF WholeInv
<1>2. /\ d \in Flying /\ d \in Datagram /\ Genuine(d) /\ d.msg \in DOMAIN Payload
      /\ d.order \in u24 /\ d.split \in Nat /\ d.index \in Nat /\ d.count \in Nat \ {0}
  BY FlyingType DEF WholeInv, Flying, Datagram
<1>3. CASE HandlePing(d) \/ HandleDisconnect(d)
  BY <1>1, <1>3 DEF HandlePing, HandleDisconnect
<1>4. CASE HandleOrdered(d)
  <2> DEFINE result == ChannelInsert(channel, d.order, <<Chunk(d.msg, d.index)>>)
  <2>1. d.count = 1 /\ d.index = 0 /\ ChunkCount(d.msg) = 1
    BY <1>2, <1>4 DEF HandleOrdered, Genuine
  <2>2. <<Chunk(d.msg, d.index)>> \in Wholes
    <3>1. <<Chunk(d.msg, d.index)>> = Whole(d.msg)
      BY <2>1 DEF Whole
    <3> QED
      BY <1>2, <3>1 DEF Wholes
  <2>3. IsChannel(result.channel, Wholes) /\ result.ready \in Seq(Wholes)
    BY <1>1, <1>2, <2>2, ChannelInsertType
  <2>4. /\ channel' = result.channel /\ delivered' = delivered \o result.ready
        /\ splits' = splits
    BY <1>4 DEF HandleOrdered
  <2> HIDE DEF result
  <2> QED
    BY <1>1, <2>3, <2>4, ConcatProperties
<1>5. CASE HandleFragment(d)
  <2>1. Whole(d.msg) \in Wholes
    BY <1>2 DEF Wholes
  <2>2. delivered' = delivered \/ delivered' = Append(delivered, Whole(d.msg))
    BY <1>5, HandleFragmentStep
  <2>3. delivered' \in Seq(Wholes)
    BY <1>1, <2>1, <2>2
  <2>4. \A id \in DOMAIN splits' :
            \E m \in DOMAIN Payload : Owns(m, id) /\ PiecesOf(splits'[id], m)
    BY <1>1, <1>2, <1>5, HandleFragmentStep
  <2>5. channel' = channel
    BY <1>5, HandleFragmentStep
  <2> QED
    BY <1>1, <2>3, <2>4, <2>5
<1> QED
  BY <1>3, <1>4, <1>5 DEF HandleFrame

\* What has been misread stays misread, and a datagram that is accepted while
\* nothing is goes to handle_frame.
LEMMA MisreadStays ==
    ASSUME [Next]_vars, NothingMisread'
    PROVE  /\ NothingMisread
           /\ \A d \in net : ReceiveDatagram(d) => IgnoreDatagram \/ HandleFrame(d)
<1>1. accepted \subseteq accepted'
  BY DEF Next, vars, receiver, SendFrame, SendFails, TrackFrame, Retransmit, ReceiveAck, LoseAck,
         LoseDatagram, FlushAcks, CleanupExpired, ReceiveDatagram, AcceptDatagram,
         IgnoreDatagram
<1>2. \A d \in net : ReceiveDatagram(d) => IgnoreDatagram \/ HandleFrame(d)
  BY DEF ReceiveDatagram, AcceptDatagram, NothingMisread
<1> QED
  BY <1>1, <1>2 DEF NothingMisread

\* The steps of the receiver and the steps that leave it alone.
LEMMA ReceiverStep ==
    ASSUME [Next]_vars
    PROVE  \/ \E d \in net : ReceiveDatagram(d)
           \/ \E id \in DOMAIN splits : splits' = Without(splits, {id})
                  /\ delivered' = delivered /\ channel' = channel
                  /\ accepted' = accepted /\ recv_window' = recv_window
           \/ UNCHANGED <<splits, delivered, channel, accepted, recv_window>>
BY DEF Next, vars, receiver, SendFrame, SendFails, TrackFrame, Retransmit, ReceiveAck, LoseAck,
       LoseDatagram, FlushAcks, CleanupExpired

\* The inductive step.
LEMMA WholeStep == WholeInv /\ [Next]_vars => WholeInv'
<1> SUFFICES ASSUME WholeInv, [Next]_vars PROVE WholeInv'
  OBVIOUS
<1>1. TypeOK'
  BY TypeStep DEF WholeInv
<1>2. ASSUME NothingMisread'
      PROVE  /\ delivered' \in Seq(Wholes)
             /\ IsChannel(channel', Wholes)
             /\ \A id \in DOMAIN splits' :
                   \E m \in DOMAIN Payload : Owns(m, id) /\ PiecesOf(splits'[id], m)
  <2>1. NothingMisread
    BY <1>2, MisreadStays
  <2>2. /\ delivered \in Seq(Wholes) /\ IsChannel(channel, Wholes)
        /\ \A id \in DOMAIN splits :
              \E m \in DOMAIN Payload : Owns(m, id) /\ PiecesOf(splits[id], m)
    BY <2>1 DEF WholeInv
  <2>3. ASSUME NEW d \in net, ReceiveDatagram(d)
        PROVE  <1>2!2
    <3>1. CASE IgnoreDatagram
      BY <2>2, <3>1 DEF IgnoreDatagram
    <3>2. CASE HandleFrame(d)
      BY <2>1, <2>3, <3>2, HandleWhole
    <3> QED
      BY <1>2, <2>3, <3>1, <3>2, MisreadStays
  <2> QED
    BY <2>2, <2>3, ReceiverStep DEF Without
<1>3. ASSUME NothingMisread', NEW id \in DOMAIN splits'
      PROVE  \E m \in DOMAIN Payload : (Owns(m, id) /\ PiecesOf(splits[id], m))'
  <2>1. PICK m \in DOMAIN Payload : Owns(m, id) /\ PiecesOf(splits'[id], m)
    BY <1>2, <1>3
  <2>2. id \in Nat
    BY <1>1, <1>3 DEF TypeOK, IsSplits
  <2> QED
    BY <2>1, <2>2, OwnsPersists DEF PiecesOf
<1> QED
  BY <1>1, <1>2, <1>3, FlyingGenuine DEF WholeInv, Wholes

\* It holds of a connection that has just been set up.
LEMMA WholeInit == Init => WholeInv
<1> SUFFICES ASSUME Init PROVE WholeInv
  OBVIOUS
<1>1. TypeOK /\ Flying = {} /\ splits = EmptyMap /\ delivered = <<>>
  BY TypeInit DEF Init, Flying, EmptyMap
<1>2. IsChannel(channel, Wholes)
  BY EmptyMapType, HalfSpaceAssumption DEF Init, EmptyChannel, IsChannel, SeqSpace
<1>3. msg \in DOMAIN Payload => part < ChunkCount(msg)
  BY PayloadAssumption DEF Init, ChunkCount
<1> QED
  BY <1>1, <1>2, <1>3 DEF WholeInv, EmptyMap

\* Reassembly never mixes messages, drops a part or repeats one: for every
\* sequence of messages, split or not, every size of the queues and windows,
\* and whatever the network does and whenever entries expire, what the
\* application reads before the first misread datagram is whole messages.
THEOREM LinkDeliversWholeMessages == Spec => []WholeMessages
<1>1. WholeInv => WholeMessages
  BY DEF WholeInv, WholeMessages, Wholes
<1> QED
  BY <1>1, WholeInit, WholeStep, PTL DEF Spec

-----------------------------------------------------------------------------
\* Chunk i of message m has been sent.
Sent(m, i) == m < msg \/ (m = msg /\ i < part)

\* It has arrived, and the window has the number of every datagram that could
\* bring it again.
Got(m, i) ==
    /\ Sent(m, i)
    /\ \A d \in Flying : d.msg = m /\ d.index = i => d.seq \in recv_window.received

WholeGot(m) == \A i \in 0 .. ChunkCount(m) - 1 : Got(m, i)

\* The packets that have been delivered or are queued.
Held(seq, queue) == {seq[i] : i \in DOMAIN seq} \cup {queue[k] : k \in DOMAIN queue}

\* No packet has been delivered or is queued twice.
NoRepeats(seq, queue) ==
    /\ \A i, j \in DOMAIN seq : seq[i] = seq[j] => i = j
    /\ \A k, l \in DOMAIN queue : queue[k] = queue[l] => k = l
    /\ \A i \in DOMAIN seq : \A k \in DOMAIN queue : seq[i] # queue[k]

\* The strengthening of DeliveredOnce: a chunk goes out under one number, and
\* as long as nothing is misread the window still starts at 0, what waits for
\* reassembly, is queued or was delivered has arrived, and no message is
\* delivered or queued twice.
OnlyOnce ==
    /\ recv_window.base_seq = 0
    /\ \A id \in DOMAIN splits : \A i \in DOMAIN splits[id].fragments :
          \A m \in DOMAIN Payload : PiecesOf(splits[id], m) => Got(m, i)
    /\ \A m \in DOMAIN Payload : Whole(m) \in Held(delivered, channel.queue) => WholeGot(m)
    /\ NoRepeats(delivered, channel.queue)

OnceInv ==
    /\ WholeInv
    /\ \A d \in Flying : Sent(d.msg, d.index)
    /\ \A d, e \in Flying : d.msg = e.msg /\ d.index = e.index => d.seq = e.seq
    /\ NothingMisread => OnlyOnce

\* Messages are told apart by what the application reads.
LEMMA WholeInjective ==
    ASSUME NEW m \in DOMAIN Payload, NEW n \in DOMAIN Payload, Whole(m) = Whole(n)
    PROVE  m = n
<1>1. 0 \in 0 .. ChunkCount(m) - 1 /\ 0 \in 0 .. ChunkCount(n) - 1
  BY WholeType
<1>2. Whole(m)[0 + 1] = Chunk(m, 0) /\ Whole(n)[0 + 1] = Chunk(n, 0)
  BY <1>1, WholeType
<1> QED
  BY <1>2 DEF Chunk

\* An insert into the ordered channel repeats nothing if the packet is new, and
\* holds nothing new but that packet.
LEMMA ChannelRepeatsNothing ==
    ASSUME NEW V, NEW seq \in Seq(V), NEW c, IsChannel(c, V), NEW index \in u24,
           NEW data \in V, NoRepeats(seq, c.queue), data \notin Held(seq, c.queue)
    PROVE  /\ NoRepeats(seq \o ChannelInsert(c, index, data).ready,
                        ChannelInsert(c, index, data).channel.queue)
           /\ Held(seq \o ChannelInsert(c, index, data).ready,
                   ChannelInsert(c, index, data).channel.queue)
                  \subseteq Held(seq, c.queue) \cup {data}
<1> DEFINE result == ChannelInsert(c, index, data)
           all == seq \o result.ready
           ready == result.ready
           queue == result.channel.queue
           at(i) == c.next_index + i - 1
<1>1. /\ \A k \in DOMAIN queue :
             \/ k \in DOMAIN c.queue /\ queue[k] = c.queue[k]
             \/ k = index /\ queue[k] = data /\ ready = <<>>
      /\ \A i \in DOMAIN ready :
             \/ i = 1 /\ ready[i] = data
             \/ at(i) \in DOMAIN c.queue /\ at(i) \notin DOMAIN queue /\ ready[i] = c.queue[at(i)]
  BY ChannelInsertParts
<1>2. ready \in Seq(V) /\ c.next_index \in Int /\ all = seq \o ready
  <2>1. ready \in Seq(V)
    BY ChannelInsertType
  <2> QED
    BY <2>1 DEF IsChannel
<1> HIDE DEF result, ready, queue, all
<1>3. /\ Len(seq) \in Nat /\ Len(ready) \in Nat
      /\ DOMAIN seq = 1 .. Len(seq) /\ DOMAIN ready = 1 .. Len(ready)
      /\ DOMAIN all = 1 .. Len(seq) + Len(ready)
      /\ \A i \in DOMAIN all :
             \/ i \in DOMAIN seq /\ all[i] = seq[i]
             \/ i - Len(seq) \in DOMAIN ready /\ all[i] = ready[i - Len(seq)]
  BY <1>2, ConcatProperties
<1>4. /\ \A i \in DOMAIN seq : seq[i] # data
      /\ \A k \in DOMAIN c.queue : c.queue[k] # data
  BY DEF Held
<1>5. ASSUME NEW i \in DOMAIN ready, NEW j \in DOMAIN ready, ready[i] = ready[j]
      PROVE  i = j
  <2>1. i \in Int /\ j \in Int
    BY <1>3
  <2>2. (i = 1 /\ j = 1) \/ at(i) = at(j)
    BY <1>1, <1>4, <1>5 DEF NoRepeats
  <2> QED
    BY <1>2, <2>1, <2>2
<1>6. \A i \in DOMAIN seq : \A j \in DOMAIN ready : seq[i] # ready[j]
  BY <1>1, <1>4 DEF NoRepeats
<1>7. \A i, j \in DOMAIN all : all[i] = all[j] => i = j
  <2> SUFFICES ASSUME NEW i \in DOMAIN all, NEW j \in DOMAIN all, all[i] = all[j]
               PROVE  i = j
    OBVIOUS
  <2>1. i \in Int /\ j \in Int
    BY <1>3
  <2>2. \/ i \in DOMAIN seq /\ j \in DOMAIN seq /\ seq[i] = seq[j]
        \/ /\ i - Len(seq) \in DOMAIN ready /\ j - Len(seq) \in DOMAIN ready
           /\ ready[i - Len(seq)] = ready[j - Len(seq)]
    BY <1>3, <1>6
  <2>3. i = j \/ i - Len(seq) = j - Len(seq)
    BY <1>5, <2>2 DEF NoRepeats
  <2> QED
    BY <1>3, <2>1, <2>3
<1>8. \A k, l \in DOMAIN queue : queue[k] = queue[l] => k = l
  BY <1>1, <1>4 DEF NoRepeats
<1>9. ASSUME NEW i \in DOMAIN ready, NEW k \in DOMAIN queue PROVE ready[i] # queue[k]
  <2>1. k \in DOMAIN c.queue /\ queue[k] = c.queue[k]
    BY <1>1, <1>3
  <2> QED
    BY <1>1, <1>4, <2>1 DEF NoRepeats
<1>10. \A i \in DOMAIN seq : \A k \in DOMAIN queue : seq[i] # queue[k]
  BY <1>1, <1>4 DEF NoRepeats
<1>11. NoRepeats(all, queue)
  BY <1>3, <1>7, <1>8, <1>9, <1>10 DEF NoRepeats
<1>12. Held(all, queue) \subseteq Held(seq, c.queue) \cup {data}
  BY <1>1, <1>3 DEF Held
<1> QED
  BY <1>11, <1>12 DEF result, all, ready, queue

\* What has been sent remains sent, and the next chunk has not been.
LEMMA SentPersists ==
    ASSUME WholeInv, [Next]_vars, NEW m \in DOMAIN Payload, NEW i \in Nat, Sent(m, i)
    PROVE  /\ Sent(m, i)'
           /\ SendFrame => ~ (m = msg /\ i = part)
<1>1. m \in Nat /\ msg \in Nat /\ part \in Nat
  BY PayloadAssumption DEF WholeInv, TypeOK
<1>2. CASE UNCHANGED <<msg, part, split_id>>
  BY <1>1, <1>2 DEF Sent
<1>3. CASE SendFrame
  BY <1>1, <1>3, SendCounts DEF Sent
<1>4. ~ (m = msg /\ i = part)
  BY <1>1 DEF Sent
<1> QED
  BY <1>2, <1>3, <1>4, FlyingStep

\* What has arrived cannot come again while the window forgets nothing.
LEMMA GotPersists ==
    ASSUME WholeInv, [Next]_vars, recv_window.received \subseteq recv_window'.received,
           NEW m \in DOMAIN Payload, NEW i \in Nat, Got(m, i)
    PROVE  Got(m, i)'
<1>1. Sent(m, i)' /\ (SendFrame => ~ (m = msg /\ i = part))
  BY SentPersists DEF Got
<1>2. CASE Flying' \subseteq Flying
  BY <1>1, <1>2 DEF Got
<1>3. CASE SendFrame /\ Flying' \subseteq Flying \cup {NextDatagram}
  <2>1. ~ (NextDatagram.msg = m /\ NextDatagram.index = i)
    BY <1>1, <1>3 DEF NextDatagram
  <2> QED
    BY <1>1, <1>3, <2>1 DEF Got
<1> QED
  BY <1>2, <1>3, FlyingStep

\* Every chunk goes out under one number.
LEMMA OneNumberStep ==
    ASSUME OnceInv, [Next]_vars
    PROVE  /\ \A d \in Flying' : Sent(d.msg, d.index)'
           /\ \A d, e \in Flying' : d.msg = e.msg /\ d.index = e.index => d.seq = e.seq
<1>1. WholeInv /\ Flying \subseteq Datagram
  BY FlyingType DEF OnceInv, WholeInv
<1>2. \A d \in Flying : /\ d.msg \in DOMAIN Payload /\ d.index \in Nat /\ Sent(d.msg, d.index)
                        /\ d.msg \in Nat
  BY <1>1, PayloadAssumption DEF OnceInv, Datagram
<1>3. ASSUME NEW d \in Flying PROVE Sent(d.msg, d.index)'
  BY <1>1, <1>2, SentPersists
<1>4. CASE Flying' \subseteq Flying
  BY <1>3, <1>4 DEF OnceInv
<1>5. CASE SendFrame /\ Flying' \subseteq Flying \cup {NextDatagram}
  <2>1. PICK n : n = NextDatagram
    OBVIOUS
  <2>2. n.msg = msg /\ n.index = part
    BY <2>1 DEF NextDatagram
  <2>3. Sent(n.msg, n.index)'
    BY <1>1, <1>5, <2>2, SendCounts DEF Sent
  <2>4. \A d \in Flying : ~ (d.msg = msg /\ d.index = part)
    BY <1>1, <1>2, <1>5, SentPersists
  <2> QED
    BY <1>3, <1>5, <2>1, <2>2, <2>3, <2>4 DEF OnceInv
<1> QED
  BY <1>4, <1>5, FlyingStep

\* The window, as long as nothing is misread: it forgets nothing, and takes a
\* datagram for new only if its chunk has not arrived before.
LEMMA ReceiveNewOnly ==
    ASSUME CleanSeqs =< WindowSize, OnceInv, NEW d \in net, ReceiveDatagram(d), NothingMisread'
    PROVE  /\ recv_window'.base_seq = 0
           /\ recv_window.received \subseteq recv_window'.received
           /\ \/ IgnoreDatagram
              \/ HandleFrame(d) /\ ~ Got(d.msg, d.index) /\ Got(d.msg, d.index)'
<1> DEFINE marked == MarkReceived(recv_window, d.seq)
<1>1. [Next]_vars
  BY DEF Next
<1>2. NothingMisread /\ WholeInv /\ TypeOK /\ recv_window.base_seq = 0
  BY <1>1, MisreadStays DEF OnceInv, OnlyOnce, WholeInv
<1>3. /\ d \in Flying /\ d \in Datagram /\ d.seq \in u24 /\ d.seq \in Int
      /\ d.msg \in DOMAIN Payload /\ d.index \in Nat
  BY <1>2, FlyingType DEF Flying, Datagram, u24
<1>4. recv_window \in RecvWindowType /\ recv_window' = marked.window
  BY <1>2 DEF TypeOK, ReceiveDatagram
<1>5. CASE marked.verdict # "new"
  <2>1. IgnoreDatagram
    BY <1>5 DEF ReceiveDatagram
  <2>2. recv_window' = recv_window
    BY <1>2, <1>3, <1>4, <1>5, MarkAtZero
  <2> QED
    BY <1>2, <2>1, <2>2
<1>6. CASE marked.verdict = "new"
  <2>1. AcceptDatagram(d)
    BY <1>6 DEF ReceiveDatagram
  <2>2. d.seq < CleanSeqs /\ HandleFrame(d)
    BY <2>1 DEF AcceptDatagram, NothingMisread
  <2>3. d.seq < WindowSize
    BY <1>3, <2>2, CleanSeqsAssumption, WindowSizeAssumption
  <2>4. /\ d.seq \notin recv_window.received /\ recv_window'.base_seq = 0
        /\ recv_window'.received = recv_window.received \cup {d.seq}
    BY <1>2, <1>3, <1>4, <1>6, <2>3, MarkAtZero
  <2>5. ~ Got(d.msg, d.index)
    BY <1>3, <2>4 DEF Got
  <2>6. Flying' \subseteq Flying
    BY DEF ReceiveDatagram, tracking, Flying
  <2>7. Sent(d.msg, d.index)'
    BY <1>1, <1>2, <1>3, SentPersists DEF OnceInv
  <2>8. Got(d.msg, d.index)'
    <3>1. \A e \in Flying : e.msg = d.msg /\ e.index = d.index => e.seq = d.seq
      BY <1>3 DEF OnceInv
    <3> QED
      BY <2>4, <2>6, <2>7, <3>1 DEF Got
  <2> QED
    BY <2>2, <2>4, <2>5, <2>8
<1> QED
  BY <1>5, <1>6

\* handle_frame on a chunk that has not arrived before delivers and queues
\* nothing twice.
LEMMA HandleOnce ==
    ASSUME OnceInv, [Next]_vars, NothingMisread, NEW d \in net, HandleFrame(d),
           recv_window'.base_seq = 0, recv_window.received \subseteq recv_window'.received,
           ~ Got(d.msg, d.index), Got(d.msg, d.index)'
    PROVE  OnlyOnce'
<1>1. /\ WholeInv /\ TypeOK /\ OnlyOnce
      /\ delivered \in Seq(Wholes) /\ IsChannel(channel, Wholes)
  BY DEF OnceInv, WholeInv
<1>2. /\ d \in Flying /\ d \in Datagram /\ Genuine(d) /\ d.msg \in DOMAIN Payload
      /\ d.order \in u24 /\ d.index \in Nat /\ d.index \in 0 .. ChunkCount(d.msg) - 1
  <2>1. d \in Flying /\ d \in Datagram /\ Genuine(d)
    BY <1>1, FlyingType DEF WholeInv, Flying
  <2> QED
    BY <2>1, WholeType DEF Datagram, Genuine
<1>3. ASSUME NEW m \in DOMAIN Payload, WholeGot(m) PROVE WholeGot(m)'
  <2> SUFFICES ASSUME NEW i \in 0 .. ChunkCount(m) - 1 PROVE Got(m, i)'
    BY DEF WholeGot
  <2>1. i \in Nat /\ Got(m, i)
    BY <1>3, WholeType DEF WholeGot
  <2> QED
    BY <1>1, <2>1, GotPersists
<1>4. Whole(d.msg) \notin Held(delivered, channel.queue) /\ NoRepeats(delivered, channel.queue)
  BY <1>1, <1>2 DEF OnlyOnce, WholeGot
<1>5. ASSUME NEW id \in DOMAIN splits, NEW i \in DOMAIN splits[id].fragments,
             NEW m \in DOMAIN Payload, PiecesOf(splits[id], m)
      PROVE  Got(m, i)'
  <2>1. i \in Nat /\ Got(m, i)
    BY <1>1, <1>5 DEF OnlyOnce, TypeOK, IsSplits, IsEntry, IsMap
  <2> QED
    BY <1>1, <2>1, GotPersists
<1>6. CASE HandlePing(d) \/ HandleDisconnect(d)
  <2>1. UNCHANGED <<channel, splits, delivered>>
    BY <1>6 DEF HandlePing, HandleDisconnect
  <2> QED
    BY <1>1, <1>3, <1>5, <2>1 DEF OnlyOnce, PiecesOf
<1>7. CASE HandleOrdered(d)
  <2> DEFINE data == <<Chunk(d.msg, d.index)>>
             result == ChannelInsert(channel, d.order, data)
  <2>1. ChunkCount(d.msg) = 1 /\ d.index = 0
    BY <1>2, <1>7 DEF HandleOrdered, Genuine
  <2>2. data = Whole(d.msg) /\ data \in Wholes
    BY <1>2, <2>1 DEF Whole, Wholes
  <2>3. /\ channel' = result.channel /\ delivered' = delivered \o result.ready
        /\ splits' = splits
    BY <1>7 DEF HandleOrdered
  <2> HIDE DEF data
  <2>4. result = ChannelInsert(channel, d.order, data)
    OBVIOUS
  <2> HIDE DEF result
  <2>5. /\ NoRepeats(delivered', result.channel.queue)
        /\ Held(delivered', result.channel.queue) \subseteq
               Held(delivered, channel.queue) \cup {data}
    <3>1. data \notin Held(delivered, channel.queue)
      BY <1>4, <2>2
    <3>2. /\ delivered \in Seq(Wholes) /\ IsChannel(channel, Wholes)
          /\ d.order \in u24 /\ data \in Wholes /\ NoRepeats(delivered, channel.queue)
          /\ delivered' = delivered \o result.ready
      BY <1>1, <1>2, <1>4, <2>2, <2>3
    <3> QED
      BY <2>4, <3>1, <3>2, ChannelRepeatsNothing
  <2>6. WholeGot(d.msg)'
    BY <2>1 DEF WholeGot
  <2>7. ASSUME NEW m \in DOMAIN Payload, Whole(m) \in Held(delivered, channel.queue)'
        PROVE  WholeGot(m)'
    <3>1. Whole(m) = data \/ Whole(m) \in Held(delivered, channel.queue)
      BY <2>3, <2>5, <2>7
    <3>2. CASE Whole(m) = data
      BY <1>2, <2>2, <2>6, <3>2, WholeInjective
    <3>3. CASE Whole(m) \in Held(delivered, channel.queue)
      BY <1>1, <1>3, <3>3 DEF OnlyOnce
    <3> QED
      BY <3>1, <3>2, <3>3
  <2>8. NoRepeats(delivered, channel.queue)'
    BY <2>3, <2>5
  <2> QED
    BY <1>5, <2>3, <2>7, <2>8 DEF OnlyOnce, PiecesOf
<1>8. CASE HandleFragment(d)
  <2>1. /\ channel' = channel
        /\ d.split \in DOMAIN splits => PiecesOf(splits[d.split], d.msg)
        /\ d.split \in DOMAIN splits' => PiecesOf(splits'[d.split], d.msg)
        /\ \A j \in DOMAIN splits' :
               j # d.split => j \in DOMAIN splits /\ splits'[j] = splits[j]
        /\ \A i : ArrivedBefore(splits', d.split, i) =>
               i = d.index \/ ArrivedBefore(splits, d.split, i)
    BY <1>1, <1>8, HandleFragmentStep
  <2>2. ASSUME NEW i, i = d.index \/ ArrivedBefore(splits, d.split, i)
        PROVE  Got(d.msg, i)'
    BY <1>2, <1>5, <2>1, <2>2 DEF ArrivedBefore
  <2>3. ASSUME NEW id \in DOMAIN splits', NEW i \in DOMAIN splits'[id].fragments,
               NEW m \in DOMAIN Payload, PiecesOf(splits'[id], m)
        PROVE  Got(m, i)'
    <3>1. CASE id # d.split
      BY <1>5, <2>1, <2>3, <3>1
    <3>2. CASE id = d.split
      <4>1. m = d.msg
        <5>1. Chunk(m, i) = Chunk(d.msg, i)
          BY <2>1, <2>3, <3>2 DEF PiecesOf
        <5> QED
          BY <5>1 DEF Chunk
      <4> QED
        BY <2>1, <2>2, <3>2, <4>1 DEF ArrivedBefore
    <3> QED
      BY <3>1, <3>2
  <2>4. CASE delivered' = delivered
    BY <1>1, <1>3, <2>1, <2>3, <2>4 DEF OnlyOnce, PiecesOf
  <2>5. CASE /\ delivered' = Append(delivered, Whole(d.msg))
             /\ \A i \in 0 .. ChunkCount(d.msg) - 1 :
                    i = d.index \/ ArrivedBefore(splits, d.split, i)
    <3>1. WholeGot(d.msg)'
      BY <2>2, <2>5 DEF WholeGot
    <3>2. /\ DOMAIN delivered = 1 .. Len(delivered) /\ Len(delivered) \in Nat
          /\ DOMAIN delivered' = 1 .. Len(delivered) + 1
          /\ \A i \in DOMAIN delivered : delivered'[i] = delivered[i]
          /\ delivered'[Len(delivered) + 1] = Whole(d.msg)
      <4>1. Whole(d.msg) \in Wholes
        BY <1>2 DEF Wholes
      <4> QED
        BY <1>1, <2>5, <4>1, AppendProperties
    <3>3. \A i \in DOMAIN delivered' : i \in DOMAIN delivered \/ i = Len(delivered) + 1
      BY <3>2
    <3>4. NoRepeats(delivered, channel.queue)'
      BY <1>4, <2>1, <3>2, <3>3 DEF NoRepeats, Held
    <3>5. ASSUME NEW m \in DOMAIN Payload, Whole(m) \in Held(delivered, channel.queue)'
          PROVE  WholeGot(m)'
      <4>1. Whole(m) = Whole(d.msg) \/ Whole(m) \in Held(delivered, channel.queue)
        BY <2>1, <3>2, <3>3, <3>5 DEF Held
      <4>2. CASE Whole(m) = Whole(d.msg)
        BY <1>2, <3>1, <4>2, WholeInjective
      <4>3. CASE Whole(m) \in Held(delivered, channel.queue)
        BY <1>1, <1>3, <4>3 DEF OnlyOnce
      <4> QED
        BY <4>1, <4>2, <4>3
    <3> QED
      BY <2>3, <3>4, <3>5 DEF OnlyOnce, PiecesOf
  <2> QED
    BY <1>1, <1>8, <2>4, <2>5, HandleFragmentStep
<1> QED
  BY <1>6, <1>7, <1>8 DEF HandleFrame

\* A step that handles no frame, with the window no smaller, repeats nothing.
LEMMA OnceWithoutFrame ==
    ASSUME OnceInv, [Next]_vars, NothingMisread, recv_window'.base_seq = 0,
           recv_window.received \subseteq recv_window'.received,
           delivered' = delivered, channel' = channel,
           \A id \in DOMAIN splits' : id \in DOMAIN splits /\ splits'[id] = splits[id]
    PROVE  OnlyOnce'
<1>1. WholeInv /\ TypeOK /\ OnlyOnce
  BY DEF OnceInv, WholeInv
<1>2. ASSUME NEW m \in DOMAIN Payload, WholeGot(m) PROVE WholeGot(m)'
  <2> SUFFICES ASSUME NEW i \in 0 .. ChunkCount(m) - 1 PROVE Got(m, i)'
    BY DEF WholeGot
  <2>1. i \in Nat /\ Got(m, i)
    BY <1>2, WholeType DEF WholeGot
  <2> QED
    BY <1>1, <2>1, GotPersists
<1>3. ASSUME NEW id \in DOMAIN splits', NEW i \in DOMAIN splits'[id].fragments,
             NEW m \in DOMAIN Payload, PiecesOf(splits'[id], m)
      PROVE  Got(m, i)'
  <2>1. id \in DOMAIN splits /\ splits'[id] = splits[id]
    OBVIOUS
  <2>2. i \in Nat /\ Got(m, i)
    BY <1>1, <1>3, <2>1 DEF OnlyOnce, TypeOK, IsSplits, IsEntry, IsMap
  <2> QED
    BY <1>1, <2>2, GotPersists
<1> QED
  BY <1>1, <1>2, <1>3 DEF OnlyOnce, PiecesOf

\* No message reaches the application twice as long as no datagram is misread,
\* whatever the network duplicates and whenever entries expire, if the numbers
\* that are read as sent fit the receive window (16 and 2048 in the code).
THEOREM LinkDeliversOnce ==
    ASSUME CleanSeqs =< WindowSize
    PROVE  Spec => []DeliveredOnce
<1>1. Init => OnceInv
  <2> SUFFICES ASSUME Init PROVE OnceInv
    OBVIOUS
  <2>1. Flying = {} /\ OnlyOnce
    BY DEF Init, Flying, EmptyMap, EmptyChannel, EmptyWindow, OnlyOnce, Held, NoRepeats
  <2> QED
    BY <2>1, WholeInit DEF OnceInv
<1>2. ASSUME OnceInv, [Next]_vars PROVE OnceInv'
  <2>1. WholeInv'
    BY <1>2, WholeStep DEF OnceInv
  <2>2. ASSUME NothingMisread' PROVE OnlyOnce'
    <3>1. NothingMisread /\ recv_window.base_seq = 0
      BY <1>2, <2>2, MisreadStays DEF OnceInv, OnlyOnce
    <3>2. ASSUME NEW d \in net, ReceiveDatagram(d) PROVE OnlyOnce'
      <4>1. /\ recv_window'.base_seq = 0
            /\ recv_window.received \subseteq recv_window'.received
            /\ \/ IgnoreDatagram
               \/ HandleFrame(d) /\ ~ Got(d.msg, d.index) /\ Got(d.msg, d.index)'
        BY <1>2, <2>2, <3>2, ReceiveNewOnly
      <4>2. CASE IgnoreDatagram
        BY <1>2, <3>1, <4>1, <4>2, OnceWithoutFrame DEF IgnoreDatagram
      <4>3. CASE HandleFrame(d) /\ ~ Got(d.msg, d.index) /\ Got(d.msg, d.index)'
        BY <1>2, <3>1, <4>1, <4>3, HandleOnce
      <4> QED
        BY <4>1, <4>2, <4>3
    <3>3. CASE ~ \E d \in net : ReceiveDatagram(d)
      <4>1. /\ recv_window' = recv_window /\ delivered' = delivered /\ channel' = channel
            /\ \A id \in DOMAIN splits' : id \in DOMAIN splits /\ splits'[id] = splits[id]
        BY <1>2, <3>3, ReceiverStep DEF Without
      <4> QED
        BY <1>2, <3>1, <4>1, OnceWithoutFrame
    <3> QED
      BY <3>2, <3>3
  <2> QED
    BY <1>2, <2>1, <2>2, OneNumberStep DEF OnceInv
<1>3. OnceInv => DeliveredOnce
  BY DEF OnceInv, OnlyOnce, NoRepeats, DeliveredOnce
<1>4. OnceInv /\ [Next]_vars => OnceInv'
  BY <1>2
<1> QED
  BY <1>1, <1>3, <1>4, PTL DEF Spec
=============================================================================
