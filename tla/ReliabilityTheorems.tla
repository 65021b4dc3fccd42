------------------------- MODULE ReliabilityTheorems ------------------------
(***************************************************************************)
(* Facts about the data structures of the reliability layer, for every     *)
(* size of them, that the proofs about Link, Session and RecvWindowModel   *)
(* rest on.                                                                *)
(***************************************************************************)
EXTENDS RecvWindow, SendQueue, FragmentQueue, OrderedChannel, FiniteSetTheorems,
        NaturalsInduction, WellFoundedInduction, TLAPS

\* Inserting into a map, and removing keys from it, keeps its type.
LEMMA PutType ==
    ASSUME NEW K, NEW V, NEW f, IsMap(f, K, V), NEW key \in K, NEW value \in V
    PROVE  IsMap(Put(f, key, value), K, V)
BY DEF IsMap, Put

\* Removing keys keeps a map's type.
LEMMA WithoutType ==
    ASSUME NEW K, NEW V, NEW f, IsMap(f, K, V), NEW gone
    PROVE  IsMap(Without(f, gone), K, V)
BY DEF IsMap, Without

\* The empty map is a map of any type.
LEMMA EmptyMapType ==
    ASSUME NEW K, NEW V
    PROVE  IsMap(EmptyMap, K, V)
BY DEF IsMap, EmptyMap

-----------------------------------------------------------------------------
\* The drain loop of OrderedChannel::insert stops, and where it stops is the
\* first index with no packet queued.
LEMMA FirstGapProperty ==
    ASSUME NEW queue, DOMAIN queue \subseteq u24, NEW n \in u24
    PROVE  /\ FirstGap(queue, n) \in n + 1 .. SeqSpace
           /\ FirstGap(queue, n) \notin DOMAIN queue
           /\ n + 1 .. FirstGap(queue, n) - 1 \subseteq DOMAIN queue
<1> DEFINE Gaps == {g \in n + 1 .. SeqSpace : g \notin DOMAIN queue}
<1>1. SeqSpace \in Nat /\ n + 1 \in Nat /\ n + 1 =< SeqSpace /\ SeqSpace \notin u24
  BY HalfSpaceAssumption DEF u24, SeqSpace
<1>2. SeqSpace \in Gaps /\ Gaps \subseteq Nat
  BY <1>1
<1>3. PICK g \in Gaps : \A h \in Gaps : ~ (<<h, g>> \in OpToRel(<, Nat))
  <2>1. IsWellFoundedOn(OpToRel(<, Nat), Nat)
    BY NatLessThanWellFounded
  <2> HIDE DEF Gaps
  <2> QED
    BY <1>2, <2>1, WFMin, Zenon
<1>4. \A h \in Gaps : ~ (h < g)
  BY <1>2, <1>3 DEF OpToRel
<1>5. n + 1 .. g - 1 \subseteq DOMAIN queue
  BY <1>1, <1>4
<1> QED
  BY <1>5 DEF FirstGap

\* insert keeps a channel a channel, and what it returns is a sequence of
\* packets.
LEMMA ChannelInsertType ==
    ASSUME NEW V, NEW c, IsChannel(c, V), NEW index \in u24, NEW data \in V
    PROVE  /\ IsChannel(ChannelInsert(c, index, data).channel, V)
           /\ ChannelInsert(c, index, data).ready \in Seq(V)
<1> DEFINE gap == FirstGap(c.queue, c.next_index)
<1>1. CASE index = c.next_index
  <2>1. /\ gap \in c.next_index + 1 .. SeqSpace
        /\ c.next_index + 1 .. gap - 1 \subseteq DOMAIN c.queue
    BY <1>1, FirstGapProperty DEF IsChannel, IsMap
  <2>2. ChannelInsert(c, index, data) = Drain(c, data)
    BY <1>1 DEF ChannelInsert
  <2>3. IsMap(Without(c.queue, c.next_index + 1 .. gap - 1), u24, V)
    BY WithoutType DEF IsChannel
  <2>4. gap \in 0 .. SeqSpace /\ gap - c.next_index \in Nat
    BY <2>1, <1>1, HalfSpaceAssumption DEF u24, SeqSpace
  <2>5. \A i \in 1 .. gap - c.next_index :
            (IF i = 1 THEN data ELSE c.queue[c.next_index + i - 1]) \in V
    <3> SUFFICES ASSUME NEW i \in 1 .. gap - c.next_index, i # 1
                 PROVE  c.queue[c.next_index + i - 1] \in V
      OBVIOUS
    <3>1. c.next_index + i - 1 \in c.next_index + 1 .. gap - 1
      BY <1>1, <2>1 DEF u24
    <3> QED
      BY <3>1, <2>1 DEF IsChannel, IsMap
  <2> HIDE DEF gap
  <2>6. Drain(c, data).ready \in Seq(V)
    <3>1. Drain(c, data).ready = [i \in 1 .. gap - c.next_index |->
                    IF i = 1 THEN data ELSE c.queue[c.next_index + i - 1]]
      BY DEF Drain, gap
    <3> QED
      BY <3>1, <2>4, <2>5
  <2>7. IsChannel(Drain(c, data).channel, V)
    BY <2>3, <2>4 DEF Drain, IsChannel, gap
  <2> QED
    BY <2>2, <2>6, <2>7
<1>2. CASE index # c.next_index /\ index > c.next_index
  <2>1. IsMap(Put(c.queue, index, data), u24, V)
    BY PutType DEF IsChannel
  <2>2. IsChannel([c EXCEPT !.queue = Put(@, index, data)], V)
    BY <2>1 DEF IsChannel
  <2> QED
    BY <1>2, <2>2 DEF ChannelInsert, Park
<1>3. CASE index # c.next_index /\ ~ (index > c.next_index)
  BY <1>3 DEF ChannelInsert
<1> QED
  BY <1>1, <1>2, <1>3

\* The contract of OrderedChannel::insert.  If every queued packet is the one
\* the stream F has at its index, and so is the packet inserted, then what
\* becomes ready is the piece of F from next_index up to the new next_index,
\* all of it received by then, and the packets still queued are F's.
LEMMA ChannelFollowsStream ==
    ASSUME NEW V, NEW c, IsChannel(c, V), NEW F,
           \A k \in DOMAIN c.queue : c.queue[k] = F[k],
           NEW index \in u24, NEW result, result = ChannelInsert(c, index, F[index])
    PROVE  /\ result.channel.next_index \in c.next_index .. SeqSpace
           /\ c.next_index .. result.channel.next_index - 1
                  \subseteq DOMAIN c.queue \cup {index}
           /\ result.ready = [i \in 1 .. result.channel.next_index - c.next_index |->
                                 F[c.next_index + i - 1]]
           /\ DOMAIN result.channel.queue \subseteq DOMAIN c.queue \cup {index}
           /\ \A k \in DOMAIN result.channel.queue : result.channel.queue[k] = F[k]
<1> DEFINE gap == FirstGap(c.queue, c.next_index)
<1>1. CASE index = c.next_index
  <2>1. /\ gap \in c.next_index + 1 .. SeqSpace
        /\ c.next_index + 1 .. gap - 1 \subseteq DOMAIN c.queue
    BY <1>1, FirstGapProperty DEF IsChannel, IsMap
  <2> HIDE DEF gap
  <2>2. /\ result.channel.next_index = gap
        /\ result.channel.queue = Without(c.queue, c.next_index + 1 .. gap - 1)
        /\ result.ready = [i \in 1 .. gap - c.next_index |->
                IF i = 1 THEN F[index] ELSE c.queue[c.next_index + i - 1]]
    BY <1>1 DEF ChannelInsert, Drain, gap
  <2>3. \A i \in 1 .. gap - c.next_index :
            (IF i = 1 THEN F[index] ELSE c.queue[c.next_index + i - 1])
              = F[c.next_index + i - 1]
    <3> SUFFICES ASSUME NEW i \in 1 .. gap - c.next_index
                 PROVE  (IF i = 1 THEN F[index] ELSE c.queue[c.next_index + i - 1])
                          = F[c.next_index + i - 1]
      OBVIOUS
    <3>1. CASE i = 1
      BY <1>1, <3>1 DEF u24
    <3>2. CASE i # 1
      <4>1. c.next_index + i - 1 \in c.next_index + 1 .. gap - 1
        BY <1>1, <2>1, <3>2 DEF u24
      <4> QED
        BY <3>2, <4>1, <2>1
    <3> QED
      BY <3>1, <3>2
  <2>4. c.next_index .. gap - 1 \subseteq DOMAIN c.queue \cup {index}
    BY <1>1, <2>1 DEF u24
  <2>5. gap \in c.next_index .. SeqSpace
    BY <1>1, <2>1 DEF u24
  <2>6. result.ready = [i \in 1 .. gap - c.next_index |-> F[c.next_index + i - 1]]
    BY <2>2, <2>3
  <2>7. /\ DOMAIN result.channel.queue \subseteq DOMAIN c.queue
        /\ \A k \in DOMAIN result.channel.queue : result.channel.queue[k] = F[k]
    BY <2>2 DEF Without
  <2> QED
    BY <2>2, <2>4, <2>5, <2>6, <2>7
<1>2. CASE index # c.next_index
  <2>0. c.next_index \in 0 .. SeqSpace
    BY DEF IsChannel
  <2>1. result.channel.next_index = c.next_index /\ result.ready = <<>>
    BY <1>2 DEF ChannelInsert, Park, IsChannel
  <2>2. \/ result.channel.queue = c.queue
        \/ result.channel.queue = Put(c.queue, index, F[index])
    BY <1>2 DEF ChannelInsert, Park, IsChannel
  <2>3. /\ DOMAIN result.channel.queue \subseteq DOMAIN c.queue \cup {index}
        /\ \A k \in DOMAIN result.channel.queue : result.channel.queue[k] = F[k]
    BY <2>2 DEF Put
  <2>4. <<>> = [i \in 1 .. c.next_index - c.next_index |-> F[c.next_index + i - 1]]
    BY <2>0
  <2>5. c.next_index .. c.next_index - 1 = {} /\ c.next_index \in c.next_index .. SeqSpace
    BY <2>0, HalfSpaceAssumption DEF SeqSpace
  <2> QED
    BY <2>1, <2>3, <2>4, <2>5
<1> QED
  BY <1>1, <1>2
\* insert loses nothing unless the queue is full: a packet that was queued,
\* and the one inserted, is behind the next index or queued afterwards.
LEMMA ChannelKeeps ==
    ASSUME NEW V, NEW c, IsChannel(c, V), NEW index \in u24, NEW data,
           Size(c.queue) < ChannelSize \/ index \in DOMAIN c.queue,
           NEW result, result = ChannelInsert(c, index, data)
    PROVE  \A k \in DOMAIN c.queue \cup {index} :
               k < result.channel.next_index \/ k \in DOMAIN result.channel.queue
<1> DEFINE gap == FirstGap(c.queue, c.next_index)
<1>1. DOMAIN c.queue \subseteq Int /\ index \in Int /\ c.next_index \in Int
  BY DEF IsChannel, IsMap, u24
<1>2. CASE index = c.next_index
  <2>1. gap \in c.next_index + 1 .. SeqSpace
    BY <1>2, FirstGapProperty DEF IsChannel, IsMap
  <2> HIDE DEF gap
  <2>2. /\ result.channel.next_index = gap
        /\ DOMAIN result.channel.queue = DOMAIN c.queue \ (c.next_index + 1 .. gap - 1)
    BY <1>2 DEF ChannelInsert, Drain, Without, gap
  <2> QED
    BY <1>1, <1>2, <2>1, <2>2
<1>3. CASE index > c.next_index
  <2>1. DOMAIN result.channel.queue = DOMAIN c.queue \cup {index}
    BY <1>1, <1>3 DEF ChannelInsert, Park, IsChannel, Put
  <2> QED
    BY <2>1
<1>4. CASE index < c.next_index
  BY <1>1, <1>4 DEF ChannelInsert
<1> QED
  BY <1>1, <1>2, <1>3, <1>4

\* Where the packets that insert returns, and the ones it leaves queued, come
\* from: the first one returned is the one inserted, the others leave the
\* queue, and nothing moves within it.
LEMMA ChannelInsertParts ==
    ASSUME NEW V, NEW c, IsChannel(c, V), NEW index \in u24, NEW data,
           NEW result, result = ChannelInsert(c, index, data)
    PROVE  /\ \A k \in DOMAIN result.channel.queue :
                  \/ k \in DOMAIN c.queue /\ result.channel.queue[k] = c.queue[k]
                  \/ k = index /\ result.channel.queue[k] = data /\ result.ready = <<>>
           /\ \A i \in DOMAIN result.ready :
                  \/ i = 1 /\ result.ready[i] = data
                  \/ /\ c.next_index + i - 1 \in DOMAIN c.queue
                     /\ c.next_index + i - 1 \notin DOMAIN result.channel.queue
                     /\ result.ready[i] = c.queue[c.next_index + i - 1]
<1> DEFINE gap == FirstGap(c.queue, c.next_index)
<1>1. DOMAIN c.queue \subseteq Int /\ index \in Int /\ c.next_index \in Int
  BY DEF IsChannel, IsMap, u24
<1>2. CASE index = c.next_index
  <2>1. /\ gap \in c.next_index + 1 .. SeqSpace
        /\ c.next_index + 1 .. gap - 1 \subseteq DOMAIN c.queue
    BY <1>2, FirstGapProperty DEF IsChannel, IsMap
  <2> HIDE DEF gap
  <2>2. /\ result.channel.queue = Without(c.queue, c.next_index + 1 .. gap - 1)
        /\ result.ready = [i \in 1 .. gap - c.next_index |->
                IF i = 1 THEN data ELSE c.queue[c.next_index + i - 1]]
    BY <1>2 DEF ChannelInsert, Drain, gap
  <2>3. /\ DOMAIN result.channel.queue = DOMAIN c.queue \ (c.next_index + 1 .. gap - 1)
        /\ \A k \in DOMAIN result.channel.queue : result.channel.queue[k] = c.queue[k]
    BY <2>2 DEF Without
  <2>4. ASSUME NEW i \in DOMAIN result.ready, i # 1
        PROVE  /\ c.next_index + i - 1 \in c.next_index + 1 .. gap - 1
               /\ result.ready[i] = c.queue[c.next_index + i - 1]
    <3>1. i \in 1 .. gap - c.next_index /\ gap \in Int
      BY <1>1, <2>1, <2>2, <2>4
    <3>2. c.next_index + i - 1 \in c.next_index + 1 .. gap - 1
      BY <1>1, <2>4, <3>1
    <3> QED
      BY <2>2, <2>4, <3>1, <3>2
  <2>5. ASSUME 1 \in DOMAIN result.ready PROVE result.ready[1] = data
    BY <2>2, <2>5
  <2> QED
    BY <2>1, <2>3, <2>4, <2>5
<1>3. CASE index # c.next_index
  <2>1. result.ready = <<>>
    BY <1>3 DEF ChannelInsert, Park
  <2>2. \/ result.channel.queue = c.queue
        \/ result.channel.queue = Put(c.queue, index, data)
    BY <1>3 DEF ChannelInsert, Park, IsChannel
  <2> QED
    BY <2>1, <2>2 DEF Put
<1> QED
  BY <1>2, <1>3

-----------------------------------------------------------------------------
\* Wrapping addition and subtraction of u24 stay within the 24-bit circle.
LEMMA WrappingType ==
    ASSUME NEW a \in u24, NEW b \in u24
    PROVE  wrapping_add(a, b) \in u24 /\ wrapping_sub(a, b) \in u24
BY HalfSpaceAssumption, SMT DEF u24, SeqSpace, wrapping_add, wrapping_sub

\* Subtracting undoes adding a distance shorter than the circle: the offset
\* of a number in the window is the distance it was put at.
LEMMA OffsetOfDistance ==
    ASSUME NEW a \in u24, NEW n \in u24
    PROVE  wrapping_sub(a, wrapping_sub(a, n)) = n
BY HalfSpaceAssumption, SMT DEF u24, SeqSpace, wrapping_sub

-----------------------------------------------------------------------------
\* slide_to keeps a window a window.
LEMMA SlideToType ==
    ASSUME NEW w \in RecvWindowType, NEW seq \in u24
    PROVE  SlideTo(w, seq) \in RecvWindowType
<1> DEFINE shift == wrapping_sub(seq, w.base_seq)
<1>1. shift \in u24
  BY WrappingType DEF RecvWindowType
<1>2. WindowSize \div 2 \in u24
  BY WindowSizeAssumption, HalfSpaceAssumption DEF u24, SeqSpace
<1>3. wrapping_sub(seq, WindowSize \div 2) \in u24
  BY <1>2, WrappingType
<1>4. {o - shift : o \in {p \in w.received : p >= shift}} \subseteq WindowOffsets
  BY <1>1, WindowSizeAssumption DEF RecvWindowType, WindowOffsets, u24
<1> QED
  BY <1>1, <1>3, <1>4 DEF SlideTo, RecvWindowType

\* After slide_to for a number past the window, the number is in the middle
\* of it: the branch of mark_received commented "shouldn't happen" does not.
LEMMA SlideReaches ==
    ASSUME NEW w \in RecvWindowType, NEW seq \in u24,
           wrapping_sub(seq, w.base_seq) >= WindowSize
    PROVE  /\ wrapping_sub(seq, SlideTo(w, seq).base_seq) = WindowSize \div 2
           /\ WindowSize \div 2 \in WindowOffsets
<1>1. WindowSize \div 2 \in u24 /\ WindowSize \div 2 \in WindowOffsets
  BY WindowSizeAssumption, HalfSpaceAssumption DEF u24, SeqSpace, WindowOffsets
<1>2. wrapping_sub(seq, w.base_seq) \in u24
  BY WrappingType DEF RecvWindowType
<1>3. SlideTo(w, seq).base_seq = wrapping_sub(seq, WindowSize \div 2)
  <2>1. wrapping_sub(seq, w.base_seq) # 0
    BY <1>2, WindowSizeAssumption DEF u24
  <2> QED
    BY <2>1 DEF SlideTo, RecvWindowType
<1> QED
  BY <1>1, <1>3, OffsetOfDistance

\* mark_received keeps a window a window and returns one of its verdicts.
LEMMA MarkReceivedType ==
    ASSUME NEW w \in RecvWindowType, NEW seq \in u24
    PROVE  /\ MarkReceived(w, seq).window \in RecvWindowType
           /\ MarkReceived(w, seq).verdict \in {"new", "duplicate", "old"}
<1> DEFINE offset == wrapping_sub(seq, w.base_seq)
<1>1. offset \in u24
  BY WrappingType DEF RecvWindowType
<1>2. Highest(w, seq) \in u24
  BY DEF Highest, RecvWindowType
<1>3. CASE TooOld(w, seq)
  BY <1>3 DEF MarkReceived
<1>4. CASE ~ TooOld(w, seq) /\ offset >= WindowSize
  <2>1. SlideTo(w, seq) \in RecvWindowType
    BY SlideToType
  <2>2. wrapping_sub(seq, SlideTo(w, seq).base_seq) \in WindowOffsets
    BY <1>4, SlideReaches
  <2>3. MarkReceived(w, seq) = MarkBeyond(w, seq)
    BY <1>4 DEF MarkReceived
  <2>4. ~ (wrapping_sub(seq, SlideTo(w, seq).base_seq) >= WindowSize)
    BY <2>2, WindowSizeAssumption DEF WindowOffsets
  <2> DEFINE slid == SlideTo(w, seq)
             place == wrapping_sub(seq, slid.base_seq)
             marked == [slid EXCEPT !.received = @ \cup {place},
                                    !.total_received = 1,
                                    !.highest_seq = Highest(w, seq)]
  <2>5. MarkBeyond(w, seq) = [window |-> marked, verdict |-> "new"]
    BY <2>4 DEF MarkBeyond
  <2>6. marked \in RecvWindowType
    <3> HIDE DEF slid, place
    <3>1. slid \in RecvWindowType /\ place \in WindowOffsets
      BY <2>1, <2>2 DEF slid, place
    <3> QED
      BY <3>1, <1>2 DEF RecvWindowType
  <2> HIDE DEF marked
  <2> QED
    BY <2>3, <2>5, <2>6
<1>5. CASE ~ TooOld(w, seq) /\ ~ (offset >= WindowSize)
  <2>1. offset \in WindowOffsets
    BY <1>1, <1>5, WindowSizeAssumption DEF WindowOffsets, u24
  <2> QED
    BY <1>5, <2>1, <1>2 DEF MarkReceived, RecvWindowType
<1> QED
  BY <1>3, <1>4, <1>5

\* While the window starts at 0, mark_received takes each number within it
\* once, and remembers it; a verdict other than "new" leaves the window alone.
LEMMA MarkAtZero ==
    ASSUME NEW w \in RecvWindowType, w.base_seq = 0, NEW seq \in u24,
           NEW marked, marked = MarkReceived(w, seq)
    PROVE  /\ marked.verdict # "new" => marked.window = w
           /\ marked.verdict = "new" /\ seq < WindowSize =>
                  /\ seq \notin w.received
                  /\ marked.window.base_seq = 0
                  /\ marked.window.received = w.received \cup {seq}
<1>1. wrapping_sub(seq, w.base_seq) = seq /\ seq \in Int
  BY DEF wrapping_sub, u24
<1>2. CASE TooOld(w, seq)
  BY <1>2 DEF MarkReceived
<1>3. CASE ~ TooOld(w, seq) /\ seq >= WindowSize
  <2>1. wrapping_sub(seq, SlideTo(w, seq).base_seq) \in WindowOffsets
    BY <1>1, <1>3, SlideReaches
  <2>2. ~ (wrapping_sub(seq, SlideTo(w, seq).base_seq) >= WindowSize)
    BY <2>1, WindowSizeAssumption DEF WindowOffsets
  <2>3. marked.verdict = "new" /\ ~ (seq < WindowSize)
    BY <1>1, <1>3, <2>2, WindowSizeAssumption DEF MarkReceived, MarkBeyond
  <2> QED
    BY <2>3
<1>4. CASE ~ TooOld(w, seq) /\ ~ (seq >= WindowSize)
  BY <1>1, <1>4 DEF MarkReceived, RecvWindowType
<1> QED
  BY <1>2, <1>3, <1>4

-----------------------------------------------------------------------------
\* The indices of a packet of count fragments.
LEMMA CountInterval ==
    ASSUME NEW count \in Nat \ {0}
    PROVE  IsFiniteSet(0 .. count - 1) /\ Cardinality(0 .. count - 1) = count
BY FS_Interval

\* The fragments of a complete entry are a sequence: as many of them as the
\* count says, each with an index below the count, leaves no index out.
LEMMA ReassembleType ==
    ASSUME NEW V, NEW count \in Nat \ {0}, NEW fragments,
           IsMap(fragments, 0 .. count - 1, V), Size(fragments) = count
    PROVE  reassemble(fragments, count) \in Seq(V)
<1>1. IsFiniteSet(0 .. count - 1) /\ Cardinality(0 .. count - 1) = count
  BY CountInterval
<1>2. DOMAIN fragments = 0 .. count - 1
  BY <1>1, FS_Subset DEF IsMap, Size
<1>3. \A i \in 1 .. count : fragments[i - 1] \in V
  BY <1>2 DEF IsMap
<1> QED
  BY <1>3 DEF reassemble

\* insert keeps the fragment queue's type, and returns no packet or one.
LEMMA FragmentInsertType ==
    ASSUME NEW V, NEW splits, IsSplits(splits, V), NEW id \in Nat,
           NEW index \in Nat, NEW count \in Nat \ {0}, NEW data \in V
    PROVE  /\ IsSplits(FragmentInsert(splits, id, index, count, data).splits, V)
           /\ FragmentInsert(splits, id, index, count, data).whole \in Seq(Seq(V))
<1> DEFINE result == FragmentInsert(splits, id, index, count, data)
           entry == EntryFor(splits, id, count)
           added == AddFragment(splits, id, index, count, data)
           fragments == Put(entry.fragments, index, data)
<1>1. IsSplits(Without(splits, {id}), V)
  BY DEF IsSplits, Without
<1>2. IsEntry(entry, V)
  <2>1. IsEntry(NewEntry(count), V)
    BY EmptyMapType DEF IsEntry, NewEntry
  <2> QED
    BY <2>1 DEF IsSplits, EntryFor
<1>3. \/ result = [splits |-> splits, whole |-> <<>>]
      \/ result = [splits |-> Without(splits, {id}), whole |-> <<>>]
      \/ result = added /\ entry.total_count = count /\ index < count
  BY DEF FragmentInsert
<1>4. ASSUME entry.total_count = count, index < count
      PROVE  IsSplits(added.splits, V) /\ added.whole \in Seq(Seq(V))
  <2>1. IsMap(fragments, 0 .. count - 1, V)
    <3>1. IsMap(entry.fragments, 0 .. count - 1, V) /\ index \in 0 .. count - 1
      BY <1>2, <1>4 DEF IsEntry
    <3> HIDE DEF entry
    <3> QED
      BY <3>1, PutType
  <2>2. CASE Size(fragments) = count
    <3>1. added = [splits |-> Without(splits, {id}),
                   whole |-> <<reassemble(fragments, count)>>]
      BY <2>2 DEF AddFragment
    <3>2. reassemble(fragments, count) \in Seq(V)
      BY <2>1, <2>2, ReassembleType
    <3> QED
      BY <3>1, <3>2, <1>1
  <2>3. CASE Size(fragments) # count
    <3> DEFINE grown == [entry EXCEPT !.fragments = fragments]
    <3>1. added = [splits |-> Put(splits, id, grown), whole |-> <<>>]
      BY <2>3 DEF AddFragment
    <3>2. IsEntry(grown, V)
      <4> HIDE DEF fragments, entry
      <4> QED
        BY <1>2, <1>4, <2>1 DEF IsEntry
    <3>3. IsSplits(Put(splits, id, grown), V)
      <4> HIDE DEF grown
      <4> QED
        BY <3>2 DEF IsSplits, Put
    <3> QED
      BY <3>1, <3>3
  <2> QED
    BY <2>2, <2>3
<1> HIDE DEF result, added
<1>5. CASE result = [splits |-> splits, whole |-> <<>>]
  BY <1>5 DEF result
<1>6. CASE result = [splits |-> Without(splits, {id}), whole |-> <<>>]
  BY <1>6, <1>1 DEF result
<1>7. CASE result = added /\ entry.total_count = count /\ index < count
  BY <1>7, <1>4 DEF result
<1> QED
  BY <1>3, <1>5, <1>6, <1>7
\* What insert returns for a packet that is complete.
Only(packet) == <<packet>>

\* Fragment i of the split packet id waits in the queue.
ArrivedBefore(splits, id, i) == id \in DOMAIN splits /\ i \in DOMAIN splits[id].fragments

\* The fragments that wait under the id, if any, are those of the packet.
FragmentsOf(splits, id, packet) ==
    id \in DOMAIN splits =>
        /\ splits[id].total_count = Len(packet)
        /\ \A i \in DOMAIN splits[id].fragments : splits[id].fragments[i] = packet[i + 1]

\* The contract of FragmentQueue::insert.  If the fragments waiting under the
\* id are those of a packet, and so is the one inserted, then they still are,
\* no other entry changes, and what is returned, if anything, is the whole
\* packet, every fragment of which had arrived.
LEMMA FragmentsFollowPacket ==
    ASSUME NEW V, NEW splits, IsSplits(splits, V), NEW id \in Nat,
           NEW packet \in Seq(V), NEW index \in 0 .. Len(packet) - 1,
           FragmentsOf(splits, id, packet),
           NEW result,
           result = FragmentInsert(splits, id, index, Len(packet), packet[index + 1])
    PROVE  /\ \A j \in DOMAIN result.splits :
                  j # id => j \in DOMAIN splits /\ result.splits[j] = splits[j]
           /\ FragmentsOf(result.splits, id, packet)
           /\ \A i : ArrivedBefore(result.splits, id, i) =>
                  i = index \/ ArrivedBefore(splits, id, i)
           /\ \/ result.whole = <<>>
              \/ /\ result.whole = Only(packet)
                 /\ \A i \in 0 .. Len(packet) - 1 : i = index \/ ArrivedBefore(splits, id, i)
<1> DEFINE count == Len(packet)
<1>0. /\ count \in Nat \ {0} /\ index \in Nat /\ index \in 0 .. count - 1
      /\ packet = [i \in 1 .. count |-> packet[i]]
      /\ result = FragmentInsert(splits, id, index, count, packet[index + 1])
      /\ id \in DOMAIN splits =>
            /\ splits[id].total_count = count
            /\ \A i \in DOMAIN splits[id].fragments : splits[id].fragments[i] = packet[i + 1]
  BY DEF FragmentsOf
<1> HIDE DEF count
<1> SUFFICES /\ \A j \in DOMAIN result.splits :
                    j # id => j \in DOMAIN splits /\ result.splits[j] = splits[j]
             /\ id \in DOMAIN result.splits =>
                    /\ result.splits[id].total_count = count
                    /\ \A i \in DOMAIN result.splits[id].fragments :
                           /\ result.splits[id].fragments[i] = packet[i + 1]
                           /\ i = index \/ ArrivedBefore(splits, id, i)
             /\ \/ result.whole = <<>>
                \/ /\ result.whole = <<packet>>
                   /\ \A i \in 0 .. count - 1 : i = index \/ ArrivedBefore(splits, id, i)
  BY DEF FragmentsOf, ArrivedBefore, count, Only
<1> DEFINE Arrived(i) == i = index \/ ArrivedBefore(splits, id, i)
           entry == EntryFor(splits, id, count)
           added == AddFragment(splits, id, index, count, packet[index + 1])
           fragments == Put(entry.fragments, index, packet[index + 1])
<1>1. /\ entry = [total_count |-> entry.total_count, fragments |-> entry.fragments]
      /\ entry.total_count = count
      /\ DOMAIN entry.fragments \subseteq 0 .. count - 1
      /\ \A i \in DOMAIN entry.fragments : entry.fragments[i] = packet[i + 1] /\ Arrived(i)
  <2>1. CASE id \in DOMAIN splits
    <3>1. entry = splits[id] /\ IsEntry(splits[id], V)
      BY <2>1 DEF EntryFor, IsSplits
    <3> QED
      BY <1>0, <2>1, <3>1 DEF IsEntry, IsMap, ArrivedBefore
  <2>2. CASE id \notin DOMAIN splits
    BY <1>0, <2>2 DEF EntryFor, NewEntry, EmptyMap
  <2> QED
    BY <2>1, <2>2
<1>2. /\ DOMAIN fragments = DOMAIN entry.fragments \cup {index}
      /\ \A i \in DOMAIN fragments : fragments[i] = packet[i + 1] /\ Arrived(i)
  BY <1>1 DEF Put
<1>3. \/ result = [splits |-> splits, whole |-> <<>>]
      \/ result = added /\ index < count
  BY <1>0, <1>1 DEF FragmentInsert
<1>4. CASE result = [splits |-> splits, whole |-> <<>>]
  <2>1. result.splits = splits /\ result.whole = <<>>
    BY <1>4
  <2>2. id \in DOMAIN splits =>
            /\ splits[id].total_count = count
            /\ \A i \in DOMAIN splits[id].fragments :
                   splits[id].fragments[i] = packet[i + 1] /\ ArrivedBefore(splits, id, i)
    BY <1>0 DEF ArrivedBefore
  <2> QED
    BY <2>1, <2>2
<1>5. CASE result = added /\ index < count
  <2>1. CASE Size(fragments) = count
    <3>1. result = [splits |-> Without(splits, {id}),
                    whole |-> <<reassemble(fragments, count)>>]
      BY <1>5, <2>1 DEF AddFragment
    <3>2. DOMAIN fragments = 0 .. count - 1
      <4>1. IsFiniteSet(0 .. count - 1) /\ Cardinality(0 .. count - 1) = count
        BY <1>0, CountInterval
      <4>2. DOMAIN fragments \subseteq 0 .. count - 1
        BY <1>0, <1>1, <1>2, <1>5
      <4> QED
        BY <2>1, <4>1, <4>2, FS_Subset DEF Size
    <3>3. \A i \in 1 .. count : fragments[i - 1] = packet[i]
      <4> HIDE DEF fragments, entry, Arrived
      <4> TAKE i \in 1 .. count
      <4>1. count \in Nat /\ i \in Nat
        BY <1>0
      <4>2. i - 1 \in 0 .. count - 1 /\ (i - 1) + 1 = i
        BY <4>1
      <4>3. i - 1 \in DOMAIN fragments
        BY <3>2, <4>2
      <4>4. fragments[i - 1] = packet[(i - 1) + 1]
        BY <1>2, <4>3
      <4> QED
        BY <4>2, <4>4
    <3>4. reassemble(fragments, count) = packet
      BY <1>0, <3>3 DEF reassemble
    <3>5. \A i \in 0 .. count - 1 : Arrived(i)
      BY <1>2, <3>2
    <3> HIDE DEF fragments, Arrived
    <3>6. result.whole = <<packet>>
      BY <3>1, <3>4
    <3>7. /\ id \notin DOMAIN result.splits
          /\ \A j \in DOMAIN result.splits :
                 j \in DOMAIN splits /\ result.splits[j] = splits[j]
      BY <3>1 DEF Without
    <3> QED
      BY <3>5, <3>6, <3>7 DEF Arrived
  <2>2. CASE Size(fragments) # count
    <3> DEFINE grown == [entry EXCEPT !.fragments = fragments]
    <3>1. result = [splits |-> Put(splits, id, grown), whole |-> <<>>]
      BY <1>5, <2>2 DEF AddFragment
    <3>2. grown.total_count = count /\ grown.fragments = fragments
      <4> HIDE DEF fragments, entry
      <4> QED
        BY <1>1
    <3> HIDE DEF grown, fragments, Arrived
    <3>3. /\ result.splits[id] = grown
          /\ \A j \in DOMAIN result.splits :
                 j # id => j \in DOMAIN splits /\ result.splits[j] = splits[j]
      BY <3>1 DEF Put
    <3> QED
      BY <1>2, <3>1, <3>2, <3>3 DEF Arrived
  <2> QED
    BY <2>1, <2>2
<1> QED
  BY <1>3, <1>4, <1>5
=============================================================================
