---------------------------- MODULE PacketProofs ----------------------------
(***************************************************************************)
(* The list of acknowledged numbers and the codec, for every list, every   *)
(* size of the circle and every packet.                                    *)
(***************************************************************************)
EXTENDS PacketModel, FiniteSetTheorems, SequenceTheorems, NaturalsInduction,
        WellFoundedInduction, TLAPS

(***************************************************************************)
(* Sequences.                                                              *)
(***************************************************************************)

\* Induction up to n, with the predicate as a set of numbers.
LEMMA UpTo ==
    ASSUME NEW n \in Nat, NEW E, 0 \in E,
           \A k \in 0 .. n - 1 : k \in E => k + 1 \in E
    PROVE  \A k \in 0 .. n : k \in E
<1> DEFINE T == {k \in 0 .. n : k \notin E}
<1> SUFFICES ASSUME T # {} PROVE FALSE
  OBVIOUS
<1>1. T \subseteq Nat
  OBVIOUS
<1>2. PICK k \in T : \A h \in T : ~ (<<h, k>> \in OpToRel(<, Nat))
  <2>1. IsWellFoundedOn(OpToRel(<, Nat), Nat)
    BY NatLessThanWellFounded
  <2> HIDE DEF T
  <2> QED
    BY <1>1, <2>1, WFMin, Zenon
<1>3. \A h \in T : ~ (h < k)
  BY <1>1, <1>2 DEF OpToRel
<1>4. k - 1 \in 0 .. n - 1 /\ k - 1 \in E
  BY <1>3
<1>5. (k - 1) + 1 \in E
  BY <1>4
<1> QED
  BY <1>5

\* new is s with e in place i.
Replaced(new, s, i, e) ==
    /\ Len(new) = Len(s)
    /\ \A j \in 1 .. Len(s) : new[j] = IF j = i THEN e ELSE s[j]

\* ReplaceAt changes one element.
LEMMA ReplaceAtProperty ==
    ASSUME NEW S, NEW s \in Seq(S), NEW i \in 1 .. Len(s), NEW e \in S
    PROVE  ReplaceAt(s, i, e) \in Seq(S) /\ Replaced(ReplaceAt(s, i, e), s, i, e)
BY ExceptSeq DEF ReplaceAt, Replaced

\* RemoveAt closes the gap.
LEMMA RemoveAtProperty ==
    ASSUME NEW S, NEW s \in Seq(S), NEW i \in 1 .. Len(s)
    PROVE  /\ RemoveAt(s, i) \in Seq(S)
           /\ Len(RemoveAt(s, i)) = Len(s) - 1
           /\ \A j \in 1 .. Len(s) - 1 :
                 RemoveAt(s, i)[j] = IF j < i THEN s[j] ELSE s[j + 1]
<1>1. /\ SubSeq(s, 1, i - 1) \in Seq(S) /\ Len(SubSeq(s, 1, i - 1)) = i - 1
      /\ \A j \in 1 .. i - 1 : SubSeq(s, 1, i - 1)[j] = s[j]
  BY SubSeqProperties
<1>2. /\ SubSeq(s, i + 1, Len(s)) \in Seq(S)
      /\ Len(SubSeq(s, i + 1, Len(s))) = Len(s) - i
      /\ \A j \in 1 .. Len(s) - i : SubSeq(s, i + 1, Len(s))[j] = s[i + j]
  BY SubSeqProperties
<1> QED
  <2> DEFINE a == SubSeq(s, 1, i - 1)
             b == SubSeq(s, i + 1, Len(s))
  <2>1. /\ a \o b \in Seq(S) /\ Len(a \o b) = Len(a) + Len(b)
        /\ \A j \in 1 .. Len(a) + Len(b) :
              (a \o b)[j] = IF j <= Len(a) THEN a[j] ELSE b[j - Len(a)]
    BY <1>1, <1>2, ConcatProperties
  <2>2. RemoveAt(s, i) = a \o b
    BY DEF RemoveAt
  <2> HIDE DEF a, b
  <2>3. /\ Len(a) = i - 1 /\ Len(b) = Len(s) - i /\ Len(s) \in Nat
        /\ \A j \in 1 .. i - 1 : a[j] = s[j]
        /\ \A j \in 1 .. Len(s) - i : b[j] = s[i + j]
    BY <1>1, <1>2 DEF a, b
  <2>4. ASSUME NEW j \in 1 .. Len(s) - 1
        PROVE  (a \o b)[j] = IF j < i THEN s[j] ELSE s[j + 1]
    <3>1. CASE j < i
      BY <2>1, <2>3, <3>1
    <3>2. CASE ~ (j < i)
      <4>1. j - (i - 1) \in 1 .. Len(s) - i /\ i + (j - (i - 1)) = j + 1
        BY <2>3, <3>2
      <4>2. (a \o b)[j] = b[j - (i - 1)]
        BY <2>1, <2>3, <3>2
      <4> QED
        BY <2>3, <3>2, <4>1, <4>2
    <3> QED
      BY <3>1, <3>2
  <2> QED
    BY <2>1, <2>2, <2>3, <2>4

\* InsertAt makes room for one element.
LEMMA InsertAtProperty ==
    ASSUME NEW S, NEW s \in Seq(S), NEW i \in 1 .. Len(s) + 1, NEW e \in S
    PROVE  /\ InsertAt(s, i, e) \in Seq(S)
           /\ Len(InsertAt(s, i, e)) = Len(s) + 1
           /\ \A j \in 1 .. Len(s) + 1 :
                 InsertAt(s, i, e)[j] = IF j < i THEN s[j] ELSE IF j = i THEN e ELSE s[j - 1]
<1>1. /\ SubSeq(s, 1, i - 1) \in Seq(S) /\ Len(SubSeq(s, 1, i - 1)) = i - 1
      /\ \A j \in 1 .. i - 1 : SubSeq(s, 1, i - 1)[j] = s[j]
  BY SubSeqProperties
<1>2. /\ SubSeq(s, i, Len(s)) \in Seq(S)
      /\ Len(SubSeq(s, i, Len(s))) = Len(s) - i + 1
      /\ \A j \in 1 .. Len(s) - i + 1 : SubSeq(s, i, Len(s))[j] = s[i + j - 1]
  BY SubSeqProperties
<1>3. /\ SubSeq(s, 1, i - 1) \o <<e>> \in Seq(S)
      /\ Len(SubSeq(s, 1, i - 1) \o <<e>>) = i
      /\ \A j \in 1 .. i : (SubSeq(s, 1, i - 1) \o <<e>>)[j] = IF j < i THEN s[j] ELSE e
  BY <1>1
<1> QED
  <2> DEFINE a == SubSeq(s, 1, i - 1) \o <<e>>
             b == SubSeq(s, i, Len(s))
  <2>1. /\ a \o b \in Seq(S) /\ Len(a \o b) = Len(a) + Len(b)
        /\ \A j \in 1 .. Len(a) + Len(b) :
              (a \o b)[j] = IF j <= Len(a) THEN a[j] ELSE b[j - Len(a)]
    BY <1>2, <1>3, ConcatProperties
  <2>2. InsertAt(s, i, e) = a \o b
    BY DEF InsertAt
  <2> HIDE DEF a, b
  <2>3. /\ Len(a) = i /\ Len(b) = Len(s) - i + 1 /\ Len(s) \in Nat
        /\ \A j \in 1 .. i : a[j] = IF j < i THEN s[j] ELSE e
        /\ \A j \in 1 .. Len(s) - i + 1 : b[j] = s[i + j - 1]
    BY <1>2, <1>3 DEF a, b
  <2>4. ASSUME NEW j \in 1 .. Len(s) + 1
        PROVE  (a \o b)[j] = IF j < i THEN s[j] ELSE IF j = i THEN e ELSE s[j - 1]
    <3>1. CASE j =< i
      BY <2>1, <2>3, <3>1
    <3>2. CASE ~ (j =< i)
      <4>1. j - i \in 1 .. Len(s) - i + 1 /\ i + (j - i) - 1 = j - 1
        BY <2>3, <3>2
      <4>2. (a \o b)[j] = b[j - i]
        BY <2>1, <2>3, <3>2
      <4> QED
        BY <2>3, <3>2, <4>1, <4>2
    <3> QED
      BY <3>1, <3>2
  <2> QED
    BY <2>1, <2>2, <2>3, <2>4

\* f is the loop of FlattenSeq, up to element n.
FlattenLoop(f, seqs, n) ==
    f = [i \in 1 .. n |-> IF i = 1 THEN seqs[i] ELSE f[i - 1] \o seqs[i]]

\* There is such a function.
LEMMA FlattenLoopExists ==
    ASSUME NEW seqs, NEW n \in Nat
    PROVE  \E f : FlattenLoop(f, seqs, n)
<1> DEFINE E == {m \in 0 .. n : \E f : FlattenLoop(f, seqs, m)}
<1>1. 0 \in E
  <2>1. FlattenLoop([i \in 1 .. 0 |-> 0], seqs, 0)
    BY DEF FlattenLoop
  <2> QED
    BY <2>1
<1>2. ASSUME NEW m \in 0 .. n - 1, m \in E PROVE m + 1 \in E
  <2>1. PICK f : FlattenLoop(f, seqs, m)
    BY <1>2
  <2> DEFINE g == [i \in 1 .. m + 1 |-> IF i = m + 1
                                        THEN IF i = 1 THEN seqs[1] ELSE f[m] \o seqs[m + 1]
                                        ELSE f[i]]
  <2>2. \A i \in 2 .. m + 1 : g[i - 1] = f[i - 1]
    OBVIOUS
  <2>3. \A i \in 1 .. m + 1 : g[i] = IF i = 1 THEN seqs[i] ELSE g[i - 1] \o seqs[i]
    <3>1. ASSUME NEW i \in 1 .. m + 1
          PROVE  g[i] = IF i = 1 THEN seqs[i] ELSE g[i - 1] \o seqs[i]
      <4>1. CASE i = m + 1
        BY <2>2, <4>1
      <4>2. CASE i # m + 1
        <5>1. i \in 1 .. m /\ g[i] = f[i]
          BY <4>2
        <5>2. f[i] = IF i = 1 THEN seqs[i] ELSE f[i - 1] \o seqs[i]
          BY <2>1, <5>1 DEF FlattenLoop
        <5>3. i # 1 => g[i - 1] = f[i - 1]
          BY <2>2, <5>1
        <5> HIDE DEF g
        <5> QED
          BY <5>1, <5>2, <5>3
      <4> QED
        BY <4>1, <4>2
    <3> HIDE DEF g
    <3> QED
      BY <3>1
  <2>4. FlattenLoop(g, seqs, m + 1)
    BY <2>3 DEF FlattenLoop
  <2> QED
    BY <2>4
<1> HIDE DEF E
<1>3. \A m \in 0 .. n : m \in E
  BY <1>1, <1>2, UpTo
<1> QED
  BY <1>3 DEF E

\* The elements of a concatenation.
LEMMA Concatenation ==
    ASSUME NEW S, NEW a \in Seq(S), NEW b \in Seq(S)
    PROVE  /\ a \o b \in Seq(S) /\ Len(a \o b) = Len(a) + Len(b)
           /\ Len(a) \in Nat /\ Len(b) \in Nat
           /\ \A j \in 1 .. Len(a) : (a \o b)[j] = a[j]
           /\ \A j \in 1 .. Len(b) : (a \o b)[Len(a) + j] = b[j]
<1>1. /\ a \o b \in Seq(S) /\ Len(a \o b) = Len(a) + Len(b)
      /\ \A i \in 1 .. Len(a) + Len(b) :
            (a \o b)[i] = IF i <= Len(a) THEN a[i] ELSE b[i - Len(a)]
  BY ConcatProperties
<1>2. Len(a) \in Nat /\ Len(b) \in Nat
  OBVIOUS
<1>3. ASSUME NEW j \in 1 .. Len(b) PROVE (a \o b)[Len(a) + j] = b[j]
  <2>1. /\ Len(a) + j \in 1 .. Len(a) + Len(b) /\ ~ (Len(a) + j <= Len(a))
        /\ (Len(a) + j) - Len(a) = j
    BY <1>2
  <2> QED
    BY <1>1, <2>1
<1>4. ASSUME NEW j \in 1 .. Len(a) PROVE (a \o b)[j] = a[j]
  BY <1>1, <1>2
<1> QED
  BY <1>1, <1>2, <1>3, <1>4

\* FlattenSeq adds one sequence after the other to the empty one.
LEMMA FlattenSeqLoop ==
    ASSUME NEW S, NEW seqs \in Seq(Seq(S))
    PROVE  \E h : /\ h[0] = << >>
                  /\ \A i \in 1 .. Len(seqs) : h[i] = h[i - 1] \o seqs[i]
                  /\ FlattenSeq(seqs) = h[Len(seqs)]
<1>0. PICK n : n = Len(seqs)
  OBVIOUS
<1>1. n \in Nat /\ \A i \in 1 .. n : seqs[i] \in Seq(S)
  BY <1>0, ElementOfSeq
<1> DEFINE f == CHOOSE g : FlattenLoop(g, seqs, n)
           h == [i \in 0 .. n |-> IF i = 0 THEN << >> ELSE f[i]]
<1>2. FlattenLoop(f, seqs, n)
  BY <1>1, FlattenLoopExists
<1>3. FlattenSeq(seqs) = IF n = 0 THEN seqs ELSE f[n]
  BY <1>0 DEF FlattenSeq, FlattenLoop
<1> HIDE DEF f
<1>4. n = 0 => seqs = << >>
  BY <1>0, EmptySeq
<1>5. h[0] = << >> /\ \A i \in 1 .. n : h[i] = f[i]
  BY <1>1
<1>6. FlattenSeq(seqs) = h[n]
  BY <1>1, <1>3, <1>4, <1>5
<1>7. ASSUME NEW i \in 1 .. n PROVE h[i] = h[i - 1] \o seqs[i]
  <2>1. f[i] = IF i = 1 THEN seqs[i] ELSE f[i - 1] \o seqs[i]
    BY <1>2 DEF FlattenLoop
  <2>2. CASE i = 1
    <3>1. << >> \o seqs[i] = seqs[i]
      BY <1>1, ConcatEmptySeq
    <3>2. h[i - 1] = << >>
      BY <1>5, <2>2
    <3> HIDE DEF h
    <3> QED
      BY <1>5, <2>1, <2>2, <3>1, <3>2
  <2>3. CASE i # 1
    <3>1. i - 1 \in 1 .. n
      BY <1>1, <2>3
    <3> HIDE DEF h
    <3> QED
      BY <1>5, <2>1, <2>3, <3>1
  <2> QED
    BY <2>2, <2>3
<1> HIDE DEF h
<1> QED
  BY <1>0, <1>5, <1>6, <1>7

\* FlattenSeq lays the sequences end to end: ends[i] is where the i-th ends.
LEMMA FlattenSeqProperty ==
    ASSUME NEW S, NEW seqs \in Seq(Seq(S))
    PROVE  /\ FlattenSeq(seqs) \in Seq(S)
           /\ \E ends \in [0 .. Len(seqs) -> Nat] :
                 /\ ends[0] = 0
                 /\ \A i \in 1 .. Len(seqs) : ends[i] = ends[i - 1] + Len(seqs[i])
                 /\ Len(FlattenSeq(seqs)) = ends[Len(seqs)]
                 /\ \A i \in 1 .. Len(seqs) : \A j \in 1 .. Len(seqs[i]) :
                       FlattenSeq(seqs)[ends[i - 1] + j] = seqs[i][j]
<1>0. PICK n : n = Len(seqs)
  OBVIOUS
<1>1. n \in Nat /\ \A i \in 1 .. n : seqs[i] \in Seq(S) /\ Len(seqs[i]) \in Nat
  BY <1>0, ElementOfSeq
<1>2. PICK h : /\ h[0] = << >>
               /\ \A i \in 1 .. n : h[i] = h[i - 1] \o seqs[i]
               /\ FlattenSeq(seqs) = h[n]
  BY <1>0, FlattenSeqLoop
<1>3. \A k \in 0 .. n : h[k] \in Seq(S)
  <2> DEFINE E == {k \in 0 .. n : h[k] \in Seq(S)}
  <2>1. 0 \in E
    <3>1. h[0] \in Seq(S)
      BY <1>2, EmptySeq
    <3> QED
      BY <1>1, <3>1
  <2>2. ASSUME NEW k \in 0 .. n - 1, k \in E PROVE k + 1 \in E
    <3>1. k + 1 \in 1 .. n /\ (k + 1) - 1 = k
      BY <1>1
    <3>2. h[k + 1] = h[k] \o seqs[k + 1] /\ h[k] \in Seq(S) /\ seqs[k + 1] \in Seq(S)
      BY <1>1, <1>2, <2>2, <3>1
    <3>3. h[k + 1] \in Seq(S)
      BY <3>2, Concatenation
    <3> QED
      BY <3>1, <3>3
  <2> HIDE DEF E
  <2>3. \A k \in 0 .. n : k \in E
    BY <1>1, <2>1, <2>2, UpTo
  <2> QED
    BY <2>3 DEF E
<1> DEFINE ends == [i \in 0 .. n |-> Len(h[i])]
<1>4. /\ ends \in [0 .. n -> Nat] /\ ends[0] = 0 /\ ends[n] = Len(FlattenSeq(seqs))
      /\ \A i \in 0 .. n : ends[i] = Len(h[i]) /\ ends[i] \in Nat
  BY <1>1, <1>2, <1>3
<1> HIDE DEF ends
<1>5. ASSUME NEW i \in 1 .. n
      PROVE  /\ ends[i] = ends[i - 1] + Len(seqs[i])
             /\ \A j \in 1 .. ends[i - 1] : h[i][j] = h[i - 1][j]
             /\ \A j \in 1 .. Len(seqs[i]) : h[i][ends[i - 1] + j] = seqs[i][j]
  <2>1. PICK a, b : a = h[i - 1] /\ b = seqs[i]
    OBVIOUS
  <2>2. i - 1 \in 0 .. n /\ i \in 0 .. n
    BY <1>1
  <2>3. a \in Seq(S) /\ b \in Seq(S) /\ h[i] = a \o b
    BY <1>1, <1>2, <1>3, <2>1, <2>2
  <2>4. ends[i - 1] = Len(a) /\ ends[i] = Len(a \o b)
    BY <1>4, <2>1, <2>2, <2>3
  <2>5. /\ Len(a \o b) = Len(a) + Len(b)
        /\ \A j \in 1 .. Len(a) : (a \o b)[j] = a[j]
        /\ \A j \in 1 .. Len(b) : (a \o b)[Len(a) + j] = b[j]
    BY <2>3, Concatenation
  <2> QED
    BY <2>1, <2>3, <2>4, <2>5
<1>6. ASSUME NEW i \in 1 .. n, NEW j \in 1 .. Len(seqs[i])
      PROVE  h[n][ends[i - 1] + j] = seqs[i][j]
  <2> DEFINE E == {k \in 0 .. n : k >= i => /\ ends[i - 1] + j =< ends[k]
                                            /\ h[k][ends[i - 1] + j] = seqs[i][j]}
  <2>0. i - 1 \in 0 .. n /\ ends[i - 1] \in Nat /\ Len(seqs[i]) \in Nat /\ j \in Nat /\ j >= 1
    BY <1>1, <1>4
  <2>1. 0 \in E
    BY <1>1
  <2>2. ASSUME NEW k \in 0 .. n - 1, k \in E PROVE k + 1 \in E
    <3>1. k + 1 \in 1 .. n /\ k + 1 \in 0 .. n /\ (k + 1) - 1 = k
      BY <1>1
    <3>2. ends[k] \in Nat /\ ends[k + 1] \in Nat /\ Len(seqs[k + 1]) \in Nat
      BY <1>1, <1>4, <3>1
    <3>3. /\ ends[k + 1] = ends[k] + Len(seqs[k + 1])
          /\ \A m \in 1 .. ends[k] : h[k + 1][m] = h[k][m]
          /\ \A m \in 1 .. Len(seqs[k + 1]) : h[k + 1][ends[k] + m] = seqs[k + 1][m]
      BY <1>5, <3>1
    <3>4. CASE k + 1 < i
      BY <3>1, <3>4
    <3>5. CASE k + 1 = i
      <4>1. k = i - 1
        BY <3>5
      <4>2. ends[i - 1] + j =< ends[k + 1]
        BY <2>0, <3>2, <3>3, <3>5, <4>1
      <4>3. h[k + 1][ends[i - 1] + j] = seqs[i][j]
        BY <3>3, <3>5, <4>1
      <4> QED
        BY <3>1, <4>2, <4>3
    <3>6. CASE k + 1 > i
      <4>1. ends[i - 1] + j =< ends[k] /\ h[k][ends[i - 1] + j] = seqs[i][j]
        BY <2>2, <3>6
      <4>2. ends[i - 1] + j \in 1 .. ends[k]
        BY <2>0, <3>2, <4>1
      <4>3. h[k + 1][ends[i - 1] + j] = seqs[i][j]
        BY <3>3, <4>1, <4>2
      <4>4. ends[i - 1] + j =< ends[k + 1]
        BY <2>0, <3>2, <3>3, <4>1
      <4> QED
        BY <3>1, <4>3, <4>4
    <3> QED
      BY <3>4, <3>5, <3>6
  <2> HIDE DEF E
  <2>3. \A k \in 0 .. n : k \in E
    BY <1>1, <2>1, <2>2, UpTo
  <2> QED
    BY <1>1, <2>3 DEF E
<1>7. FlattenSeq(seqs) \in Seq(S)
  BY <1>1, <1>2, <1>3
<1> QED
  BY <1>0, <1>2, <1>4, <1>5, <1>6, <1>7

(***************************************************************************)
(* The list of acknowledged numbers.                                       *)
(***************************************************************************)

\* A number is in one of the ranges of a compressed list.
Holds(l, x) == \E i \in 1 .. Len(l) : l[i].start =< x /\ x =< l[i].end

\* The numbers a compressed list stands for.
Covered(l) == {x \in u24 : Holds(l, x)}

\* The lists that insertions build.
AckList == {l \in Seq(AckRange) : IsCompressed(l)}

\* What a list's elements are, without the set.
LEMMA AckListElements ==
    ASSUME NEW l \in AckList
    PROVE  /\ l \in Seq(AckRange) /\ Len(l) \in Nat
           /\ \A i \in 1 .. Len(l) :
                 /\ l[i].start \in u24 /\ l[i].end \in u24
                 /\ l[i].start \in Int /\ l[i].end \in Int
                 /\ l[i].start =< l[i].end
                 /\ l[i] = [start |-> l[i].start, end |-> l[i].end]
           /\ \A i \in 1 .. Len(l) - 1 : l[i].end + 1 < l[i + 1].start
<1>1. l \in Seq(AckRange) /\ IsCompressed(l) /\ Len(l) \in Nat /\ DOMAIN l = 1 .. Len(l)
  BY DEF AckList
<1>2. ASSUME NEW i \in 1 .. Len(l) PROVE l[i] \in AckRange
  BY <1>1, ElementOfSeq
<1>3. u24 \subseteq Int
  BY HalfSpaceAssumption DEF u24, SeqSpace
<1> QED
  BY <1>1, <1>2, <1>3 DEF AckRange, IsCompressed

\* And the converse.
LEMMA IsAckList ==
    ASSUME NEW l \in Seq(AckRange),
           \A i \in 1 .. Len(l) : l[i].start =< l[i].end,
           \A i \in 1 .. Len(l) - 1 : l[i].end + 1 < l[i + 1].start
    PROVE  l \in AckList
BY DEF AckList, IsCompressed

\* insert finds the first range that is not wholly below the number.
LEMMA InsertPositionProperty ==
    ASSUME NEW l \in AckList, NEW seq \in u24, NEW pos, pos = InsertPosition(l, seq)
    PROVE  /\ pos \in 0 .. Len(l)
           /\ \A i \in 1 .. (IF pos = 0 THEN Len(l) ELSE pos - 1) : l[i].end < seq
           /\ pos # 0 => seq =< l[pos].end
           /\ pos # 0 => (InRange(l[pos], seq) <=> l[pos].start =< seq)
<1> DEFINE I == {i \in 1 .. Len(l) : InRange(l[i], seq) \/ l[i].start > seq}
<1>1. pos = IF I # {} THEN Min(I) ELSE 0
  BY DEF InsertPosition, SelectInSeq
<1>2. seq \in Int
  BY HalfSpaceAssumption DEF u24, SeqSpace
<1>3. \A i \in 1 .. Len(l) : /\ InRange(l[i], seq) <=> l[i].start =< seq /\ seq =< l[i].end
                             /\ i \in I <=> ~ (l[i].end < seq)
  <2> SUFFICES ASSUME NEW i \in 1 .. Len(l)
               PROVE  /\ InRange(l[i], seq) <=> l[i].start =< seq /\ seq =< l[i].end
                      /\ i \in I <=> ~ (l[i].end < seq)
    BY Zenon
  <2>1. l[i].start \in Int /\ l[i].end \in Int /\ l[i].start =< l[i].end
    BY AckListElements
  <2>2. InRange(l[i], seq) <=> l[i].start =< seq /\ seq =< l[i].end
    BY <2>1 DEF InRange, seq_in_range
  <2>3. InRange(l[i], seq) \/ l[i].start > seq <=> ~ (l[i].end < seq)
    BY <1>2, <2>1, <2>2
  <2> QED
    BY <2>2, <2>3
<1>4. CASE I = {}
  BY <1>1, <1>3, <1>4, AckListElements
<1>5. CASE I # {}
  <2>1. I \subseteq Nat /\ I \subseteq 1 .. Len(l)
    BY AckListElements
  <2>2. PICK k \in I : \A h \in I : ~ (<<h, k>> \in OpToRel(<, Nat))
    <3>1. IsWellFoundedOn(OpToRel(<, Nat), Nat)
      BY NatLessThanWellFounded
    <3> HIDE DEF I
    <3> QED
      BY <1>5, <2>1, <3>1, WFMin, Zenon
  <2>3. \A h \in I : k =< h
    <3> HIDE DEF I
    <3>1. \A h \in I : ~ (h < k)
      BY <2>1, <2>2 DEF OpToRel
    <3> QED
      BY <2>1, <3>1
  <2>4. pos \in I /\ \A h \in I : pos =< h
    <3> HIDE DEF I
    <3> QED
      BY <1>1, <1>5, <2>3 DEF Min
  <2>5. pos \in 1 .. Len(l) /\ \A i \in 1 .. pos - 1 : i \notin I /\ i \in 1 .. Len(l)
    BY <2>1, <2>4, AckListElements
  <2>6. ~ (l[pos].end < seq)
    BY <1>3, <2>4, <2>5
  <2>7. l[pos].start \in Int /\ l[pos].end \in Int /\ pos \in Nat /\ pos # 0
    <3>1. Len(l) \in Nat /\ \A i \in 1 .. Len(l) : l[i].start \in Int /\ l[i].end \in Int
      BY AckListElements
    <3> QED
      BY <2>5, <3>1
  <2>8. \A i \in 1 .. pos - 1 : l[i].end < seq
    BY <1>3, <2>5
  <2>9. InRange(l[pos], seq) <=> l[pos].start =< seq
    BY <1>2, <1>3, <2>5, <2>6, <2>7
  <2> QED
    BY <1>2, <2>5, <2>6, <2>7, <2>8, <2>9, AckListElements
<1> QED
  BY <1>4, <1>5

\* merge_at on a range that the number touches: the range grows by the number,
\* and if it then meets its successor the two become one.
LEMMA MergeAtProperty ==
    ASSUME NEW l \in AckList, NEW seq \in u24, NEW i \in 1 .. Len(l),
           \/ l[i].end + 1 = seq
           \/ seq + 1 = l[i].start,
           i > 1 => l[i - 1].end + 1 < seq,
           i < Len(l) => seq < l[i + 1].start
    PROVE  /\ MergeAt(l, i, seq) \in AckList
           /\ \A x \in u24 : Holds(MergeAt(l, i, seq), x) <=> Holds(l, x) \/ x = seq
<1> DEFINE grown == Extend(l[i], seq)
           merged == MergeAt(l, i, seq)
<1>1. /\ l \in Seq(AckRange) /\ Len(l) \in Nat /\ seq \in Int /\ u24 \subseteq Int
      /\ \A j \in 1 .. Len(l) :
            /\ l[j].start \in Int /\ l[j].end \in Int /\ l[j].start =< l[j].end
      /\ \A j \in 1 .. Len(l) - 1 : l[j].end + 1 < l[j + 1].start
  <2>1. u24 \subseteq Int
    BY HalfSpaceAssumption DEF u24, SeqSpace
  <2> QED
    BY <2>1, AckListElements
<1>2. /\ l[i].start \in u24 /\ l[i].end \in u24
      /\ l[i] = [start |-> l[i].start, end |-> l[i].end]
  BY AckListElements
<1>3. /\ grown \in AckRange /\ grown.start \in Int /\ grown.end \in Int
      /\ grown.start =< grown.end
      /\ \A x \in u24 : grown.start =< x /\ x =< grown.end
                        <=> (l[i].start =< x /\ x =< l[i].end) \/ x = seq
      /\ i > 1 => l[i - 1].end + 1 < grown.start
      /\ i < Len(l) => grown.end < l[i + 1].start
  <2>1. CASE l[i].end + 1 = seq
    <3>1. grown = [start |-> l[i].start, end |-> seq]
      BY <1>2, <2>1 DEF Extend, CanMergeWithNext
    <3>2. grown \in AckRange /\ grown.start = l[i].start /\ grown.end = seq
      BY <1>2, <3>1 DEF AckRange
    <3> HIDE DEF grown
    <3>3. i > 1 => l[i - 1].end + 1 < l[(i - 1) + 1].start
      BY <1>1
    <3> QED
      BY <1>1, <2>1, <3>2, <3>3
  <2>2. CASE seq + 1 = l[i].start /\ l[i].end + 1 # seq
    <3>1. grown = [start |-> seq, end |-> l[i].end]
      BY <1>2, <2>2 DEF Extend, CanMergeWithNext
    <3> QED
      BY <1>1, <1>2, <2>2, <3>1 DEF AckRange
  <2> QED
    BY <2>1, <2>2
<1> HIDE DEF grown
<1>4. CASE ~ (i < Len(l) /\ grown.end + 1 = l[i + 1].start)
  <2>1. merged = ReplaceAt(l, i, grown)
    BY <1>4 DEF MergeAt, CanMergeWithNext, grown
  <2> HIDE DEF merged
  <2>2. /\ merged \in Seq(AckRange) /\ Len(merged) = Len(l)
        /\ \A j \in 1 .. Len(l) : merged[j] = IF j = i THEN grown ELSE l[j]
    <3>1. l \in Seq(AckRange) /\ grown \in AckRange
      BY <1>1, <1>3
    <3>2. i \in 1 .. Len(l)
      OBVIOUS
    <3>3. ReplaceAt(l, i, grown) \in Seq(AckRange) /\ Replaced(ReplaceAt(l, i, grown), l, i, grown)
      BY <3>1, <3>2, ReplaceAtProperty
    <3> QED
      BY <2>1, <3>3, Zenon DEF Replaced
  <2>3. ASSUME NEW j \in 1 .. Len(merged) PROVE merged[j].start =< merged[j].end
    BY <1>1, <1>3, <2>2
  <2>4. ASSUME NEW j \in 1 .. Len(merged) - 1
        PROVE  merged[j].end + 1 < merged[j + 1].start
    <3>1. CASE j = i
      BY <1>1, <1>3, <1>4, <2>2, <3>1
    <3>2. CASE j + 1 = i
      <4>1. merged[j] = l[j] /\ merged[j + 1] = grown /\ j = i - 1 /\ i > 1
        BY <1>1, <2>2, <3>2
      <4> QED
        BY <1>3, <4>1
    <3>3. CASE j # i /\ j + 1 # i
      <4>1. merged[j] = l[j] /\ merged[j + 1] = l[j + 1] /\ j \in 1 .. Len(l) - 1
        BY <1>1, <2>2, <3>3
      <4> QED
        BY <1>1, <4>1
    <3> QED
      BY <3>1, <3>2, <3>3
  <2>5. ASSUME NEW x \in u24
        PROVE  Holds(merged, x) <=> Holds(l, x) \/ x = seq
    BY <1>1, <1>3, <2>2 DEF Holds
  <2> QED
    BY <2>2, <2>3, <2>4, <2>5, IsAckList DEF merged
<1>5. CASE i < Len(l) /\ grown.end + 1 = l[i + 1].start
  <2> DEFINE both == [grown EXCEPT !.end = l[i + 1].end]
             joined == ReplaceAt(l, i, both)
  <2>1. merged = RemoveAt(joined, i + 1)
    BY <1>5 DEF MergeAt, CanMergeWithNext, grown
  <2>2. i + 1 \in 1 .. Len(l) /\ l[i + 1].end \in u24
    <3>1. i + 1 \in 1 .. Len(l)
      BY <1>1, <1>5
    <3>2. \A j \in 1 .. Len(l) : l[j].end \in u24
      BY AckListElements
    <3> QED
      BY <3>1, <3>2
  <2>3. both \in AckRange /\ both.start = grown.start /\ both.end = l[i + 1].end
    BY <1>3, <2>2 DEF AckRange
  <2> HIDE DEF both
  <2>4. /\ joined \in Seq(AckRange) /\ Len(joined) = Len(l)
        /\ \A j \in 1 .. Len(l) : joined[j] = IF j = i THEN both ELSE l[j]
    <3>1. joined \in Seq(AckRange) /\ Replaced(joined, l, i, both)
      BY <1>1, <2>3, ReplaceAtProperty
    <3> HIDE DEF joined
    <3> QED
      BY <3>1, Zenon DEF Replaced
  <2> HIDE DEF joined
  <2>5. /\ merged \in Seq(AckRange) /\ Len(merged) = Len(l) - 1
        /\ \A j \in 1 .. Len(l) - 1 :
              merged[j] = IF j < i + 1 THEN joined[j] ELSE joined[j + 1]
    BY <2>1, <2>2, <2>4, RemoveAtProperty
  <2> HIDE DEF merged
  <2>6. \A j \in 1 .. Len(l) - 1 :
            merged[j] = IF j < i THEN l[j] ELSE IF j = i THEN both ELSE l[j + 1]
    BY <1>1, <1>5, <2>4, <2>5
  <2>7. ASSUME NEW j \in 1 .. Len(merged) PROVE merged[j].start =< merged[j].end
    <3>1. both.start =< both.end
      <4>1. l[i + 1].start =< l[i + 1].end /\ l[i + 1].start \in Int /\ l[i + 1].end \in Int
        BY <1>1, <2>2
      <4> QED
        BY <1>3, <1>5, <2>3, <4>1
    <3>2. merged[j] \in {both, l[j], l[j + 1]} /\ j \in 1 .. Len(l) /\ j + 1 \in 1 .. Len(l)
      BY <1>1, <2>5, <2>6
    <3> QED
      BY <1>1, <3>1, <3>2
  <2>8. ASSUME NEW j \in 1 .. Len(merged) - 1
        PROVE  merged[j].end + 1 < merged[j + 1].start
    <3>1. CASE j = i
      <4>1. merged[j] = both /\ merged[j + 1] = l[(i + 1) + 1] /\ i + 1 \in 1 .. Len(l) - 1
        <5>1. j + 1 \in 1 .. Len(l) - 1 /\ ~ (j + 1 < i) /\ j + 1 # i
          BY <1>1, <2>5, <3>1
        <5> QED
          BY <1>1, <2>5, <2>6, <3>1, <5>1
      <4> QED
        BY <1>1, <2>3, <4>1
    <3>2. CASE j + 1 = i
      <4>1. merged[j] = l[j] /\ merged[j + 1] = both
        BY <1>1, <2>5, <2>6, <3>2
      <4> QED
        BY <1>1, <1>3, <2>3, <3>2, <4>1
    <3>3. CASE j + 1 < i
      <4>1. merged[j] = l[j] /\ merged[j + 1] = l[j + 1]
        BY <1>1, <2>5, <2>6, <3>3
      <4> QED
        BY <1>1, <2>5, <4>1
    <3>4. CASE j > i
      <4>1. merged[j] = l[j + 1] /\ merged[j + 1] = l[(j + 1) + 1] /\ j + 1 \in 1 .. Len(l) - 1
        BY <1>1, <2>5, <2>6, <3>4
      <4> QED
        BY <1>1, <4>1
    <3> QED
      BY <2>5, <1>1, <3>1, <3>2, <3>3, <3>4
  <2>9. ASSUME NEW x \in u24
        PROVE  Holds(merged, x) <=> Holds(l, x) \/ x = seq
    <3>0. x \in Int /\ i \in 1 .. Len(merged) /\ merged[i] = both
      BY <1>1, <1>5, <2>5, <2>6
    <3>1. ASSUME Holds(merged, x) PROVE Holds(l, x) \/ x = seq
      <4>1. PICK j \in 1 .. Len(merged) : merged[j].start =< x /\ x =< merged[j].end
        BY <3>1 DEF Holds
      <4>2. CASE j < i
        BY <1>1, <2>5, <2>6, <4>1, <4>2 DEF Holds
      <4>3. CASE j > i
        <5>1. j + 1 \in 1 .. Len(l) /\ merged[j] = l[j + 1]
          BY <1>1, <2>5, <2>6, <4>3
        <5> QED
          BY <4>1, <5>1 DEF Holds
      <4>4. CASE j = i
        <5>1. grown.start =< x /\ x =< l[i + 1].end
          BY <2>3, <3>0, <4>1, <4>4
        <5>2. CASE x =< grown.end
          BY <1>3, <5>1, <5>2 DEF Holds
        <5>3. CASE ~ (x =< grown.end)
          <6>1. l[i + 1].start =< x
            BY <1>1, <1>3, <1>5, <2>2, <3>0, <5>3
          <6> QED
            BY <2>2, <5>1, <6>1 DEF Holds
        <5> QED
          BY <5>2, <5>3
      <4> QED
        BY <4>2, <4>3, <4>4
    <3>2. ASSUME Holds(l, x) PROVE Holds(merged, x)
      <4>1. PICK j \in 1 .. Len(l) : l[j].start =< x /\ x =< l[j].end
        BY <3>2 DEF Holds
      <4>2. CASE j < i
        <5>1. j \in 1 .. Len(merged) /\ merged[j] = l[j]
          BY <1>1, <1>5, <2>5, <2>6, <4>2
        <5> QED
          BY <4>1, <5>1 DEF Holds
      <4>3. CASE j > i + 1
        <5>1. j - 1 \in 1 .. Len(merged) /\ merged[j - 1] = l[j]
          BY <1>1, <1>5, <2>5, <2>6, <4>3
        <5> QED
          BY <4>1, <5>1 DEF Holds
      <4>4. CASE j = i
        <5>1. grown.start =< x /\ x =< grown.end
          BY <1>3, <4>1, <4>4
        <5>2. both.start =< x /\ x =< both.end
          BY <1>1, <1>3, <1>5, <2>2, <2>3, <3>0, <5>1
        <5> QED
          BY <3>0, <5>2 DEF Holds
      <4>5. CASE j = i + 1
        <5>1. both.start =< x /\ x =< both.end
          BY <1>1, <1>3, <1>5, <2>2, <2>3, <3>0, <4>1, <4>5
        <5> QED
          BY <3>0, <5>1 DEF Holds
      <4> QED
        BY <1>1, <4>2, <4>3, <4>4, <4>5
    <3>3. ASSUME x = seq PROVE Holds(merged, x)
      <4>1. grown.start =< x /\ x =< grown.end
        BY <1>3, <3>3
      <4>2. both.start =< x /\ x =< both.end
        BY <1>1, <1>3, <1>5, <2>2, <2>3, <3>0, <4>1
      <4> QED
        BY <3>0, <4>2 DEF Holds
    <3> QED
      BY <3>1, <3>2, <3>3
  <2> QED
    BY <2>5, <2>7, <2>8, <2>9, IsAckList DEF merged
<1> QED
  BY <1>4, <1>5

\* insert keeps a list compressed and adds the number to it, whatever the
\* order of the insertions.
LEMMA AckInsertProperty ==
    ASSUME NEW l \in AckList, NEW seq \in u24
    PROVE  /\ AckInsert(l, seq) \in AckList
           /\ \A x \in u24 : Holds(AckInsert(l, seq), x) <=> Holds(l, x) \/ x = seq
<1> DEFINE new == AckInsert(l, seq)
<1>1. PICK pos : pos = InsertPosition(l, seq)
  OBVIOUS
<1>2. /\ pos \in 0 .. Len(l)
      /\ \A i \in 1 .. (IF pos = 0 THEN Len(l) ELSE pos - 1) : l[i].end < seq
      /\ pos # 0 => seq =< l[pos].end
      /\ pos # 0 => (InRange(l[pos], seq) <=> l[pos].start =< seq)
  BY <1>1, InsertPositionProperty
<1>3. /\ l \in Seq(AckRange) /\ Len(l) \in Nat /\ seq \in Int /\ u24 \subseteq Int
      /\ \A j \in 1 .. Len(l) :
            /\ l[j].start \in Int /\ l[j].end \in Int /\ l[j].start =< l[j].end
      /\ \A j \in 1 .. Len(l) - 1 : l[j].end + 1 < l[j + 1].start
  <2>1. u24 \subseteq Int
    BY HalfSpaceAssumption DEF u24, SeqSpace
  <2> QED
    BY <2>1, AckListElements
<1>4. PICK after : after = IF pos = 0 THEN Len(l) + 1 ELSE pos
  OBVIOUS
<1>5. /\ after \in 1 .. Len(l) + 1
      /\ \A i \in 1 .. after - 1 : l[i].end < seq
      /\ after =< Len(l) <=> pos # 0
      /\ pos # 0 => after = pos
  BY <1>2, <1>3, <1>4
<1>6. new = IF pos # 0 /\ InRange(l[pos], seq)
            THEN l
            ELSE IF after > 1 /\ l[after - 1].end + 1 = seq
            THEN MergeAt(l, after - 1, seq)
            ELSE IF pos # 0 /\ seq + 1 = l[pos].start
            THEN MergeAt(l, pos, seq)
            ELSE InsertAt(l, after, Single(seq))
  BY <1>1, <1>4 DEF AckInsert, CanMergeWithNext, CanMergeWithPrev
<1> HIDE DEF new
<1>7. CASE pos # 0 /\ InRange(l[pos], seq)
  <2>1. new = l /\ pos \in 1 .. Len(l) /\ l[pos].start =< seq /\ seq =< l[pos].end
    BY <1>2, <1>3, <1>6, <1>7
  <2>2. Holds(l, seq)
    BY <2>1 DEF Holds
  <2> QED
    BY <2>1, <2>2 DEF new
<1>8. CASE ~ (pos # 0 /\ InRange(l[pos], seq))
  <2>0. pos # 0 => seq < l[pos].start
    <3>1. pos # 0 => l[pos].start \in Int
      BY <1>2, <1>3
    <3> QED
      BY <1>2, <1>3, <1>8, <3>1
  <2>1. CASE after > 1 /\ l[after - 1].end + 1 = seq
    <3>0. PICK k : k = after - 1
      OBVIOUS
    <3>1. new = MergeAt(l, k, seq) /\ l[k].end + 1 = seq
      BY <1>6, <1>8, <2>1, <3>0
    <3>2. k \in 1 .. Len(l) /\ k + 1 = after
      BY <1>3, <1>5, <2>1, <3>0
    <3>3. k > 1 => l[k - 1].end + 1 < seq
      <4>1. SUFFICES ASSUME k > 1 PROVE l[k - 1].end + 1 < seq
        OBVIOUS
      <4>2. k - 1 \in 1 .. Len(l) - 1 /\ (k - 1) + 1 = k
        BY <1>3, <3>2, <4>1
      <4>3. l[k - 1].end + 1 < l[k].start
        BY <1>3, <4>2
      <4>4. /\ l[k].start \in Int /\ l[k].end \in Int /\ l[k].start =< l[k].end
            /\ l[k - 1].end \in Int
        BY <1>3, <3>2, <4>2
      <4> QED
        BY <3>1, <4>3, <4>4
    <3>4. k < Len(l) => seq < l[k + 1].start
      BY <1>3, <1>5, <2>0, <3>2
    <3>5. /\ MergeAt(l, k, seq) \in AckList
          /\ \A x \in u24 : Holds(MergeAt(l, k, seq), x) <=> Holds(l, x) \/ x = seq
      BY <3>1, <3>2, <3>3, <3>4, MergeAtProperty
    <3> QED
      BY <3>1, <3>5 DEF new
  <2>2. CASE ~ (after > 1 /\ l[after - 1].end + 1 = seq) /\ pos # 0 /\ seq + 1 = l[pos].start
    <3>1. new = MergeAt(l, pos, seq)
      BY <1>6, <1>8, <2>2
    <3>2. pos \in 1 .. Len(l) /\ after = pos
      BY <1>2, <1>3, <1>5, <2>2
    <3>3. pos > 1 => l[pos - 1].end + 1 < seq
      <4>1. pos > 1 => l[pos - 1].end < seq /\ l[pos - 1].end \in Int /\ l[pos - 1].end + 1 # seq
        BY <1>3, <1>5, <2>2, <3>2
      <4> QED
        BY <1>3, <4>1
    <3>4. pos < Len(l) => seq < l[pos + 1].start
      <4>1. pos < Len(l) => l[pos].end + 1 < l[pos + 1].start
        BY <1>3, <3>2
      <4>2. l[pos].end \in Int /\ l[pos].start \in Int /\ l[pos].start =< l[pos].end
        BY <1>3, <3>2
      <4>3. pos < Len(l) => l[pos + 1].start \in Int
        BY <1>3, <3>2
      <4> QED
        BY <1>3, <2>2, <4>1, <4>2, <4>3
    <3> QED
      BY <2>2, <3>1, <3>2, <3>3, <3>4, MergeAtProperty DEF new
  <2>3. CASE /\ ~ (after > 1 /\ l[after - 1].end + 1 = seq)
             /\ ~ (pos # 0 /\ seq + 1 = l[pos].start)
    <3> DEFINE one == Single(seq)
    <3>1. new = InsertAt(l, after, one)
      BY <1>6, <1>8, <2>3
    <3>2. one \in AckRange /\ one.start = seq /\ one.end = seq
      BY DEF Single, AckRange
    <3> HIDE DEF one
    <3>3. /\ new \in Seq(AckRange) /\ Len(new) = Len(l) + 1
          /\ \A j \in 1 .. Len(l) + 1 :
                new[j] = IF j < after THEN l[j] ELSE IF j = after THEN one ELSE l[j - 1]
      <4> DEFINE ins == InsertAt(l, after, one)
      <4>1. /\ ins \in Seq(AckRange) /\ Len(ins) = Len(l) + 1
            /\ \A j \in 1 .. Len(l) + 1 :
                  ins[j] = IF j < after THEN l[j] ELSE IF j = after THEN one ELSE l[j - 1]
        BY <1>3, <1>5, <3>2, InsertAtProperty
      <4> HIDE DEF ins
      <4> QED
        BY <3>1, <4>1 DEF ins
    <3>4. ASSUME NEW j \in 1 .. Len(new) PROVE new[j].start =< new[j].end
      <4>1. CASE j < after
        BY <1>3, <1>5, <3>3, <4>1
      <4>2. CASE j = after
        BY <1>3, <1>5, <3>2, <3>3, <4>2
      <4>3. CASE j > after
        <5>1. new[j] = l[j - 1] /\ j - 1 \in 1 .. Len(l)
          BY <1>3, <1>5, <3>3, <4>3
        <5> QED
          BY <1>3, <5>1
      <4> QED
        BY <1>5, <4>1, <4>2, <4>3
    <3>5. ASSUME NEW j \in 1 .. Len(new) - 1 PROVE new[j].end + 1 < new[j + 1].start
      <4>1. CASE j + 1 < after
        <5>1. new[j] = l[j] /\ new[j + 1] = l[j + 1] /\ j \in 1 .. Len(l) - 1
          BY <1>3, <1>5, <3>3, <4>1
        <5> QED
          BY <1>3, <5>1
      <4>2. CASE j + 1 = after
        <5>1. new[j] = l[j] /\ new[j + 1] = one /\ j \in 1 .. after - 1 /\ j = after - 1
          BY <1>3, <1>5, <3>3, <4>2
        <5>2. l[j].end < seq /\ j \in 1 .. Len(l)
          BY <1>3, <1>5, <5>1
        <5>3. l[j].end \in Int
          BY <1>3, <5>2
        <5>4. l[j].end + 1 # seq
          BY <1>5, <2>3, <5>1
        <5>5. l[j].end + 1 < seq
          BY <1>3, <5>2, <5>3, <5>4
        <5> QED
          BY <3>2, <5>1, <5>5
      <4>3. CASE j = after
        <5>1. new[j] = one /\ new[j + 1] = l[(j + 1) - 1] /\ j \in 1 .. Len(l) /\ (j + 1) - 1 = j
          BY <1>3, <1>5, <3>3, <4>3
        <5>2. seq < l[j].start /\ l[j].start \in Int /\ seq + 1 # l[j].start
          BY <1>3, <1>5, <2>0, <2>3, <4>3, <5>1
        <5> QED
          BY <1>3, <3>2, <5>1, <5>2
      <4>4. CASE j > after
        <5>1. /\ new[j] = l[j - 1] /\ new[j + 1] = l[(j + 1) - 1]
              /\ j - 1 \in 1 .. Len(l) - 1 /\ (j + 1) - 1 = (j - 1) + 1
          BY <1>3, <1>5, <3>3, <4>4
        <5> QED
          BY <1>3, <5>1
      <4> QED
        BY <1>5, <4>1, <4>2, <4>3, <4>4
    <3>6. ASSUME NEW x \in u24 PROVE Holds(new, x) <=> Holds(l, x) \/ x = seq
      <4>1. ASSUME Holds(new, x) PROVE Holds(l, x) \/ x = seq
        <5>1. PICK j \in 1 .. Len(new) : new[j].start =< x /\ x =< new[j].end
          BY <4>1 DEF Holds
        <5>2. CASE j < after
          BY <1>3, <1>5, <3>3, <5>1, <5>2 DEF Holds
        <5>3. CASE j = after
          BY <1>3, <1>5, <3>2, <3>3, <5>1, <5>3
        <5>4. CASE j > after
          <6>1. new[j] = l[j - 1] /\ j - 1 \in 1 .. Len(l)
            BY <1>3, <1>5, <3>3, <5>4
          <6> QED
            BY <5>1, <6>1 DEF Holds
        <5> QED
          BY <1>5, <5>2, <5>3, <5>4
      <4>2. ASSUME Holds(l, x) PROVE Holds(new, x)
        <5>1. PICK j \in 1 .. Len(l) : l[j].start =< x /\ x =< l[j].end
          BY <4>2 DEF Holds
        <5>2. CASE j < after
          <6>1. new[j] = l[j] /\ j \in 1 .. Len(new)
            BY <1>3, <1>5, <3>3, <5>2
          <6> QED
            BY <5>1, <6>1 DEF Holds
        <5>3. CASE ~ (j < after)
          <6>1. new[j + 1] = l[(j + 1) - 1] /\ j + 1 \in 1 .. Len(new) /\ (j + 1) - 1 = j
            BY <1>3, <1>5, <3>3, <5>3
          <6> QED
            BY <5>1, <6>1 DEF Holds
        <5> QED
          BY <5>2, <5>3
      <4>3. ASSUME x = seq PROVE Holds(new, x)
        <5>1. new[after] = one /\ after \in 1 .. Len(new)
          BY <1>3, <1>5, <3>3
        <5> QED
          BY <1>3, <3>2, <4>3, <5>1 DEF Holds
      <4> QED
        BY <4>1, <4>2, <4>3
    <3> QED
      BY <3>3, <3>4, <3>5, <3>6, IsAckList DEF new
  <2> QED
    BY <2>1, <2>2, <2>3
<1> QED
  BY <1>7, <1>8

\* f is the loop of InsertRun, n turns of it.
RunLoop(f, l, first, n) ==
    f = [k \in 0 .. n |-> IF k = 0 THEN l ELSE AckInsert(f[k - 1], first + k - 1)]

\* There is such a function.
LEMMA RunLoopExists ==
    ASSUME NEW l, NEW first \in Int, NEW n \in Nat
    PROVE  \E f : RunLoop(f, l, first, n)
<1> DEFINE E == {m \in 0 .. n : \E f : RunLoop(f, l, first, m)}
<1>1. 0 \in E
  <2>1. RunLoop([k \in 0 .. 0 |-> l], l, first, 0)
    BY DEF RunLoop
  <2> QED
    BY <2>1
<1>2. ASSUME NEW m \in 0 .. n - 1, m \in E PROVE m + 1 \in E
  <2>1. PICK f : RunLoop(f, l, first, m)
    BY <1>2
  <2> DEFINE g == [k \in 0 .. m + 1 |-> IF k = m + 1 THEN AckInsert(f[m], first + m) ELSE f[k]]
  <2>2. \A k \in 1 .. m + 1 : g[k - 1] = f[k - 1]
    OBVIOUS
  <2>3. \A k \in 0 .. m + 1 : g[k] = IF k = 0 THEN l ELSE AckInsert(g[k - 1], first + k - 1)
    BY <2>1, <2>2 DEF RunLoop
  <2>4. RunLoop(g, l, first, m + 1)
    BY <2>3 DEF RunLoop
  <2> QED
    BY <2>4
<1> HIDE DEF E
<1>3. \A m \in 0 .. n : m \in E
  BY <1>1, <1>2, UpTo
<1> QED
  BY <1>3 DEF E

\* A run adds its numbers to a list and keeps it compressed.
LEMMA InsertRunProperty ==
    ASSUME NEW l \in AckList, NEW first \in u24, NEW last \in u24, first =< last
    PROVE  /\ InsertRun(l, first, last) \in AckList
           /\ \A x \in u24 : Holds(InsertRun(l, first, last), x)
                             <=> Holds(l, x) \/ (first =< x /\ x =< last)
<1>1. u24 \subseteq Int /\ first \in Int /\ last \in Int
  BY HalfSpaceAssumption DEF u24, SeqSpace
<1>2. PICK n : n = last - first + 1
  OBVIOUS
<1>3. n \in Nat /\ n >= 1
  BY <1>1, <1>2
<1> DEFINE after == CHOOSE f : RunLoop(f, l, first, n)
<1>4. RunLoop(after, l, first, n)
  BY <1>1, <1>3, RunLoopExists
<1>5. InsertRun(l, first, last) = after[n]
  BY <1>2 DEF InsertRun, RunLoop
<1> HIDE DEF after
<1>6. after[0] = l /\ \A k \in 1 .. n : after[k] = AckInsert(after[k - 1], first + k - 1)
  BY <1>3, <1>4 DEF RunLoop
<1> DEFINE E == {k \in 0 .. n : /\ after[k] \in AckList
                                /\ \A x \in u24 : Holds(after[k], x)
                                       <=> Holds(l, x) \/ (first =< x /\ x < first + k)}
<1>7. 0 \in E
  BY <1>1, <1>3, <1>6
<1>8. ASSUME NEW k \in 0 .. n - 1, k \in E PROVE k + 1 \in E
  <2>1. first + k \in u24 /\ k + 1 \in 1 .. n /\ (k + 1) - 1 = k /\ first + (k + 1) - 1 = first + k
    <3>1. SeqSpace \in Int
      BY HalfSpaceAssumption DEF SeqSpace
    <3> QED
      BY <1>1, <1>2, <1>3, <3>1 DEF u24
  <2>2. after[k + 1] = AckInsert(after[k], first + k)
    BY <1>6, <2>1
  <2>3. /\ after[k + 1] \in AckList
        /\ \A x \in u24 : Holds(after[k + 1], x) <=> Holds(after[k], x) \/ x = first + k
    BY <1>8, <2>1, <2>2, AckInsertProperty
  <2>4. ASSUME NEW x \in u24
        PROVE  Holds(after[k + 1], x) <=> Holds(l, x) \/ (first =< x /\ x < first + (k + 1))
    BY <1>1, <1>8, <2>3
  <2> QED
    BY <1>3, <2>3, <2>4
<1> HIDE DEF E
<1>9. n \in E
  BY <1>3, <1>7, <1>8, UpTo
<1> QED
  BY <1>1, <1>2, <1>3, <1>5, <1>9 DEF E

\* A record adds the numbers of its arc, wrapped or not.
LEMMA InsertRecordProperty ==
    ASSUME NEW l \in AckList, NEW range \in AckRange
    PROVE  /\ InsertRecord(l, range) \in AckList
           /\ \A x \in u24 : Holds(InsertRecord(l, range), x) <=> Holds(l, x) \/ InRange(range, x)
<1>1. range.start \in u24 /\ range.end \in u24
  BY DEF AckRange
<1>2. u24 \subseteq Int /\ 0 \in u24 /\ SeqSpace - 1 \in u24 /\ SeqSpace \in Int
      /\ \A x \in u24 : 0 =< x /\ x =< SeqSpace - 1
  BY HalfSpaceAssumption DEF u24, SeqSpace
<1>3. CASE range.start =< range.end
  <2>1. InsertRecord(l, range) = InsertRun(l, range.start, range.end)
    BY <1>3 DEF InsertRecord
  <2>2. \A x \in u24 : InRange(range, x) <=> range.start =< x /\ x =< range.end
    BY <1>1, <1>2, <1>3 DEF InRange, seq_in_range
  <2> QED
    BY <1>1, <1>3, <2>1, <2>2, InsertRunProperty
<1>4. CASE ~ (range.start =< range.end)
  <2>1. PICK m : m = InsertRun(l, range.start, SeqSpace - 1)
    OBVIOUS
  <2>2. /\ m \in AckList
        /\ \A x \in u24 : Holds(m, x) <=> Holds(l, x) \/ (range.start =< x /\ x =< SeqSpace - 1)
    <3>1. PICK s, t : s = range.start /\ t = SeqSpace - 1
      OBVIOUS
    <3>2. s \in u24 /\ t \in u24 /\ s =< t
      BY <1>1, <1>2, <3>1
    <3>3. /\ InsertRun(l, s, t) \in AckList
          /\ \A x \in u24 : Holds(InsertRun(l, s, t), x) <=> Holds(l, x) \/ (s =< x /\ x =< t)
      BY <3>2, InsertRunProperty
    <3> QED
      BY <2>1, <3>1, <3>3
  <2>3. InsertRecord(l, range) = InsertRun(m, 0, range.end)
    BY <1>4, <2>1 DEF InsertRecord
  <2>4. /\ InsertRecord(l, range) \in AckList
        /\ \A x \in u24 : Holds(InsertRecord(l, range), x) <=> Holds(m, x) \/ (0 =< x /\ x =< range.end)
    <3>1. PICK s, t : s = 0 /\ t = range.end
      OBVIOUS
    <3>2. s \in u24 /\ t \in u24 /\ s =< t
      BY <1>1, <1>2, <3>1
    <3>3. /\ InsertRun(m, s, t) \in AckList
          /\ \A x \in u24 : Holds(InsertRun(m, s, t), x) <=> Holds(m, x) \/ (s =< x /\ x =< t)
      BY <2>2, <3>2, InsertRunProperty
    <3> QED
      BY <2>3, <3>1, <3>3
  <2>5. \A x \in u24 : InRange(range, x) <=> range.start =< x \/ x =< range.end
    BY <1>1, <1>2, <1>4 DEF InRange, seq_in_range
  <2> QED
    BY <1>2, <2>2, <2>4, <2>5
<1> QED
  BY <1>3, <1>4

\* Arc is the circle's own notion of a range.
LEMMA ArcProperty ==
    ASSUME NEW range \in AckRange
    PROVE  Arc(range.start, range.end) = {x \in u24 : InRange(range, x)}
<1>1. PICK s, e : s = range.start /\ e = range.end
  OBVIOUS
<1>2. s \in u24 /\ e \in u24
  BY <1>1 DEF AckRange
<1>3. /\ SeqSpace \in Nat /\ s \in 0 .. SeqSpace - 1 /\ e \in 0 .. SeqSpace - 1
      /\ u24 = 0 .. SeqSpace - 1
  BY <1>2, HalfSpaceAssumption DEF u24, SeqSpace
<1>4. ASSUME NEW x \in Arc(s, e) PROVE x \in u24 /\ InRange(range, x)
  <2>1. PICK i \in 0 .. wrapping_sub(e, s) : x = wrapping_add(s, i)
    BY DEF Arc
  <2> QED
    BY <1>1, <1>3, <2>1 DEF InRange, seq_in_range, wrapping_add, wrapping_sub
<1>5. ASSUME NEW x \in u24, InRange(range, x) PROVE x \in Arc(s, e)
  <2>1. PICK i : i = wrapping_sub(x, s)
    OBVIOUS
  <2>2. i \in 0 .. wrapping_sub(e, s) /\ x = wrapping_add(s, i)
    BY <1>1, <1>3, <1>5, <2>1 DEF InRange, seq_in_range, wrapping_add, wrapping_sub
  <2> QED
    BY <2>2 DEF Arc
<1> QED
  BY <1>1, <1>4, <1>5

(***************************************************************************)
(* What is written is bytes.                                               *)
(***************************************************************************)

\* Integers of two and three bytes.
LEMMA IntegerBytes ==
    ASSUME NEW n \in Nat
    PROVE  IsBytes(put_u16(n), 2) /\ IsBytes(write_u24_le(n), 3)
<1>1. /\ n % 256 \in Byte /\ n \div 256 \in Nat /\ (n \div 256) % 256 \in Byte
      /\ n \div 65536 \in Nat /\ (n \div 65536) % 256 \in Byte
  BY DEF Byte
<1>2. PICK a, b, c : a = n % 256 /\ b = (n \div 256) % 256 /\ c = (n \div 65536) % 256
  OBVIOUS
<1>3. a \in Byte /\ b \in Byte /\ c \in Byte
  BY <1>1, <1>2
<1>4. put_u16(n) = <<b, a>> /\ write_u24_le(n) = <<a, b, c>>
  BY <1>2 DEF put_u16, write_u24_le
<1>5. <<b, a>> \in Seq(Byte) /\ Len(<<b, a>>) = 2
  BY <1>3
<1>6. <<a, b, c>> \in Seq(Byte) /\ Len(<<a, b, c>>) = 3
  BY <1>3
<1> QED
  BY <1>4, <1>5, <1>6 DEF IsBytes

\* One byte more in front.
LEMMA OneMoreByte ==
    ASSUME NEW b \in Byte, NEW s \in Seq(Byte)
    PROVE  <<b>> \o s \in Seq(Byte) /\ Len(<<b>> \o s) = 1 + Len(s)
<1>1. <<b>> \in Seq(Byte) /\ Len(<<b>>) = 1
  OBVIOUS
<1> QED
  BY <1>1, Concatenation

\* A record takes 4 bytes, or 7 if it is a range of several numbers.
LEMMA EncodeRangeBytes ==
    ASSUME NEW range \in AckRange
    PROVE  /\ EncodeRange(range) \in Seq(Byte)
           /\ Len(EncodeRange(range)) = IF range.start = range.end THEN 4 ELSE 7
<1>1. range.start \in Nat /\ range.end \in Nat
  BY HalfSpaceAssumption DEF AckRange, u24, SeqSpace
<1>2. PICK s, e : s = write_u24_le(range.start) /\ e = write_u24_le(range.end)
  OBVIOUS
<1>3. s \in Seq(Byte) /\ e \in Seq(Byte) /\ Len(s) = 3 /\ Len(e) = 3
  BY <1>1, <1>2, IntegerBytes DEF IsBytes
<1>4. \A b \in Byte : <<b>> \o s \in Seq(Byte) /\ Len(<<b>> \o s) = 4
  <2>1. \A b \in Byte : <<b>> \o s \in Seq(Byte) /\ Len(<<b>> \o s) = 1 + Len(s)
    BY <1>3, OneMoreByte
  <2> QED
    BY <1>3, <2>1
<1>5. 0 \in Byte /\ 1 \in Byte
  BY DEF Byte
<1>6. (<<0>> \o s) \o e \in Seq(Byte) /\ Len((<<0>> \o s) \o e) = 7
  <2>1. PICK p : p = <<0>> \o s
    OBVIOUS
  <2>2. p \in Seq(Byte) /\ Len(p) = 4
    BY <1>4, <1>5, <2>1
  <2>3. p \o e \in Seq(Byte) /\ Len(p \o e) = 7
    <3>1. p \o e \in Seq(Byte) /\ Len(p \o e) = Len(p) + Len(e)
      BY <1>3, <2>2, Concatenation
    <3> QED
      BY <1>3, <2>2, <3>1
  <2> QED
    BY <2>1, <2>3
<1> QED
  BY <1>2, <1>4, <1>5, <1>6 DEF EncodeRange

\* An ACK packet is bytes.
LEMMA EncodeAckBytes ==
    ASSUME NEW l \in Seq(AckRange)
    PROVE  encode_ack(l) \in Seq(Byte)
<1> DEFINE parts == [i \in DOMAIN l |-> EncodeRange(l[i])]
<1>1. parts \in Seq(Seq(Byte))
  <2>1. DOMAIN l = 1 .. Len(l) /\ Len(l) \in Nat
    BY LenProperties
  <2>2. \A i \in 1 .. Len(l) : EncodeRange(l[i]) \in Seq(Byte)
    BY ElementOfSeq, EncodeRangeBytes
  <2>3. parts \in [1 .. Len(l) -> Seq(Byte)]
    BY <2>1, <2>2
  <2> HIDE DEF parts
  <2> QED
    BY <2>1, <2>3
<1>2. FlattenSeq(parts) \in Seq(Byte)
  BY <1>1, FlattenSeqProperty
<1> HIDE DEF parts
<1>3. PICK p, q : p = put_u16(Len(l) % 65536) /\ q = FlattenSeq(parts)
  OBVIOUS
<1>4. p \in Seq(Byte) /\ q \in Seq(Byte)
  <2>1. Len(l) % 65536 \in Nat
    BY LenProperties
  <2> QED
    BY <1>2, <1>3, <2>1, IntegerBytes DEF IsBytes
<1>5. <<ID_ACK>> \o p \in Seq(Byte)
  <2>1. ID_ACK \in Byte
    BY DEF ID_ACK, Byte
  <2> QED
    BY <1>4, <2>1, OneMoreByte
<1>6. (<<ID_ACK>> \o p) \o q \in Seq(Byte)
  BY <1>4, <1>5, Concatenation
<1> QED
  BY <1>3, <1>6 DEF encode_ack, parts

\* What an encoder may write.
Items == {Const(b) : b \in Seq(Byte)} \cup {Bytes(1), Bytes(2), Bytes(8), Addr, Data, Padding}

\* A socket address is bytes on the wire.
LEMMA WriteAddressBytes ==
    ASSUME NEW a \in Addresses
    PROVE  write_address(a) \in Seq(Byte)
<1>1. /\ a.ip \in Seq(Byte) /\ a.port \in Seq(Byte)
      /\ Len(a.ip) = 4 \/ Len(a.ip) = 16
  BY PacketAssumption DEF IsBytes, IsAddress
<1>2. Inverted(a.ip) \in Seq(Byte)
  <2>1. DOMAIN a.ip = 1 .. Len(a.ip) /\ Len(a.ip) \in Nat /\ \A i \in 1 .. Len(a.ip) : a.ip[i] \in Byte
    BY <1>1, LenProperties, ElementOfSeq
  <2>2. Inverted(a.ip) \in [1 .. Len(a.ip) -> Byte]
    <3>1. \A i \in 1 .. Len(a.ip) : 255 - a.ip[i] \in Byte
      <4>1. \A x \in Byte : 255 - x \in Byte
        BY DEF Byte
      <4> QED
        BY <2>1, <4>1
    <3> QED
      BY <2>1, <3>1 DEF Inverted
  <2> QED
    BY <2>1, <2>2
<1>3. \A ip \in Seq(Byte) : \A v \in Byte : (<<v>> \o ip) \o a.port \in Seq(Byte)
  <2>1. ASSUME NEW ip \in Seq(Byte), NEW v \in Byte PROVE (<<v>> \o ip) \o a.port \in Seq(Byte)
    <3>1. <<v>> \o ip \in Seq(Byte)
      BY OneMoreByte
    <3> QED
      BY <1>1, <3>1, Concatenation
  <2> QED
    BY <2>1
<1>4. 4 \in Byte /\ 6 \in Byte
  BY DEF Byte
<1> QED
  BY <1>1, <1>2, <1>3, <1>4 DEF write_address

\* An item of an encoder writes bytes.
LEMMA ItemBytesBytes ==
    ASSUME NEW item \in Items, NEW v \in Values(item), NEW n \in Nat
    PROVE  ItemBytes(item, v, n) \in Seq(Byte)
<1> USE DEF Const, Bytes, Addr, Data, Padding
<1>1. CASE item \in {Const(b) : b \in Seq(Byte)}
  BY <1>1 DEF ItemBytes
<1>2. CASE item \in {Bytes(1), Bytes(2), Bytes(8)}
  <2>1. v \in Integers8 \cup Integers2 \cup Integers1
    BY <1>2 DEF Values
  <2>2. v \in Seq(Byte)
    BY <2>1, PacketAssumption DEF IsBytes
  <2> QED
    BY <1>2, <2>2 DEF ItemBytes
<1>3. CASE item = Addr
  <2>1. v \in Addresses
    BY <1>3 DEF Values
  <2> QED
    BY <1>3, <2>1, WriteAddressBytes DEF ItemBytes
<1>4. CASE item = Data
  <2>1. v \in Seq(Byte)
    BY <1>4, PacketAssumption DEF Values
  <2>2. Len(v) % 65536 \in Nat
    BY <2>1, LenProperties
  <2>3. put_u16(Len(v) % 65536) \in Seq(Byte)
    BY <2>2, IntegerBytes DEF IsBytes
  <2>4. put_u16(Len(v) % 65536) \o v \in Seq(Byte)
    BY <2>1, <2>3, Concatenation
  <2> QED
    BY <1>4, <2>4 DEF ItemBytes
<1>5. CASE item = Padding
  <2>1. v \in Nat
    BY <1>5, PacketAssumption DEF Values
  <2>2. PICK k : k = IF v > n THEN v - n ELSE 0
    OBVIOUS
  <2>3. k \in Nat
    BY <2>1, <2>2
  <2>4. Zeros(k) \in [1 .. k -> Byte]
    BY DEF Zeros, Byte
  <2>5. Zeros(k) \in Seq(Byte)
    BY <2>3, <2>4
  <2> QED
    BY <1>5, <2>2, <2>5 DEF ItemBytes
<1> QED
  BY <1>1, <1>2, <1>3, <1>4, <1>5 DEF Items

\* The twelve kinds of control packets.
LEMMA KindsAre ==
    Kinds = {"unconnected_ping", "unconnected_pong", "open_connection_request_1",
             "open_connection_reply_1", "open_connection_request_2",
             "open_connection_reply_2", "connection_request",
             "connection_request_accepted", "new_incoming_connection",
             "connected_ping", "connected_pong", "disconnect_notification"}
BY DEF Kinds, Packet

\* The encoders of the control packets are lists of items.
LEMMA EncoderItems ==
    ASSUME NEW kind \in Kinds
    PROVE  Packet[kind].id \in Byte /\ Packet[kind].write \in Seq(Items)
<1>1. /\ MAGIC \in Seq(Byte) /\ <<0>> \in Seq(Byte) /\ Zeros(2) \in Seq(Byte)
      /\ write_address(NoAddress) \in Seq(Byte)
  BY DEF MAGIC, Byte, Zeros, NoAddress, write_address, Inverted
<1>2. /\ I64 \in Items /\ U16 \in Items /\ U8 \in Items /\ Addr \in Items /\ Data \in Items
      /\ Padding \in Items /\ Magic \in Items /\ NoEncryption \in Items
      /\ Const(Zeros(2)) \in Items /\ Const(write_address(NoAddress)) \in Items
  BY <1>1 DEF Items, I64, U16, U8, Magic, NoEncryption
<1>3. InternalAddresses \in Seq(Items)
  BY <1>2 DEF InternalAddresses
<1> DEFINE Good(p) == p.id \in Byte /\ p.write \in Seq(Items)
<1>4. Good(UnconnectedPing)
  BY <1>2 DEF UnconnectedPing, Byte
<1>5. Good(UnconnectedPong)
  BY <1>2 DEF UnconnectedPong, Byte
<1>6. Good(OpenConnectionRequest1)
  BY <1>2 DEF OpenConnectionRequest1, Byte
<1>7. Good(OpenConnectionReply1)
  BY <1>2 DEF OpenConnectionReply1, Byte
<1>8. Good(OpenConnectionRequest2)
  BY <1>2 DEF OpenConnectionRequest2, Byte
<1>9. Good(OpenConnectionReply2)
  BY <1>2 DEF OpenConnectionReply2, Byte
<1>10. Good(ConnectionRequest)
  BY <1>2 DEF ConnectionRequest, Byte
<1>11. Good(ConnectionRequestAccepted)
  <2>1. <<Addr, Const(Zeros(2))>> \in Seq(Items) /\ <<I64, I64>> \in Seq(Items)
    BY <1>2
  <2>2. <<Addr, Const(Zeros(2))>> \o InternalAddresses \in Seq(Items)
    BY <1>3, <2>1, Concatenation
  <2>3. (<<Addr, Const(Zeros(2))>> \o InternalAddresses) \o <<I64, I64>> \in Seq(Items)
    BY <2>1, <2>2, Concatenation
  <2>4. ConnectionRequestAccepted.write = (<<Addr, Const(Zeros(2))>> \o InternalAddresses) \o <<I64, I64>>
    BY DEF ConnectionRequestAccepted
  <2>5. ConnectionRequestAccepted.id \in Byte
    BY DEF ConnectionRequestAccepted, Byte
  <2> QED
    BY <2>3, <2>4, <2>5
<1>12. Good(NewIncomingConnection)
  <2>1. <<Addr>> \in Seq(Items) /\ <<I64, I64>> \in Seq(Items)
    BY <1>2
  <2>2. <<Addr>> \o InternalAddresses \in Seq(Items)
    BY <1>3, <2>1, Concatenation
  <2>3. (<<Addr>> \o InternalAddresses) \o <<I64, I64>> \in Seq(Items)
    BY <2>1, <2>2, Concatenation
  <2>4. NewIncomingConnection.write = (<<Addr>> \o InternalAddresses) \o <<I64, I64>>
    BY DEF NewIncomingConnection
  <2>5. NewIncomingConnection.id \in Byte
    BY DEF NewIncomingConnection, Byte
  <2> QED
    BY <2>3, <2>4, <2>5
<1>13. Good(ConnectedPing)
  BY <1>2 DEF ConnectedPing, Byte
<1>14. Good(ConnectedPong)
  BY <1>2 DEF ConnectedPong, Byte
<1>15. Good(DisconnectNotification)
  BY <1>2 DEF DisconnectNotification, Byte
<1> HIDE DEF Good
<1>16. Good(Packet[kind])
  BY KindsAre, <1>4, <1>5, <1>6, <1>7, <1>8, <1>9, <1>10, <1>11, <1>12, <1>13, <1>14, <1>15 DEF Packet
<1> QED
  BY <1>16 DEF Good

\* What may be written after one more item.
AfterItem(S, item) == {WriteItem(w, item, v) : w \in S, v \in Values(item)}

\* f is the loop of Encode, n items of it.
EncodeLoop(f, kind, n) ==
    f = [i \in 0 .. n |->
            IF i = 0 THEN {[args |-> <<>>, bytes |-> <<Packet[kind].id>>]}
            ELSE AfterItem(f[i - 1], Packet[kind].write[i])]

\* There is such a function.
LEMMA EncodeLoopExists ==
    ASSUME NEW kind, NEW n \in Nat
    PROVE  \E f : EncodeLoop(f, kind, n)
<1> DEFINE Step(S, i) == AfterItem(S, Packet[kind].write[i])
           start == {[args |-> <<>>, bytes |-> <<Packet[kind].id>>]}
           E == {m \in 0 .. n : \E f : EncodeLoop(f, kind, m)}
<1>0. ASSUME NEW f, NEW m
      PROVE  EncodeLoop(f, kind, m) <=>
                f = [i \in 0 .. m |-> IF i = 0 THEN start ELSE Step(f[i - 1], i)]
  BY DEF EncodeLoop
<1> HIDE DEF Step, start
<1>1. 0 \in E
  <2>1. EncodeLoop([i \in 0 .. 0 |-> start], kind, 0)
    <3> DEFINE g == [i \in 0 .. 0 |-> start]
    <3>1. g = [i \in 0 .. 0 |-> IF i = 0 THEN start ELSE Step(g[i - 1], i)]
      OBVIOUS
    <3> QED
      BY <1>0, <3>1
  <2> QED
    BY <2>1
<1>2. ASSUME NEW m \in 0 .. n - 1, m \in E PROVE m + 1 \in E
  <2>1. PICK f : EncodeLoop(f, kind, m)
    BY <1>2
  <2>2. f = [i \in 0 .. m |-> IF i = 0 THEN start ELSE Step(f[i - 1], i)]
    BY <1>0, <2>1
  <2> DEFINE g == [i \in 0 .. m + 1 |-> IF i = m + 1 THEN Step(f[m], m + 1) ELSE f[i]]
  <2>3. \A i \in 1 .. m + 1 : g[i - 1] = f[i - 1]
    OBVIOUS
  <2>4. \A i \in 0 .. m + 1 : g[i] = IF i = 0 THEN start ELSE Step(g[i - 1], i)
    BY <2>2, <2>3
  <2>5. g = [i \in 0 .. m + 1 |-> IF i = 0 THEN start ELSE Step(g[i - 1], i)]
    BY <2>4
  <2>6. EncodeLoop(g, kind, m + 1)
    BY <1>0, <2>5
  <2> QED
    BY <2>6
<1> HIDE DEF E
<1>3. \A m \in 0 .. n : m \in E
  BY <1>1, <1>2, UpTo
<1> QED
  BY <1>3 DEF E

\* Encode goes through the items one by one.
LEMMA EncodeTurns ==
    ASSUME NEW kind, Len(Packet[kind].write) \in Nat
    PROVE  \E after :
              /\ after[0] = {[args |-> <<>>, bytes |-> <<Packet[kind].id>>]}
              /\ \A i \in 1 .. Len(Packet[kind].write) :
                    after[i] = AfterItem(after[i - 1], Packet[kind].write[i])
              /\ Encode(kind) = after[Len(Packet[kind].write)]
<1>1. PICK n \in Nat : n = Len(Packet[kind].write)
  OBVIOUS
<1> DEFINE after == CHOOSE f : EncodeLoop(f, kind, n)
<1>3. EncodeLoop(after, kind, n)
  BY EncodeLoopExists
<1>4. Encode(kind) = after[n]
  BY <1>1 DEF Encode, EncodeLoop, AfterItem
<1> HIDE DEF after
<1> DEFINE Step(S, i) == AfterItem(S, Packet[kind].write[i])
           start == {[args |-> <<>>, bytes |-> <<Packet[kind].id>>]}
<1>5. after = [i \in 0 .. n |-> IF i = 0 THEN start ELSE Step(after[i - 1], i)]
  <2>1. ASSUME NEW f
        PROVE  EncodeLoop(f, kind, n) <=>
                  f = [i \in 0 .. n |-> IF i = 0 THEN start ELSE Step(f[i - 1], i)]
    BY DEF EncodeLoop
  <2> HIDE DEF Step, start
  <2> QED
    BY <1>3, <2>1
<1> HIDE DEF Step, start
<1>6. after[0] = start /\ \A i \in 1 .. n : after[i] = Step(after[i - 1], i)
  BY <1>5
<1>7. /\ after[0] = {[args |-> <<>>, bytes |-> <<Packet[kind].id>>]}
      /\ \A i \in 1 .. n :
            after[i] = AfterItem(after[i - 1], Packet[kind].write[i])
  BY <1>6 DEF Step, start
<1> QED
  BY <1>1, <1>4, <1>7

\* w[i] is what the encoder has written after i items, v[i] the argument of
\* the i-th.
Chain(w, v, kind, n) ==
    /\ w[0] = [args |-> <<>>, bytes |-> <<Packet[kind].id>>]
    /\ \A i \in 1 .. n : /\ v[i] \in Values(Packet[kind].write[i])
                         /\ w[i] = WriteItem(w[i - 1], Packet[kind].write[i], v[i])

\* Every packet an encoder writes has such a history.
LEMMA EncodeChain ==
    ASSUME NEW kind \in Kinds, NEW packet \in Encode(kind)
    PROVE  \E w, v : Chain(w, v, kind, Len(Packet[kind].write)) /\ w[Len(Packet[kind].write)] = packet
<1>1. PICK n : n = Len(Packet[kind].write)
  OBVIOUS
<1>2. n \in Nat
  BY <1>1, EncoderItems, LenProperties
<1>3. PICK after :
              /\ after[0] = {[args |-> <<>>, bytes |-> <<Packet[kind].id>>]}
              /\ \A i \in 1 .. n :
                    after[i] = AfterItem(after[i - 1], Packet[kind].write[i])
              /\ Encode(kind) = after[n]
  BY <1>1, <1>2, EncodeTurns
<1> DEFINE E == {i \in 0 .. n : \A p \in after[i] : \E w, v : Chain(w, v, kind, i) /\ w[i] = p}
<1>4. 0 \in E
  <2>1. ASSUME NEW p \in after[0] PROVE \E w, v : Chain(w, v, kind, 0) /\ w[0] = p
    <3> DEFINE w == [j \in 0 .. 0 |-> p]
    <3>1. w[0] = p /\ p = [args |-> <<>>, bytes |-> <<Packet[kind].id>>]
      BY <1>3
    <3>2. Chain(w, w, kind, 0)
      BY <3>1 DEF Chain
    <3> QED
      BY <3>1, <3>2
  <2> QED
    BY <1>2, <2>1
<1>5. ASSUME NEW i \in 0 .. n - 1, i \in E PROVE i + 1 \in E
  <2>1. i + 1 \in 1 .. n /\ i + 1 \in 0 .. n /\ (i + 1) - 1 = i /\ i \in Nat
    BY <1>2
  <2>2. PICK item : item = Packet[kind].write[i + 1]
    OBVIOUS
  <2>3. after[i + 1] = AfterItem(after[i], item)
    BY <1>3, <2>1, <2>2
  <2>4. ASSUME NEW p \in after[i + 1]
        PROVE  \E w, v : Chain(w, v, kind, i + 1) /\ w[i + 1] = p
    <3>1. PICK q \in after[i], x \in Values(item) : p = WriteItem(q, item, x)
      BY <2>3 DEF AfterItem
    <3>2. PICK w, v : Chain(w, v, kind, i) /\ w[i] = q
      BY <1>5
    <3> DEFINE w2 == [j \in 0 .. i + 1 |-> IF j = i + 1 THEN p ELSE w[j]]
               v2 == [j \in 0 .. i + 1 |-> IF j = i + 1 THEN x ELSE v[j]]
    <3>3. /\ w2[i + 1] = p /\ v2[i + 1] = x
          /\ \A j \in 0 .. i : w2[j] = w[j] /\ v2[j] = v[j]
      BY <2>1
    <3> HIDE DEF w2, v2
    <3>4. w2[0] = [args |-> <<>>, bytes |-> <<Packet[kind].id>>]
      BY <2>1, <3>2, <3>3 DEF Chain
    <3>5. ASSUME NEW j \in 1 .. i + 1
          PROVE  /\ v2[j] \in Values(Packet[kind].write[j])
                 /\ w2[j] = WriteItem(w2[j - 1], Packet[kind].write[j], v2[j])
      <4>1. CASE j = i + 1
        BY <2>1, <2>2, <3>1, <3>2, <3>3, <4>1
      <4>2. CASE j # i + 1
        <5>1. j \in 1 .. i /\ j \in 0 .. i /\ j - 1 \in 0 .. i
          BY <2>1, <4>2
        <5> QED
          BY <3>2, <3>3, <5>1 DEF Chain
      <4> QED
        BY <4>1, <4>2
    <3>6. Chain(w2, v2, kind, i + 1)
      BY <3>4, <3>5 DEF Chain
    <3> QED
      BY <3>3, <3>6
  <2> QED
    BY <2>1, <2>4
<1> HIDE DEF E
<1>6. \A i \in 0 .. n : i \in E
  BY <1>2, <1>4, <1>5, UpTo
<1> QED
  BY <1>1, <1>2, <1>3, <1>6 DEF E

\* The parts of what an item adds.
LEMMA WriteItemParts ==
    ASSUME NEW w, NEW item, NEW arg
    PROVE  /\ WriteItem(w, item, arg).args = IF item.op = "const" THEN w.args ELSE Append(w.args, arg)
           /\ WriteItem(w, item, arg).bytes = w.bytes \o ItemBytes(item, arg, Len(w.bytes))
BY DEF WriteItem

\* All along the way what is written are bytes.
LEMMA ChainBytes ==
    ASSUME NEW kind \in Kinds, NEW n \in Nat, n =< Len(Packet[kind].write), NEW w, NEW v,
           Chain(w, v, kind, n)
    PROVE  \A i \in 0 .. n : w[i].bytes \in Seq(Byte)
<1>2. \A i \in 1 .. n : Packet[kind].write[i] \in Items
  BY EncoderItems, ElementOfSeq, LenProperties
<1> DEFINE E == {i \in 0 .. n : w[i].bytes \in Seq(Byte)}
<1>5. 0 \in E
  <2>1. PICK a, b : a = <<>> /\ b = <<Packet[kind].id>>
    OBVIOUS
  <2>2. b \in Seq(Byte)
    BY <2>1, EncoderItems
  <2>3. w[0] = [args |-> a, bytes |-> b]
    BY <2>1 DEF Chain
  <2> QED
    BY <2>2, <2>3
<1>6. ASSUME NEW i \in 0 .. n - 1, i \in E PROVE i + 1 \in E
  <2>1. i + 1 \in 1 .. n /\ i + 1 \in 0 .. n /\ (i + 1) - 1 = i
    OBVIOUS
  <2>2. PICK item, arg : item = Packet[kind].write[i + 1] /\ arg = v[i + 1]
    OBVIOUS
  <2>3. item \in Items /\ arg \in Values(item) /\ w[i + 1] = WriteItem(w[i], item, arg)
    BY <1>2, <2>1, <2>2 DEF Chain
  <2>4. w[i].bytes \in Seq(Byte) /\ Len(w[i].bytes) \in Nat
    BY <1>6, LenProperties
  <2>5. ItemBytes(item, arg, Len(w[i].bytes)) \in Seq(Byte)
    BY <2>3, <2>4, ItemBytesBytes
  <2>6. w[i].bytes \o ItemBytes(item, arg, Len(w[i].bytes)) \in Seq(Byte)
    BY <2>4, <2>5, Concatenation
  <2>7. w[i + 1].bytes \in Seq(Byte)
    BY <2>3, <2>6, WriteItemParts
  <2> QED
    BY <2>1, <2>7
<1> HIDE DEF E
<1>7. \A i \in 0 .. n : i \in E
  BY <1>5, <1>6, UpTo
<1> QED
  BY <1>7 DEF E

\* The encoders write bytes.
LEMMA EncodeBytes ==
    ASSUME NEW kind \in Kinds, NEW packet \in Encode(kind)
    PROVE  packet.bytes \in Seq(Byte)
<1>1. PICK n : n = Len(Packet[kind].write)
  OBVIOUS
<1>2. n \in Nat
  BY <1>1, EncoderItems, LenProperties
<1>3. PICK w, v : Chain(w, v, kind, n) /\ w[n] = packet
  BY <1>1, EncodeChain
<1>4. \A i \in 0 .. n : w[i].bytes \in Seq(Byte)
  BY <1>1, <1>2, <1>3, ChainBytes
<1> QED
  BY <1>2, <1>3, <1>4

\* Numbers of three bytes are natural numbers.
LEMMA ThreeBytesNat == \A x \in ThreeBytes : x \in Nat
<1>1. u24_MAX \in Nat
  BY SMT DEF u24_MAX
<1> QED
  BY <1>1 DEF ThreeBytes

\* A frame's parts are byte strings.
LEMMA PartsBytes ==
    ASSUME NEW f \in FramesSent
    PROVE  Parts(f) \in Seq(Seq(Byte))
<1> DEFINE flags == <<f.reliability * 32 + (IF f.split = <<>> THEN 0 ELSE 16)>>
           length == put_u16(length_bits(f.payload))
           m == write_u24_le(f.message_index)
           s == write_u24_le(f.sequence_index)
           o == write_u24_le(f.order_index)
           c == <<f.order_channel>>
<1>1. IsFrame(f)
  BY PacketAssumption
<1>2. flags \in Seq(Byte)
  <2>1. f.reliability \in 0 .. 4
    BY <1>1 DEF IsFrame, Reliability
  <2>2. f.reliability * 32 + (IF f.split = <<>> THEN 0 ELSE 16) \in Byte
    <3>1. PICK d : d = IF f.split = <<>> THEN 0 ELSE 16
      OBVIOUS
    <3>2. d \in {0, 16}
      BY <3>1
    <3>3. f.reliability * 32 + d \in Byte
      BY <2>1, <3>2 DEF Byte
    <3> QED
      BY <3>1, <3>3
  <2> QED
    BY <2>2
<1>3. f.payload \in Seq(Byte) /\ c \in Seq(Byte)
  BY <1>1 DEF IsFrame
<1>4. length \in Seq(Byte)
  <2>1. ASSUME NEW p \in Seq(Byte) PROVE length_bits(p) \in Nat
    BY LenProperties DEF length_bits
  <2>2. length_bits(f.payload) \in Nat
    BY <1>3, <2>1
  <2> QED
    BY <2>2, IntegerBytes DEF IsBytes
<1>5. m \in Seq(Byte) /\ s \in Seq(Byte) /\ o \in Seq(Byte)
  <2>1. f.message_index \in Nat /\ f.sequence_index \in Nat /\ f.order_index \in Nat
    BY <1>1, ThreeBytesNat DEF IsFrame
  <2> QED
    BY <2>1, IntegerBytes DEF IsBytes
<1>6. f.split \in Seq(Seq(Byte))
  <2>1. CASE f.split = <<>>
    BY <2>1, EmptySeq
  <2>2. CASE IsSplit(f.split)
    <3>1. PICK x, y, z : f.split = <<x, y, z>> /\ x \in Seq(Byte) /\ y \in Seq(Byte) /\ z \in Seq(Byte)
      BY <2>2 DEF IsSplit, IsBytes
    <3> QED
      BY <3>1
  <2> QED
    BY <1>1, <2>1, <2>2 DEF IsFrame
<1> DEFINE SS == Seq(Byte)
           p1 == Optional(is_reliable(f.reliability), <<m>>)
           p2 == Optional(is_sequenced(f.reliability), <<s>>)
           p3 == Optional(is_ordered(f.reliability), <<o, c>>)
<1>7. /\ <<flags, length>> \in Seq(SS) /\ <<f.payload>> \in Seq(SS)
      /\ <<m>> \in Seq(SS) /\ <<s>> \in Seq(SS) /\ <<o, c>> \in Seq(SS) /\ <<>> \in Seq(SS)
  <2>1. /\ flags \in SS /\ length \in SS /\ f.payload \in SS
        /\ m \in SS /\ s \in SS /\ o \in SS /\ c \in SS
    <3> HIDE DEF flags, length, m, s, o, c
    <3> QED
      BY <1>2, <1>3, <1>4, <1>5
  <2> HIDE DEF SS, flags, length, m, s, o, c
  <2> QED
    BY <2>1
<1>8. p1 \in Seq(SS) /\ p2 \in Seq(SS) /\ p3 \in Seq(SS)
  BY <1>7 DEF Optional
<1>9. Parts(f) = ((((<<flags, length>> \o p1) \o p2) \o p3) \o f.split) \o <<f.payload>>
  BY DEF Parts
<1> HIDE DEF p1, p2, p3, SS, flags, length, m, s, o, c
<1>10. <<flags, length>> \o p1 \in Seq(SS)
  BY <1>7, <1>8, Concatenation
<1>11. (<<flags, length>> \o p1) \o p2 \in Seq(SS)
  BY <1>8, <1>10, Concatenation
<1>12. ((<<flags, length>> \o p1) \o p2) \o p3 \in Seq(SS)
  BY <1>8, <1>11, Concatenation
<1>13. f.split \in Seq(SS)
  BY <1>6 DEF SS
<1>14. (((<<flags, length>> \o p1) \o p2) \o p3) \o f.split \in Seq(SS)
  BY <1>12, <1>13, Concatenation
<1>15. ((((<<flags, length>> \o p1) \o p2) \o p3) \o f.split) \o <<f.payload>> \in Seq(SS)
  BY <1>7, <1>14, Concatenation
<1> QED
  BY <1>9, <1>15 DEF SS

\* A datagram is bytes.
LEMMA DatagramBytes ==
    ASSUME NEW seq \in DatagramSeqs, NEW n \in {1, 2}, NEW frames \in [1 .. n -> FramesSent]
    PROVE  encode_datagram(seq, [i \in DOMAIN frames |-> EncodeFrame(frames[i])]) \in Seq(Byte)
<1> DEFINE parts == [i \in DOMAIN frames |-> EncodeFrame(frames[i])]
<1>1. \A f \in FramesSent : EncodeFrame(f) \in Seq(Byte)
  BY PartsBytes, FlattenSeqProperty DEF EncodeFrame
<1>2. parts \in Seq(Seq(Byte))
  <2>1. parts \in [1 .. n -> Seq(Byte)]
    BY <1>1
  <2> HIDE DEF parts
  <2> QED
    BY <2>1
<1> HIDE DEF parts
<1>3. PICK p, q : p = write_u24_le(seq) /\ q = FlattenSeq(parts)
  OBVIOUS
<1>4. p \in Seq(Byte) /\ q \in Seq(Byte)
  <2>1. seq \in Nat
    BY PacketAssumption, ThreeBytesNat
  <2> QED
    BY <1>2, <1>3, <2>1, IntegerBytes, FlattenSeqProperty DEF IsBytes
<1>5. <<DatagramId>> \o p \in Seq(Byte)
  <2>1. DatagramId \in Byte
    BY DEF DatagramId, Byte
  <2> QED
    BY <1>4, <2>1, OneMoreByte
<1>6. (<<DatagramId>> \o p) \o q \in Seq(Byte)
  BY <1>4, <1>5, Concatenation
<1> QED
  BY <1>3, <1>6 DEF encode_datagram, parts

(***************************************************************************)
(* The inductive invariant.                                                *)
(***************************************************************************)

\* The list stands for the numbers inserted, no more and no less: insert lost
\* none of them and never ran two ranges together across a number that did not
\* arrive.
ListedExactly == inserted = Covered(list)

\* What went into a packet, and the packet: Origin(kind, args, full).
Origin(kind, args, full) ==
    \/ /\ kind = "ack"
       /\ \E l \in AckList : l # <<>> /\ args = Covered(l) /\ full = encode_ack(l)
    \/ /\ kind \in Kinds
       /\ \E packet \in Encode(kind) : args = packet.args /\ full = packet.bytes
    \/ /\ kind = "datagram"
       /\ \E seq \in DatagramSeqs, n \in {1, 2} : \E frames \in [1 .. n -> FramesSent] :
             /\ args = [seq |-> seq, frames |-> frames]
             /\ full = encode_datagram(seq, [i \in DOMAIN frames |-> EncodeFrame(frames[i])])

\* What arrives of it.
Arrived(full, bytes, whole) ==
    \/ whole = TRUE /\ bytes = full
    \/ whole = FALSE /\ \E n \in 0 .. Len(full) - 1 : bytes = SubSeq(full, 1, n)

\* The packet on the wire is one of those that are sent, or its beginning.
WireInv ==
    \/ wire = <<>>
    \/ \E kind, args, full, bytes, whole :
          /\ Origin(kind, args, full)
          /\ Arrived(full, bytes, whole)
          /\ wire = <<[kind |-> kind, args |-> args, bytes |-> bytes, whole |-> whole]>>

\* The list is compressed and stands for the numbers inserted, and the wire
\* holds what was sent.
Inv == list \in AckList /\ ListedExactly /\ WireInv

\* Whatever was sent is bytes.
LEMMA OriginBytes ==
    ASSUME NEW kind, NEW args, NEW full, Origin(kind, args, full)
    PROVE  full \in Seq(Byte)
<1>1. CASE kind = "ack" /\ \E l \in AckList : l # <<>> /\ args = Covered(l) /\ full = encode_ack(l)
  BY <1>1, AckListElements, EncodeAckBytes
<1>2. CASE kind \in Kinds /\ \E packet \in Encode(kind) : args = packet.args /\ full = packet.bytes
  BY <1>2, EncodeBytes
<1>3. CASE /\ kind = "datagram"
           /\ \E seq \in DatagramSeqs, n \in {1, 2} : \E frames \in [1 .. n -> FramesSent] :
                 /\ args = [seq |-> seq, frames |-> frames]
                 /\ full = encode_datagram(seq, [i \in DOMAIN frames |-> EncodeFrame(frames[i])])
  <2>1. PICK seq \in DatagramSeqs, n \in {1, 2} : \E frames \in [1 .. n -> FramesSent] :
                 full = encode_datagram(seq, [i \in DOMAIN frames |-> EncodeFrame(frames[i])])
    BY <1>3
  <2>2. PICK frames \in [1 .. n -> FramesSent] :
                 full = encode_datagram(seq, [i \in DOMAIN frames |-> EncodeFrame(frames[i])])
    BY <2>1
  <2> QED
    BY <2>2, DatagramBytes
<1> QED
  BY <1>1, <1>2, <1>3 DEF Origin

\* The invariant holds with an empty list and nothing on the wire.
LEMMA InitInv == Init => Inv
<1> SUFFICES ASSUME Init PROVE Inv
  OBVIOUS
<1>1. <<>> \in AckList
  BY EmptySeq DEF AckList, IsCompressed
<1>2. Covered(<<>>) = {}
  BY DEF Covered, Holds
<1> QED
  BY <1>1, <1>2 DEF Init, Inv, ListedExactly, WireInv

\* Every action keeps the invariant.
LEMMA NextInv == Inv /\ [Next]_vars => Inv'
<1> SUFFICES ASSUME Inv, [Next]_vars PROVE Inv'
  OBVIOUS
<1>1. list \in AckList /\ inserted = Covered(list) /\ WireInv
  BY DEF Inv, ListedExactly
<1>2. <<>> \in AckList /\ Covered(<<>>) = {}
  BY EmptySeq DEF AckList, IsCompressed, Covered, Holds
<1>3. ASSUME NEW seq \in u24, InsertOne(seq) PROVE Inv'
  <2>1. list' = AckInsert(list, seq) /\ inserted' = inserted \cup {seq} /\ wire' = wire
    BY <1>3 DEF InsertOne
  <2>2. list' \in AckList /\ \A x \in u24 : Holds(list', x) <=> Holds(list, x) \/ x = seq
    BY <1>1, <2>1, AckInsertProperty
  <2>3. inserted' = Covered(list')
    BY <1>1, <2>1, <2>2 DEF Covered
  <2> QED
    BY <1>1, <2>1, <2>2, <2>3 DEF Inv, ListedExactly, WireInv
<1>4. ASSUME NEW range \in AckRange, InsertRange(range) PROVE Inv'
  <2>1. /\ list' = InsertRecord(list, range)
        /\ inserted' = inserted \cup Arc(range.start, range.end) /\ wire' = wire
    BY <1>4 DEF InsertRange
  <2>2. list' \in AckList /\ \A x \in u24 : Holds(list', x) <=> Holds(list, x) \/ InRange(range, x)
    BY <1>1, <2>1, InsertRecordProperty
  <2>3. inserted' = Covered(list')
    BY <1>1, <2>1, <2>2, ArcProperty DEF Covered
  <2> QED
    BY <1>1, <2>1, <2>2, <2>3 DEF Inv, ListedExactly, WireInv
<1>5. ASSUME NEW kind, NEW args, NEW full, Origin(kind, args, full), wire' = Sent(kind, args, full)
      PROVE  WireInv'
  <2>1. Arrived(full, full, TRUE)
    BY DEF Arrived
  <2>2. wire' = <<[kind |-> kind, args |-> args, bytes |-> full, whole |-> TRUE]>>
    BY <1>5 DEF Sent
  <2> QED
    BY <1>5, <2>1, <2>2, Zenon DEF WireInv
<1>6. CASE FlushAcks
  <2>1. list # <<>> /\ list' = <<>> /\ inserted' = {} /\ wire' = Sent("ack", inserted, encode_ack(list))
    BY <1>6 DEF FlushAcks
  <2>2. Origin("ack", inserted, encode_ack(list))
    BY <1>1, <2>1 DEF Origin
  <2>3. WireInv'
    BY <1>5, <2>1, <2>2
  <2> QED
    BY <1>2, <2>1, <2>3 DEF Inv, ListedExactly
<1>7. ASSUME NEW kind \in Kinds, SendControl(kind) PROVE Inv'
  <2>1. PICK packet \in Encode(kind) : wire' = Sent(kind, packet.args, packet.bytes)
    BY <1>7 DEF SendControl
  <2>2. Origin(kind, packet.args, packet.bytes)
    BY DEF Origin
  <2>3. WireInv'
    BY <1>5, <2>1, <2>2
  <2>4. list' = list /\ inserted' = inserted
    BY <1>7 DEF SendControl
  <2> QED
    BY <1>1, <2>3, <2>4 DEF Inv, ListedExactly
<1>8. ASSUME NEW seq \in DatagramSeqs, NEW n \in {1, 2}, NEW frames \in [1 .. n -> FramesSent],
             SendDatagram(seq, frames)
      PROVE  Inv'
  <2> DEFINE args == [seq |-> seq, frames |-> frames]
             full == encode_datagram(seq, [i \in DOMAIN frames |-> EncodeFrame(frames[i])])
  <2>1. wire' = Sent("datagram", args, full) /\ list' = list /\ inserted' = inserted
    BY <1>8 DEF SendDatagram
  <2>2. Origin("datagram", args, full)
    BY DEF Origin
  <2> HIDE DEF args, full
  <2>3. WireInv'
    BY <1>5, <2>1, <2>2
  <2> QED
    BY <1>1, <2>1, <2>3 DEF Inv, ListedExactly
<1>9. ASSUME NEW n \in 0 .. (IF wire = <<>> THEN 0 ELSE Len(wire[1].bytes)), CutShort(n)
      PROVE  Inv'
  <2>1. /\ wire # <<>> /\ wire[1].whole /\ n < Len(wire[1].bytes)
        /\ wire' = <<[kind |-> wire[1].kind, args |-> wire[1].args,
                      bytes |-> SubSeq(wire[1].bytes, 1, n), whole |-> FALSE]>>
        /\ list' = list /\ inserted' = inserted
    BY <1>9 DEF CutShort
  <2>2. PICK kind, args, full, bytes, whole :
          /\ Origin(kind, args, full)
          /\ Arrived(full, bytes, whole)
          /\ wire = <<[kind |-> kind, args |-> args, bytes |-> bytes, whole |-> whole]>>
    BY <1>1, <2>1 DEF WireInv
  <2>3. wire[1] = [kind |-> kind, args |-> args, bytes |-> bytes, whole |-> whole]
    BY <2>2
  <2>4. whole = TRUE /\ bytes = full
    BY <2>1, <2>2, <2>3 DEF Arrived
  <2>5. wire' = <<[kind |-> kind, args |-> args, bytes |-> SubSeq(full, 1, n), whole |-> FALSE]>>
    BY <2>1, <2>3, <2>4
  <2>6. n \in 0 .. Len(full) - 1
    <3>1. Len(full) \in Nat
      BY <2>2, OriginBytes, LenProperties
    <3> QED
      BY <2>1, <2>3, <2>4, <3>1
  <2>7. Arrived(full, SubSeq(full, 1, n), FALSE)
    BY <2>6 DEF Arrived
  <2>8. WireInv'
    BY <2>2, <2>5, <2>7, Zenon DEF WireInv
  <2> QED
    BY <1>1, <2>1, <2>8 DEF Inv, ListedExactly
<1>10. CASE Arrive
  BY <1>1, <1>10 DEF Arrive, Inv, ListedExactly, WireInv
<1>11. CASE UNCHANGED vars
  BY <1>1, <1>11 DEF vars, Inv, ListedExactly, WireInv
<1> QED
  BY <1>3, <1>4, <1>6, <1>7, <1>8, <1>9, <1>10, <1>11 DEF Next

\* The invariant always holds.
LEMMA Invariance == Spec => []Inv
BY InitInv, NextInv, PTL DEF Spec

\* There is one packet on the wire at most, and it is bytes.
LEMMA WireBytes ==
    ASSUME WireInv
    PROVE  \A i \in DOMAIN wire : i = 1 /\ wire[i].bytes \in Seq(Byte)
<1>1. CASE wire = <<>>
  BY <1>1
<1>2. CASE wire # <<>>
  <2>1. PICK kind, args, full, bytes, whole :
          /\ Origin(kind, args, full)
          /\ Arrived(full, bytes, whole)
          /\ wire = <<[kind |-> kind, args |-> args, bytes |-> bytes, whole |-> whole]>>
    BY <1>2 DEF WireInv
  <2>2. full \in Seq(Byte) /\ Len(full) \in Nat
    BY <2>1, OriginBytes, LenProperties
  <2>3. \A n \in 0 .. Len(full) - 1 : SubSeq(full, 1, n) \in Seq(Byte)
    BY <2>2, SubSeqProperties
  <2>4. bytes \in Seq(Byte)
    BY <2>1, <2>2, <2>3 DEF Arrived
  <2> QED
    BY <2>1, <2>4
<1> QED
  BY <1>1, <1>2

\* The types of the codec's state, for every circle and every choice of fields.
THEOREM TypeCorrect == Spec => []TypeOK
<1>1. Inv => TypeOK
  <2> SUFFICES ASSUME Inv PROVE TypeOK
    OBVIOUS
  <2>1. list \in Seq(AckRange)
    BY AckListElements DEF Inv
  <2>2. inserted \subseteq u24
    BY DEF Inv, ListedExactly, Covered
  <2> QED
    BY <2>1, <2>2, WireBytes DEF Inv, TypeOK
<1> QED
  BY Invariance, <1>1, PTL

\* insert of src/reliability/ack.rs keeps the list the shortest sorted one,
\* whatever the order of arrival and the size of the circle, and so does
\* decode_ack_nack with whatever ranges a peer sends.
THEOREM ListCompressed == Spec => []Compressed
<1>1. Inv => Compressed
  BY DEF Inv, AckList, Compressed
<1> QED
  BY Invariance, <1>1, PTL

\* The list of insert stands for exactly the numbers inserted.
THEOREM ListExact == Spec => []ListedExactly
<1>1. Inv => ListedExactly
  BY DEF Inv
<1> QED
  BY Invariance, <1>1, PTL

(***************************************************************************)
(* Reading never runs past the end.                                        *)
(*                                                                         *)
(* Sound(c, data, credit): the cursor has failed in good order, or at      *)
(* least credit bytes are left.  Every step of a decoder asks for so much  *)
(* credit and leaves so much; a list of steps is Safe when some assignment *)
(* of credits, from 0 to 0, suits it.                                      *)
(***************************************************************************)

\* A sequence of values of any kinds.
IsSequence(s) == \E V : s \in Seq(V)

\* Appending to a sequence of values of any kinds.
LEMMA AppendSequence ==
    ASSUME NEW s, IsSequence(s), NEW e
    PROVE  /\ IsSequence(Append(s, e)) /\ Last(Append(s, e)) = e
           /\ Len(s) \in Nat /\ Len(Append(s, e)) = Len(s) + 1
           /\ Append(s, e)[Len(s) + 1] = e
           /\ \A i \in 1 .. Len(s) : Append(s, e)[i] = s[i]
<1>1. PICK V : s \in Seq(V)
  BY DEF IsSequence
<1>2. PICK W : W = V \cup {e}
  OBVIOUS
<1>3. s \in Seq(W) /\ e \in W
  BY <1>1, <1>2
<1>4. /\ Append(s, e) \in Seq(W) /\ Len(s) \in Nat /\ Len(Append(s, e)) = Len(s) + 1
      /\ \A i \in 1 .. Len(s) : Append(s, e)[i] = s[i]
      /\ Append(s, e)[Len(s) + 1] = e
  BY <1>3
<1> QED
  BY <1>4 DEF IsSequence, Last

\* The empty sequence is one of them.
LEMMA NoneIsSequence == IsSequence(<<>>)
<1>1. <<>> \in Seq({})
  BY EmptySeq
<1> QED
  BY <1>1 DEF IsSequence

\* The next n bytes, when they are there.
LEMMA NextBytesProperty ==
    ASSUME NEW data \in Seq(Byte), NEW c, c.data = data, c.at \in Nat, NEW n \in Nat,
           c.at + n =< Len(data)
    PROVE  /\ IsBytes(NextBytes(c, n), n)
           /\ \A j \in 1 .. n : NextBytes(c, n)[j] = data[c.at + j]
<1>1. PICK a : a = c.at
  OBVIOUS
<1>2. a \in Nat /\ a + n =< Len(data) /\ Len(data) \in Nat
  BY <1>1, LenProperties
<1>3. a + 1 \in 1 .. Len(data) + 1 /\ a + n \in a .. Len(data) /\ (a + n) - (a + 1) + 1 = n
  BY <1>2
<1>4. /\ SubSeq(data, a + 1, a + n) \in Seq(Byte)
      /\ Len(SubSeq(data, a + 1, a + n)) = n
      /\ \A j \in 1 .. n : SubSeq(data, a + 1, a + n)[j] = data[a + j]
  <2>1. \A k \in (a + 1) .. (a + n) : data[k] \in Byte
    BY <1>2, ElementOfSeq
  <2> QED
    BY <1>2, <2>1
<1> QED
  BY <1>1, <1>4 DEF NextBytes, IsBytes

\* Two bytes read as a u16.
LEMMA GetU16 ==
    ASSUME NEW b, IsBytes(b, 2)
    PROVE  get_u16(b) \in Nat /\ get_u16(b) < 65536
<1>1. b[1] \in Byte /\ b[2] \in Byte
  BY ElementOfSeq DEF IsBytes
<1>2. PICK x, y : x = b[1] /\ y = b[2]
  OBVIOUS
<1>3. x \in Int /\ y \in Int /\ 0 =< x /\ x =< 255 /\ 0 =< y /\ y =< 255
  BY <1>1, <1>2 DEF Byte
<1> QED
  BY <1>2, <1>3 DEF get_u16

\* f is the loop of Read, n steps of it.
ReadLoop(f, c, steps, n) ==
    f = [i \in 0 .. n |-> IF i = 0 THEN c ELSE ReadStep(f[i - 1], steps[i])]

\* There is such a function.
LEMMA ReadLoopExists ==
    ASSUME NEW c, NEW steps, NEW n \in Nat
    PROVE  \E f : ReadLoop(f, c, steps, n)
<1> DEFINE E == {m \in 0 .. n : \E f : ReadLoop(f, c, steps, m)}
<1>1. 0 \in E
  <2>1. ReadLoop([k \in 0 .. 0 |-> c], c, steps, 0)
    BY DEF ReadLoop
  <2> QED
    BY <2>1
<1>2. ASSUME NEW m \in 0 .. n - 1, m \in E PROVE m + 1 \in E
  <2>1. PICK f : ReadLoop(f, c, steps, m)
    BY <1>2
  <2> DEFINE g == [k \in 0 .. m + 1 |-> IF k = m + 1 THEN ReadStep(f[m], steps[m + 1]) ELSE f[k]]
  <2>2. \A k \in 1 .. m + 1 : g[k - 1] = f[k - 1]
    OBVIOUS
  <2>3. \A k \in 0 .. m + 1 : g[k] = IF k = 0 THEN c ELSE ReadStep(g[k - 1], steps[k])
    BY <2>1, <2>2 DEF ReadLoop
  <2>4. ReadLoop(g, c, steps, m + 1)
    BY <2>3 DEF ReadLoop
  <2> QED
    BY <2>4
<1> HIDE DEF E
<1>3. \A m \in 0 .. n : m \in E
  BY <1>1, <1>2, UpTo
<1> QED
  BY <1>3 DEF E

\* Read goes through the steps one by one.
LEMMA ReadTurns ==
    ASSUME NEW c, NEW steps, Len(steps) \in Nat
    PROVE  \E r : /\ r[0] = c
                  /\ \A i \in 1 .. Len(steps) : r[i] = ReadStep(r[i - 1], steps[i])
                  /\ Read(c, steps) = r[Len(steps)]
<1>1. PICK n \in Nat : n = Len(steps)
  OBVIOUS
<1> DEFINE r == CHOOSE f : ReadLoop(f, c, steps, n)
<1>2. ReadLoop(r, c, steps, n)
  BY ReadLoopExists
<1>3. Read(c, steps) = r[n]
  BY <1>1 DEF Read, ReadLoop
<1> HIDE DEF r
<1>4. r[0] = c /\ \A i \in 1 .. n : r[i] = ReadStep(r[i - 1], steps[i])
  BY <1>2 DEF ReadLoop
<1> QED
  BY <1>1, <1>3, <1>4

\* The cursor has failed in good order, or credit bytes are left.
Sound(c, data, credit) ==
    \/ c.status = "error"
    \/ /\ c.status = "ok" /\ c.data = data
       /\ c.at \in Nat /\ c.at + credit =< Len(data) /\ IsSequence(c.out)

\* The steps of decoders.
StepOps == {"need", "id", "magic", "take", "skip", "addr", "unused_addr", "data", "length"}

\* The credit a step asks for, and what it leaves.
Affords(s, before, after) ==
    /\ s.op \in StepOps /\ s.n \in Nat
    /\ s.op = "need" => after =< before \/ after =< s.n
    /\ s.op = "id" => after + 1 =< before
    /\ s.op = "magic" => after + 16 =< before
    /\ s.op \in {"take", "skip"} => after + s.n =< before
    /\ s.op \in {"addr", "unused_addr"} => after = 0
    /\ s.op = "data" => before >= 2 /\ after = 0
    /\ s.op = "length" => after =< before

\* Skipping or taking bytes that are there uses up their credit.
LEMMA SkipSound ==
    ASSUME NEW data \in Seq(Byte), NEW c, NEW credit \in Nat, Sound(c, data, credit),
           c.status = "ok", NEW n \in Nat, NEW after \in Nat, after + n =< credit
    PROVE  Sound(Skip(c, n), data, after) /\ Sound(Take(c, n), data, after)
           /\ Skip(c, n).status = "ok" /\ Take(c, n).status = "ok"
<1>1. Len(data) \in Nat /\ c.data = data /\ c.at \in Nat /\ c.at + credit =< Len(data)
  BY LenProperties DEF Sound
<1>2. ~ (Remaining(c) < n) /\ c.at + n \in Nat /\ (c.at + n) + after =< Len(data)
  BY <1>1 DEF Remaining
<1>3. Skip(c, n) = Advance(c, n, c.out) /\ Take(c, n) = Advance(c, n, Append(c.out, NextBytes(c, n)))
  BY <1>2 DEF Skip, Take
<1>4. ASSUME NEW out, IsSequence(out)
      PROVE  Sound(Advance(c, n, out), data, after) /\ Advance(c, n, out).status = "ok"
  BY <1>1, <1>2, <1>4 DEF Advance, Sound
<1>5. IsSequence(c.out) /\ IsSequence(Append(c.out, NextBytes(c, n)))
  BY AppendSequence DEF Sound
<1> QED
  BY <1>3, <1>4, <1>5

\* read_address checks the length that the address version asks for.
LEMMA AddressSound ==
    ASSUME NEW data \in Seq(Byte), NEW c, Sound(c, data, 0), c.status = "ok"
    PROVE  Sound(read_address(c), data, 0)
<1>1. Len(data) \in Nat /\ c.data = data /\ c.at \in Nat /\ c.at =< Len(data)
  BY LenProperties DEF Sound
<1>2. Sound(Refuse(c), data, 0)
  BY DEF Sound, Refuse, Stop
<1>3. ASSUME NEW n \in {4, 16} PROVE Sound(AddressBody(c, n), data, 0)
  <2>1. CASE Remaining(c) < 1 + n + 2
    BY <1>2, <2>1 DEF AddressBody
  <2>2. CASE ~ (Remaining(c) < 1 + n + 2)
    <3>1. c.at + (1 + n + 2) \in Nat /\ (c.at + (1 + n + 2)) + 0 =< Len(data)
      BY <1>1, <2>2 DEF Remaining
    <3>2. PICK v : AddressBody(c, n) = Advance(c, 1 + n + 2, Append(c.out, v))
      BY <2>2 DEF AddressBody
    <3>3. IsSequence(Append(c.out, v))
      BY AppendSequence DEF Sound
    <3> QED
      BY <1>1, <3>1, <3>2, <3>3 DEF Advance, Sound
  <2> QED
    BY <2>1, <2>2
<1> QED
  BY <1>2, <1>3 DEF read_address

\* A step that can afford it leaves the cursor sound.
LEMMA StepSound ==
    ASSUME NEW data \in Seq(Byte), NEW c, NEW s, NEW before \in Nat, NEW after \in Nat,
           Sound(c, data, before), Affords(s, before, after)
    PROVE  Sound(ReadStep(c, s), data, after)
<1>1. CASE c.status # "ok"
  BY <1>1 DEF ReadStep, Sound
<1>2. CASE c.status = "ok"
  <2>1. /\ Len(data) \in Nat /\ c.data = data /\ c.at \in Nat /\ c.at + before =< Len(data)
        /\ s.n \in Nat /\ IsSequence(c.out)
    BY <1>2, LenProperties DEF Sound, Affords
  <2>2. Sound(Refuse(c), data, after)
    BY DEF Sound, Refuse, Stop
  <2>3. CASE s.op = "need"
    <3>1. ReadStep(c, s) = IF Remaining(c) < s.n THEN Refuse(c) ELSE c
      BY <1>2, <2>3 DEF ReadStep
    <3>2. ~ (Remaining(c) < s.n) => Sound(c, data, after)
      BY <1>2, <2>1, <2>3 DEF Remaining, Affords, Sound
    <3> QED
      BY <2>2, <3>1, <3>2
  <2>4. CASE s.op = "id"
    <3>1. after + 1 =< before
      BY <2>4 DEF Affords
    <3>2. Sound(Skip(c, 1), data, after)
      BY <1>2, <3>1, SkipSound
    <3> QED
      BY <1>2, <2>2, <2>4, <3>2 DEF ReadStep
  <2>5. CASE s.op = "magic"
    <3>1. after + 16 =< before
      BY <2>5 DEF Affords
    <3>2. Sound(Skip(c, 16), data, after)
      BY <1>2, <3>1, SkipSound
    <3> QED
      BY <1>2, <2>2, <2>5, <3>2 DEF ReadStep
  <2>6. CASE s.op = "take"
    <3>1. after + s.n =< before
      BY <2>6 DEF Affords
    <3>2. Sound(Take(c, s.n), data, after)
      BY <1>2, <2>1, <3>1, SkipSound
    <3> QED
      BY <1>2, <2>6, <3>2 DEF ReadStep
  <2>7. CASE s.op = "skip"
    <3>1. after + s.n =< before
      BY <2>7 DEF Affords
    <3>2. Sound(Skip(c, s.n), data, after)
      BY <1>2, <2>1, <3>1, SkipSound
    <3> QED
      BY <1>2, <2>7, <3>2 DEF ReadStep
  <2>8. CASE s.op \in {"addr", "unused_addr"}
    <3>1. after = 0 /\ Sound(c, data, 0)
      BY <1>2, <2>1, <2>8 DEF Affords, Sound
    <3>2. Sound(read_address(c), data, 0)
      BY <1>2, <3>1, AddressSound
    <3>3. Sound(Advance(read_address(c), 0, c.out), data, 0)
      <4>1. PICK a : a = read_address(c)
        OBVIOUS
      <4>2. Sound(Advance(a, 0, c.out), data, 0)
        BY <2>1, <3>2, <4>1 DEF Advance, Sound
      <4> QED
        BY <4>1, <4>2
    <3> QED
      BY <1>2, <2>8, <3>1, <3>2, <3>3 DEF ReadStep
  <2>9. CASE s.op = "data"
    <3>1. before >= 2 /\ after = 0
      BY <2>9 DEF Affords
    <3>2. PICK size : size = Take(c, 2)
      OBVIOUS
    <3>3. Sound(size, data, 0) /\ size.status = "ok"
      BY <1>2, <3>1, <3>2, SkipSound
    <3>4. PICK n : n = get_u16(Last(size.out))
      OBVIOUS
    <3>5. ReadData(c) = IF Remaining(size) < n THEN Refuse(c) ELSE Take(Advance(size, 0, c.out), n)
      BY <3>2, <3>3, <3>4 DEF ReadData
    <3>6. n \in Nat
      <4>1. c.at + 2 =< Len(data) /\ ~ (Remaining(c) < 2)
        BY <2>1, <3>1 DEF Remaining
      <4>2. IsBytes(NextBytes(c, 2), 2)
        BY <2>1, <4>1, NextBytesProperty
      <4>3. size.out = Append(c.out, NextBytes(c, 2))
        BY <3>2, <4>1 DEF Take, Advance
      <4>4. Last(size.out) = NextBytes(c, 2)
        BY <2>1, <4>3, AppendSequence
      <4> QED
        BY <3>4, <4>2, <4>4, GetU16
    <3>7. ASSUME ~ (Remaining(size) < n)
          PROVE  Sound(Take(Advance(size, 0, c.out), n), data, 0)
      <4>1. PICK d : d = Advance(size, 0, c.out)
        OBVIOUS
      <4>2. d.status = "ok" /\ Sound(d, data, n)
        <5>1. size.data = data /\ size.at \in Nat /\ size.at + n =< Len(data) /\ size.at + 0 = size.at
          BY <2>1, <3>3, <3>6, <3>7 DEF Sound, Remaining
        <5> QED
          BY <2>1, <3>3, <4>1, <5>1 DEF Advance, Sound
      <4>3. Sound(Take(d, n), data, 0)
        BY <3>6, <4>2, SkipSound
      <4> QED
        BY <4>1, <4>3
    <3> QED
      BY <1>2, <2>2, <2>9, <3>1, <3>5, <3>7 DEF ReadStep
  <2>10. CASE s.op = "length"
    <3>1. after =< before
      BY <2>10 DEF Affords
    <3>2. ASSUME NEW v PROVE Sound(Advance(c, 0, Append(c.out, v)), data, after)
      <4>1. IsSequence(Append(c.out, v))
        BY <2>1, AppendSequence
      <4> QED
        BY <1>2, <2>1, <3>1, <4>1 DEF Advance, Sound
    <3> QED
      BY <1>2, <2>10, <3>2 DEF ReadStep
  <2> QED
    BY <2>3, <2>4, <2>5, <2>6, <2>7, <2>8, <2>9, <2>10 DEF Affords, StepOps
<1> QED
  BY <1>1, <1>2

\* credit suits the steps.
Suits(credit, steps) ==
    /\ credit \in [0 .. Len(steps) -> Nat]
    /\ credit[0] = 0 /\ credit[Len(steps)] = 0
    /\ \A i \in 1 .. Len(steps) : Affords(steps[i], credit[i - 1], credit[i])

\* A step: what it does, and with how many bytes.
Steps == [op : StepOps, n : Nat]

\* Some assignment of credits suits the steps.
Safe(steps) == steps \in Seq(Steps) /\ \E credit : Suits(credit, steps)

\* Safe steps never read past the end, whatever the bytes.
LEMMA ReadSound ==
    ASSUME NEW data \in Seq(Byte), NEW c, NEW steps, Sound(c, data, 0), Safe(steps)
    PROVE  Sound(Read(c, steps), data, 0)
<1>1. PICK n : n = Len(steps)
  OBVIOUS
<1>2. n \in Nat
  BY <1>1, LenProperties DEF Safe
<1>3. PICK credit : Suits(credit, steps)
  BY DEF Safe
<1>4. PICK r : /\ r[0] = c
               /\ \A i \in 1 .. n : r[i] = ReadStep(r[i - 1], steps[i])
               /\ Read(c, steps) = r[n]
  BY <1>1, <1>2, ReadTurns
<1> DEFINE E == {i \in 0 .. n : Sound(r[i], data, credit[i])}
<1>5. 0 \in E
  BY <1>2, <1>3, <1>4 DEF Suits
<1>6. ASSUME NEW i \in 0 .. n - 1, i \in E PROVE i + 1 \in E
  <2>1. i + 1 \in 1 .. n /\ i + 1 \in 0 .. n /\ (i + 1) - 1 = i /\ i \in 0 .. n
    BY <1>2
  <2>2. /\ credit[i] \in Nat /\ credit[i + 1] \in Nat
        /\ Affords(steps[i + 1], credit[i], credit[i + 1])
    BY <1>1, <1>3, <2>1 DEF Suits
  <2>3. r[i + 1] = ReadStep(r[i], steps[i + 1])
    BY <1>4, <2>1
  <2>4. Sound(r[i + 1], data, credit[i + 1])
    BY <1>6, <2>2, <2>3, StepSound
  <2> QED
    BY <2>1, <2>4
<1> HIDE DEF E
<1>7. \A i \in 0 .. n : i \in E
  BY <1>2, <1>5, <1>6, UpTo
<1> QED
  BY <1>1, <1>2, <1>3, <1>4, <1>7 DEF E, Suits

\* One list of safe steps after the other.
LEMMA SafeConcat ==
    ASSUME NEW s, NEW t, Safe(s), Safe(t)
    PROVE  Safe(s \o t)
<1>3. s \in Seq(Steps) /\ t \in Seq(Steps)
  BY DEF Safe
<1>4. PICK m, n : m = Len(s) /\ n = Len(t)
  OBVIOUS
<1>5. /\ s \o t \in Seq(Steps) /\ Len(s \o t) = m + n /\ m \in Nat /\ n \in Nat
      /\ \A j \in 1 .. m : (s \o t)[j] = s[j]
      /\ \A j \in 1 .. n : (s \o t)[m + j] = t[j]
  BY <1>3, <1>4, Concatenation
<1>6. PICK a, b : Suits(a, s) /\ Suits(b, t)
  BY DEF Safe
<1>7. /\ a \in [0 .. m -> Nat] /\ a[0] = 0 /\ a[m] = 0
      /\ \A i \in 1 .. m : Affords(s[i], a[i - 1], a[i])
      /\ b \in [0 .. n -> Nat] /\ b[0] = 0 /\ b[n] = 0
      /\ \A i \in 1 .. n : Affords(t[i], b[i - 1], b[i])
  BY <1>4, <1>6 DEF Suits
<1> DEFINE credit == [i \in 0 .. m + n |-> IF i =< m THEN a[i] ELSE b[i - m]]
<1>8. /\ credit \in [0 .. m + n -> Nat]
      /\ \A i \in 0 .. m : credit[i] = a[i]
      /\ \A i \in 0 .. n : credit[m + i] = b[i]
  <2>1. ASSUME NEW i \in 0 .. n PROVE credit[m + i] = b[i]
    <3>1. CASE i = 0
      BY <1>5, <1>7, <3>1
    <3>2. CASE i # 0
      <4>1. m + i \in 0 .. m + n /\ ~ (m + i =< m) /\ (m + i) - m = i
        BY <1>5, <3>2
      <4> QED
        BY <4>1
    <3> QED
      BY <3>1, <3>2
  <2>2. ASSUME NEW i \in 0 .. m PROVE credit[i] = a[i]
    BY <1>5
  <2>3. ASSUME NEW i \in 0 .. m + n PROVE (IF i =< m THEN a[i] ELSE b[i - m]) \in Nat
    <3>1. CASE i =< m
      BY <1>5, <1>7, <3>1
    <3>2. CASE ~ (i =< m)
      <4>1. i - m \in 0 .. n
        BY <1>5, <3>2
      <4> QED
        BY <1>7, <3>2, <4>1
    <3> QED
      BY <3>1, <3>2
  <2> QED
    BY <2>1, <2>2, <2>3
<1> HIDE DEF credit
<1>9. ASSUME NEW i \in 1 .. m + n PROVE Affords((s \o t)[i], credit[i - 1], credit[i])
  <2>1. CASE i =< m
    <3>1. i \in 1 .. m /\ i - 1 \in 0 .. m /\ i \in 0 .. m
      BY <1>5, <2>1
    <3> QED
      BY <1>5, <1>7, <1>8, <3>1
  <2>2. CASE ~ (i =< m)
    <3>1. PICK j : j = i - m
      OBVIOUS
    <3>2. j \in 1 .. n /\ i = m + j /\ i - 1 = m + (j - 1) /\ j - 1 \in 0 .. n /\ j \in 0 .. n
      BY <1>5, <2>2, <3>1
    <3>3. (s \o t)[i] = t[j] /\ credit[i - 1] = b[j - 1] /\ credit[i] = b[j]
      BY <1>5, <1>8, <3>2
    <3>4. Affords(t[j], b[j - 1], b[j])
      BY <1>7, <3>2
    <3> QED
      BY <3>3, <3>4
  <2> QED
    BY <2>1, <2>2
<1>10. credit[0] = 0 /\ credit[m + n] = 0
  BY <1>5, <1>7, <1>8
<1>11. Suits(credit, s \o t)
  BY <1>5, <1>8, <1>9, <1>10 DEF Suits
<1> QED
  BY <1>5, <1>11 DEF Safe

\* No steps, and reading n bytes after asking for them.
LEMMA SafeReads ==
    ASSUME NEW n \in Nat
    PROVE  Safe(<<>>) /\ Safe(<<Need(n), Bytes(n)>>)
<1> USE DEF Need, Bytes
<1>1. Safe(<<>>)
  <2> DEFINE credit == [i \in 0 .. 0 |-> 0]
  <2>1. credit \in [0 .. 0 -> Nat] /\ credit[0] = 0 /\ Len(<<>>) = 0 /\ <<>> \in Seq(Steps)
    BY EmptySeq
  <2>2. Suits(credit, <<>>)
    BY <2>1 DEF Suits
  <2> QED
    BY <2>1, <2>2 DEF Safe
<1>2. Safe(<<Need(n), Bytes(n)>>)
  <2> DEFINE steps == <<Need(n), Bytes(n)>>
             credit == [i \in 0 .. 2 |-> IF i = 1 THEN n ELSE 0]
  <2>1. steps \in Seq(Steps) /\ Len(steps) = 2
    BY DEF Steps, StepOps
  <2>2. credit \in [0 .. 2 -> Nat] /\ credit[0] = 0 /\ credit[2] = 0
    OBVIOUS
  <2>3. \A i \in 1 .. 2 : Affords(steps[i], credit[i - 1], credit[i])
    BY DEF Affords, StepOps
  <2>4. Suits(credit, steps)
    BY <2>1, <2>2, <2>3 DEF Suits
  <2> HIDE DEF steps, credit
  <2> QED
    BY <2>1, <2>4 DEF Safe, steps
<1> QED
  BY <1>1, <1>2

\* Every decoder of a control packet checks before it reads.
LEMMA DecodersSafe ==
    ASSUME NEW kind \in Kinds
    PROVE  Safe(Packet[kind].read)
<1> USE DEF Need, Bytes, Unused, Id, MagicAt, Addr, UnusedAddr, Data, Length, I64, U16, U8
<1>1. Safe(<<Need(1 + 8 + 16 + 8), Id(1), I64, MagicAt(9), I64>>)
  <2> DEFINE steps == <<Need(1 + 8 + 16 + 8), Id(1), I64, MagicAt(9), I64>>
             credit == [i \in 0 .. 5 |->
                               IF i = 1 THEN 33 ELSE IF i = 2 THEN 32 ELSE
                               IF i = 3 THEN 24 ELSE IF i = 4 THEN 8 ELSE 0]
  <2>1. steps \in Seq(Steps) /\ Len(steps) = 5
    BY DEF Steps, StepOps
  <2>2. credit \in [0 .. 5 -> Nat] /\ credit[0] = 0 /\ credit[5] = 0
    OBVIOUS
  <2>3. \A i \in 1 .. 5 : Affords(steps[i], credit[i - 1], credit[i])
    BY DEF Affords, StepOps
  <2>4. Suits(credit, steps)
    BY <2>1, <2>2, <2>3 DEF Suits
  <2> HIDE DEF steps, credit
  <2> QED
    BY <2>1, <2>4 DEF Safe, steps
<1>2. Safe(<<Need(1 + 8 + 8 + 16 + 2), Id(28), I64, I64, MagicAt(17), Data>>)
  <2> DEFINE steps == <<Need(1 + 8 + 8 + 16 + 2), Id(28), I64, I64, MagicAt(17), Data>>
             credit == [i \in 0 .. 6 |->
                               IF i = 1 THEN 35 ELSE IF i = 2 THEN 34 ELSE
                               IF i = 3 THEN 26 ELSE IF i = 4 THEN 18 ELSE IF i = 5 THEN 2 ELSE 0]
  <2>1. steps \in Seq(Steps) /\ Len(steps) = 6
    BY DEF Steps, StepOps
  <2>2. credit \in [0 .. 6 -> Nat] /\ credit[0] = 0 /\ credit[6] = 0
    OBVIOUS
  <2>3. \A i \in 1 .. 6 : Affords(steps[i], credit[i - 1], credit[i])
    BY DEF Affords, StepOps
  <2>4. Suits(credit, steps)
    BY <2>1, <2>2, <2>3 DEF Suits
  <2> HIDE DEF steps, credit
  <2> QED
    BY <2>1, <2>4 DEF Safe, steps
<1>3. Safe(<<Need(1 + 16 + 1), Id(5), MagicAt(1), U8, Length>>)
  <2> DEFINE steps == <<Need(1 + 16 + 1), Id(5), MagicAt(1), U8, Length>>
             credit == [i \in 0 .. 5 |->
                               IF i = 1 THEN 18 ELSE
                               IF i = 2 THEN 17 ELSE IF i = 3 THEN 1 ELSE 0]
  <2>1. steps \in Seq(Steps) /\ Len(steps) = 5
    BY DEF Steps, StepOps
  <2>2. credit \in [0 .. 5 -> Nat] /\ credit[0] = 0 /\ credit[5] = 0
    OBVIOUS
  <2>3. \A i \in 1 .. 5 : Affords(steps[i], credit[i - 1], credit[i])
    BY DEF Affords, StepOps
  <2>4. Suits(credit, steps)
    BY <2>1, <2>2, <2>3 DEF Suits
  <2> HIDE DEF steps, credit
  <2> QED
    BY <2>1, <2>4 DEF Safe, steps
<1>4. Safe(<<Need(1 + 16 + 8 + 1 + 2), Id(6), MagicAt(1), I64, Unused(1), U16>>)
  <2> DEFINE steps == <<Need(1 + 16 + 8 + 1 + 2), Id(6), MagicAt(1), I64, Unused(1), U16>>
             credit == [i \in 0 .. 6 |->
                               IF i = 1 THEN 28 ELSE IF i = 2 THEN 27 ELSE
                               IF i = 3 THEN 11 ELSE IF i = 4 THEN 3 ELSE IF i = 5 THEN 2 ELSE 0]
  <2>1. steps \in Seq(Steps) /\ Len(steps) = 6
    BY DEF Steps, StepOps
  <2>2. credit \in [0 .. 6 -> Nat] /\ credit[0] = 0 /\ credit[6] = 0
    OBVIOUS
  <2>3. \A i \in 1 .. 6 : Affords(steps[i], credit[i - 1], credit[i])
    BY DEF Affords, StepOps
  <2>4. Suits(credit, steps)
    BY <2>1, <2>2, <2>3 DEF Suits
  <2> HIDE DEF steps, credit
  <2> QED
    BY <2>1, <2>4 DEF Safe, steps
<1>5. Safe(<<Need(1 + 16), Id(7), MagicAt(1), Addr, Need(2 + 8), U16, I64>>)
  <2> DEFINE steps == <<Need(1 + 16), Id(7), MagicAt(1), Addr, Need(2 + 8), U16, I64>>
             credit == [i \in 0 .. 7 |->
                               IF i = 1 THEN 17 ELSE IF i = 2 THEN 16 ELSE
                               IF i = 5 THEN 10 ELSE IF i = 6 THEN 8 ELSE 0]
  <2>1. steps \in Seq(Steps) /\ Len(steps) = 7
    BY DEF Steps, StepOps
  <2>2. credit \in [0 .. 7 -> Nat] /\ credit[0] = 0 /\ credit[7] = 0
    OBVIOUS
  <2>3. \A i \in 1 .. 7 : Affords(steps[i], credit[i - 1], credit[i])
    BY DEF Affords, StepOps
  <2>4. Suits(credit, steps)
    BY <2>1, <2>2, <2>3 DEF Suits
  <2> HIDE DEF steps, credit
  <2> QED
    BY <2>1, <2>4 DEF Safe, steps
<1>6. Safe(<<Need(1 + 16 + 8), Id(8), MagicAt(1), I64, Addr, Need(2 + 1), U16, Unused(1)>>)
  <2> DEFINE steps == <<Need(1 + 16 + 8), Id(8), MagicAt(1), I64, Addr, Need(2 + 1), U16, Unused(1)>>
             credit == [i \in 0 .. 8 |->
                               IF i = 1 THEN 25 ELSE IF i = 2 THEN 24 ELSE
                               IF i = 3 THEN 8 ELSE IF i = 6 THEN 3 ELSE IF i = 7 THEN 1 ELSE 0]
  <2>1. steps \in Seq(Steps) /\ Len(steps) = 8
    BY DEF Steps, StepOps
  <2>2. credit \in [0 .. 8 -> Nat] /\ credit[0] = 0 /\ credit[8] = 0
    OBVIOUS
  <2>3. \A i \in 1 .. 8 : Affords(steps[i], credit[i - 1], credit[i])
    BY DEF Affords, StepOps
  <2>4. Suits(credit, steps)
    BY <2>1, <2>2, <2>3 DEF Suits
  <2> HIDE DEF steps, credit
  <2> QED
    BY <2>1, <2>4 DEF Safe, steps
<1>7. Safe(<<Need(1 + 8 + 8 + 1), Id(9), I64, I64, Unused(1)>>)
  <2> DEFINE steps == <<Need(1 + 8 + 8 + 1), Id(9), I64, I64, Unused(1)>>
             credit == [i \in 0 .. 5 |->
                               IF i = 1 THEN 18 ELSE IF i = 2 THEN 17 ELSE
                               IF i = 3 THEN 9 ELSE IF i = 4 THEN 1 ELSE 0]
  <2>1. steps \in Seq(Steps) /\ Len(steps) = 5
    BY DEF Steps, StepOps
  <2>2. credit \in [0 .. 5 -> Nat] /\ credit[0] = 0 /\ credit[5] = 0
    OBVIOUS
  <2>3. \A i \in 1 .. 5 : Affords(steps[i], credit[i - 1], credit[i])
    BY DEF Affords, StepOps
  <2>4. Suits(credit, steps)
    BY <2>1, <2>2, <2>3 DEF Suits
  <2> HIDE DEF steps, credit
  <2> QED
    BY <2>1, <2>4 DEF Safe, steps
<1>8. Safe(<<Need(1 + 7), Id(16), Addr, Need(2), Unused(2)>>)
  <2> DEFINE steps == <<Need(1 + 7), Id(16), Addr, Need(2), Unused(2)>>
             credit == [i \in 0 .. 5 |->
                               IF i = 1 THEN 8 ELSE
                               IF i = 2 THEN 7 ELSE IF i = 4 THEN 2 ELSE 0]
  <2>1. steps \in Seq(Steps) /\ Len(steps) = 5
    BY DEF Steps, StepOps
  <2>2. credit \in [0 .. 5 -> Nat] /\ credit[0] = 0 /\ credit[5] = 0
    OBVIOUS
  <2>3. \A i \in 1 .. 5 : Affords(steps[i], credit[i - 1], credit[i])
    BY DEF Affords, StepOps
  <2>4. Suits(credit, steps)
    BY <2>1, <2>2, <2>3 DEF Suits
  <2> HIDE DEF steps, credit
  <2> QED
    BY <2>1, <2>4 DEF Safe, steps
<1>9. Safe(<<Need(1 + 7), Id(19), Addr>>)
  <2> DEFINE steps == <<Need(1 + 7), Id(19), Addr>>
             credit == [i \in 0 .. 3 |->
                               IF i = 1 THEN 8 ELSE IF i = 2 THEN 7 ELSE 0]
  <2>1. steps \in Seq(Steps) /\ Len(steps) = 3
    BY DEF Steps, StepOps
  <2>2. credit \in [0 .. 3 -> Nat] /\ credit[0] = 0 /\ credit[3] = 0
    OBVIOUS
  <2>3. \A i \in 1 .. 3 : Affords(steps[i], credit[i - 1], credit[i])
    BY DEF Affords, StepOps
  <2>4. Suits(credit, steps)
    BY <2>1, <2>2, <2>3 DEF Suits
  <2> HIDE DEF steps, credit
  <2> QED
    BY <2>1, <2>4 DEF Safe, steps
<1>10. Safe(<<Need(1 + 8), Id(0), I64>>)
  <2> DEFINE steps == <<Need(1 + 8), Id(0), I64>>
             credit == [i \in 0 .. 3 |->
                               IF i = 1 THEN 9 ELSE IF i = 2 THEN 8 ELSE 0]
  <2>1. steps \in Seq(Steps) /\ Len(steps) = 3
    BY DEF Steps, StepOps
  <2>2. credit \in [0 .. 3 -> Nat] /\ credit[0] = 0 /\ credit[3] = 0
    OBVIOUS
  <2>3. \A i \in 1 .. 3 : Affords(steps[i], credit[i - 1], credit[i])
    BY DEF Affords, StepOps
  <2>4. Suits(credit, steps)
    BY <2>1, <2>2, <2>3 DEF Suits
  <2> HIDE DEF steps, credit
  <2> QED
    BY <2>1, <2>4 DEF Safe, steps
<1>11. Safe(<<Need(1 + 8 + 8), Id(3), I64, I64>>)
  <2> DEFINE steps == <<Need(1 + 8 + 8), Id(3), I64, I64>>
             credit == [i \in 0 .. 4 |->
                               IF i = 1 THEN 17 ELSE
                               IF i = 2 THEN 16 ELSE IF i = 3 THEN 8 ELSE 0]
  <2>1. steps \in Seq(Steps) /\ Len(steps) = 4
    BY DEF Steps, StepOps
  <2>2. credit \in [0 .. 4 -> Nat] /\ credit[0] = 0 /\ credit[4] = 0
    OBVIOUS
  <2>3. \A i \in 1 .. 4 : Affords(steps[i], credit[i - 1], credit[i])
    BY DEF Affords, StepOps
  <2>4. Suits(credit, steps)
    BY <2>1, <2>2, <2>3 DEF Suits
  <2> HIDE DEF steps, credit
  <2> QED
    BY <2>1, <2>4 DEF Safe, steps
<1>12. Safe(<<Need(1), Id(21)>>)
  <2> DEFINE steps == <<Need(1), Id(21)>>
             credit == [i \in 0 .. 2 |->
                               IF i = 1 THEN 1 ELSE 0]
  <2>1. steps \in Seq(Steps) /\ Len(steps) = 2
    BY DEF Steps, StepOps
  <2>2. credit \in [0 .. 2 -> Nat] /\ credit[0] = 0 /\ credit[2] = 0
    OBVIOUS
  <2>3. \A i \in 1 .. 2 : Affords(steps[i], credit[i - 1], credit[i])
    BY DEF Affords, StepOps
  <2>4. Suits(credit, steps)
    BY <2>1, <2>2, <2>3 DEF Suits
  <2> HIDE DEF steps, credit
  <2> QED
    BY <2>1, <2>4 DEF Safe, steps
<1>13. Safe(<<Need(8 + 8), I64, I64>>)
  <2> DEFINE steps == <<Need(8 + 8), I64, I64>>
             credit == [i \in 0 .. 3 |->
                               IF i = 1 THEN 16 ELSE IF i = 2 THEN 8 ELSE 0]
  <2>1. steps \in Seq(Steps) /\ Len(steps) = 3
    BY DEF Steps, StepOps
  <2>2. credit \in [0 .. 3 -> Nat] /\ credit[0] = 0 /\ credit[3] = 0
    OBVIOUS
  <2>3. \A i \in 1 .. 3 : Affords(steps[i], credit[i - 1], credit[i])
    BY DEF Affords, StepOps
  <2>4. Suits(credit, steps)
    BY <2>1, <2>2, <2>3 DEF Suits
  <2> HIDE DEF steps, credit
  <2> QED
    BY <2>1, <2>4 DEF Safe, steps
<1>14. Safe(SkipInternalAddresses)
  <2> DEFINE credit == [i \in 0 .. 10 |-> 0]
  <2>1. SkipInternalAddresses \in Seq(Steps) /\ Len(SkipInternalAddresses) = 10
    BY DEF SkipInternalAddresses, Steps, StepOps
  <2>2. credit \in [0 .. 10 -> Nat] /\ \A i \in 0 .. 10 : credit[i] = 0
    OBVIOUS
  <2>3. \A i \in 1 .. 10 : Affords(SkipInternalAddresses[i], 0, 0)
    BY DEF SkipInternalAddresses, Affords, StepOps
  <2> HIDE DEF credit
  <2>4. Suits(credit, SkipInternalAddresses)
    BY <2>1, <2>2, <2>3 DEF Suits
  <2> QED
    BY <2>1, <2>4 DEF Safe
<1> HIDE DEF Need, Bytes, Unused, Id, MagicAt, Addr, UnusedAddr, Data, Length, I64, U16, U8
<1>15. Safe(UnconnectedPing.read)
  BY <1>1 DEF UnconnectedPing
<1>16. Safe(UnconnectedPong.read)
  BY <1>2 DEF UnconnectedPong
<1>17. Safe(OpenConnectionRequest1.read)
  BY <1>3 DEF OpenConnectionRequest1
<1>18. Safe(OpenConnectionReply1.read)
  BY <1>4 DEF OpenConnectionReply1
<1>19. Safe(OpenConnectionRequest2.read)
  BY <1>5 DEF OpenConnectionRequest2
<1>20. Safe(OpenConnectionReply2.read)
  BY <1>6 DEF OpenConnectionReply2
<1>21. Safe(ConnectionRequest.read)
  BY <1>7 DEF ConnectionRequest
<1>22. Safe(ConnectionRequestAccepted.read)
  <2>1. Safe(<<Need(1 + 7), Id(16), Addr, Need(2), Unused(2)>> \o SkipInternalAddresses)
    BY <1>8, <1>14, SafeConcat
  <2>2. Safe((<<Need(1 + 7), Id(16), Addr, Need(2), Unused(2)>> \o SkipInternalAddresses) \o <<Need(8 + 8), I64, I64>>)
    BY <1>13, <2>1, SafeConcat
  <2> QED
    BY <2>2 DEF ConnectionRequestAccepted
<1>23. Safe(NewIncomingConnection.read)
  <2>1. Safe(<<Need(1 + 7), Id(19), Addr>> \o SkipInternalAddresses)
    BY <1>9, <1>14, SafeConcat
  <2>2. Safe((<<Need(1 + 7), Id(19), Addr>> \o SkipInternalAddresses) \o <<Need(8 + 8), I64, I64>>)
    BY <1>13, <2>1, SafeConcat
  <2> QED
    BY <2>2 DEF NewIncomingConnection
<1>24. Safe(ConnectedPing.read)
  BY <1>10 DEF ConnectedPing
<1>25. Safe(ConnectedPong.read)
  BY <1>11 DEF ConnectedPong
<1>26. Safe(DisconnectNotification.read)
  BY <1>12 DEF DisconnectNotification
<1> QED
  BY KindsAre, <1>15, <1>16, <1>17, <1>18, <1>19, <1>20, <1>21, <1>22, <1>23, <1>24, <1>25, <1>26 DEF Packet

\* The other lists of steps.
LEMMA StepsSafe ==
    ASSUME NEW n \in Nat
    PROVE  /\ Safe(<<Need(6), Bytes(3), Bytes(3)>>)
           /\ Safe(<<Need(1), Bytes(1), Need(2), Bytes(2)>>)
           /\ Safe(<<Need(3), Bytes(1), Bytes(2)>>)
           /\ \A flags : Safe(IndexSteps(flags) \o <<Need(n), Bytes(n)>>)
<1> USE DEF Need, Bytes
<1>1. Safe(<<Need(6), Bytes(3), Bytes(3)>>)
  <2> DEFINE steps == <<Need(6), Bytes(3), Bytes(3)>>
             credit == [i \in 0 .. 3 |->
                               IF i = 1 THEN 6 ELSE IF i = 2 THEN 3 ELSE 0]
  <2>1. steps \in Seq(Steps) /\ Len(steps) = 3
    BY DEF Steps, StepOps
  <2>2. credit \in [0 .. 3 -> Nat] /\ credit[0] = 0 /\ credit[3] = 0
    OBVIOUS
  <2>3. \A i \in 1 .. 3 : Affords(steps[i], credit[i - 1], credit[i])
    BY DEF Affords, StepOps
  <2>4. Suits(credit, steps)
    BY <2>1, <2>2, <2>3 DEF Suits
  <2> HIDE DEF steps, credit
  <2> QED
    BY <2>1, <2>4 DEF Safe, steps
<1>2. Safe(<<Need(1), Bytes(1), Need(2), Bytes(2)>>)
  <2> DEFINE steps == <<Need(1), Bytes(1), Need(2), Bytes(2)>>
             credit == [i \in 0 .. 4 |->
                               IF i = 1 THEN 1 ELSE IF i = 3 THEN 2 ELSE 0]
  <2>1. steps \in Seq(Steps) /\ Len(steps) = 4
    BY DEF Steps, StepOps
  <2>2. credit \in [0 .. 4 -> Nat] /\ credit[0] = 0 /\ credit[4] = 0
    OBVIOUS
  <2>3. \A i \in 1 .. 4 : Affords(steps[i], credit[i - 1], credit[i])
    BY DEF Affords, StepOps
  <2>4. Suits(credit, steps)
    BY <2>1, <2>2, <2>3 DEF Suits
  <2> HIDE DEF steps, credit
  <2> QED
    BY <2>1, <2>4 DEF Safe, steps
<1>3. Safe(<<Need(3), Bytes(1), Bytes(2)>>)
  <2> DEFINE steps == <<Need(3), Bytes(1), Bytes(2)>>
             credit == [i \in 0 .. 3 |->
                               IF i = 1 THEN 3 ELSE IF i = 2 THEN 2 ELSE 0]
  <2>1. steps \in Seq(Steps) /\ Len(steps) = 3
    BY DEF Steps, StepOps
  <2>2. credit \in [0 .. 3 -> Nat] /\ credit[0] = 0 /\ credit[3] = 0
    OBVIOUS
  <2>3. \A i \in 1 .. 3 : Affords(steps[i], credit[i - 1], credit[i])
    BY DEF Affords, StepOps
  <2>4. Suits(credit, steps)
    BY <2>1, <2>2, <2>3 DEF Suits
  <2> HIDE DEF steps, credit
  <2> QED
    BY <2>1, <2>4 DEF Safe, steps
<1>4. Safe(<<Need(4), Bytes(3), Bytes(1)>>)
  <2> DEFINE steps == <<Need(4), Bytes(3), Bytes(1)>>
             credit == [i \in 0 .. 3 |->
                               IF i = 1 THEN 4 ELSE IF i = 2 THEN 1 ELSE 0]
  <2>1. steps \in Seq(Steps) /\ Len(steps) = 3
    BY DEF Steps, StepOps
  <2>2. credit \in [0 .. 3 -> Nat] /\ credit[0] = 0 /\ credit[3] = 0
    OBVIOUS
  <2>3. \A i \in 1 .. 3 : Affords(steps[i], credit[i - 1], credit[i])
    BY DEF Affords, StepOps
  <2>4. Suits(credit, steps)
    BY <2>1, <2>2, <2>3 DEF Suits
  <2> HIDE DEF steps, credit
  <2> QED
    BY <2>1, <2>4 DEF Safe, steps
<1>5. Safe(<<Need(10), Bytes(4), Bytes(2), Bytes(4)>>)
  <2> DEFINE steps == <<Need(10), Bytes(4), Bytes(2), Bytes(4)>>
             credit == [i \in 0 .. 4 |->
                               IF i = 1 THEN 10 ELSE
                               IF i = 2 THEN 6 ELSE IF i = 3 THEN 4 ELSE 0]
  <2>1. steps \in Seq(Steps) /\ Len(steps) = 4
    BY DEF Steps, StepOps
  <2>2. credit \in [0 .. 4 -> Nat] /\ credit[0] = 0 /\ credit[4] = 0
    OBVIOUS
  <2>3. \A i \in 1 .. 4 : Affords(steps[i], credit[i - 1], credit[i])
    BY DEF Affords, StepOps
  <2>4. Suits(credit, steps)
    BY <2>1, <2>2, <2>3 DEF Suits
  <2> HIDE DEF steps, credit
  <2> QED
    BY <2>1, <2>4 DEF Safe, steps
<1> HIDE DEF Need, Bytes
<1>6. ASSUME NEW flags PROVE Safe(IndexSteps(flags) \o <<Need(n), Bytes(n)>>)
  <2>1. PICK level : level = flags \div 32
    OBVIOUS
  <2>2. ASSUME NEW condition, NEW steps, Safe(steps) PROVE Safe(Optional(condition, steps))
    BY <2>2, SafeReads DEF Optional
  <2> DEFINE a == Optional(is_reliable(level), <<Need(3), Bytes(3)>>)
             b == Optional(is_sequenced(level), <<Need(3), Bytes(3)>>)
             d == Optional(is_ordered(level), <<Need(4), Bytes(3), Bytes(1)>>)
             e == Optional((flags \div 16) % 2 = 1, <<Need(10), Bytes(4), Bytes(2), Bytes(4)>>)
  <2>3. Safe(<<Need(3), Bytes(3)>>) /\ Safe(<<Need(n), Bytes(n)>>)
    BY SafeReads
  <2>4. Safe(a) /\ Safe(b) /\ Safe(d) /\ Safe(e)
    BY <1>4, <1>5, <2>2, <2>3
  <2>5. IndexSteps(flags) = ((a \o b) \o d) \o e
    BY <2>1 DEF IndexSteps
  <2> HIDE DEF a, b, d, e
  <2>6. Safe(a \o b)
    BY <2>4, SafeConcat
  <2>7. Safe((a \o b) \o d)
    BY <2>4, <2>6, SafeConcat
  <2>8. Safe(((a \o b) \o d) \o e)
    BY <2>4, <2>7, SafeConcat
  <2> QED
    BY <2>3, <2>5, <2>8, SafeConcat
<1> QED
  BY <1>1, <1>2, <1>3, <1>6

\* What the length check of n bytes and reading them comes to.
LEMMA NeedAndTake ==
    ASSUME NEW data \in Seq(Byte), NEW c, Sound(c, data, 0), c.status = "ok", NEW n \in Nat
    PROVE  /\ ReadStep(c, Need(n)) = IF c.at + n =< Len(data) THEN c ELSE Refuse(c)
           /\ c.at + n =< Len(data) =>
                 ReadStep(c, Bytes(n)) = Advance(c, n, Append(c.out, NextBytes(c, n)))
<1>1. c.data = data /\ c.at \in Nat /\ Len(data) \in Nat
  BY LenProperties DEF Sound
<1>2. Remaining(c) < n <=> ~ (c.at + n =< Len(data))
  BY <1>1 DEF Remaining
<1> QED
  BY <1>2 DEF ReadStep, Need, Bytes, Take

\* A decoder of records ends in good order.
LEMMA DecodeRangeSound ==
    ASSUME NEW data \in Seq(Byte), NEW c, Sound(c, data, 0), c.status = "ok"
    PROVE  Sound(DecodeRange(c), data, 0)
<1> DEFINE start == Advance(c, 0, <<>>)
           tag == Read(start, <<Need(1), Bytes(1)>>)
           type == tag.out[1][1]
           one == Read(tag, <<Need(3), Bytes(3)>>)
           two == Read(tag, <<Need(6), Bytes(3), Bytes(3)>>)
           body == IF type = 1 THEN one ELSE two
           range == [start |-> read_u24_le(body.out[2]), end |-> read_u24_le(Last(body.out))]
<1>1. Sound(start, data, 0)
  <2>1. c.at + 0 = c.at /\ c.at \in Nat
    BY DEF Sound
  <2> QED
    BY <2>1, NoneIsSequence DEF Sound, Advance
<1>2. DecodeRange(c) = IF tag.status # "ok" THEN tag
                       ELSE IF type \notin {0, 1} THEN Refuse(tag)
                       ELSE IF body.status # "ok" THEN body
                       ELSE Advance(body, 0, Append(c.out, range))
  BY DEF DecodeRange
<1> HIDE DEF start
<1>3. Sound(tag, data, 0)
  BY <1>1, ReadSound, SafeReads
<1> HIDE DEF tag
<1>4. Sound(one, data, 0) /\ Sound(two, data, 0)
  BY <1>3, ReadSound, SafeReads, StepsSafe
<1> HIDE DEF one, two, type
<1>5. Sound(body, data, 0)
  BY <1>4
<1> HIDE DEF body, range
<1>6. Sound(Refuse(tag), data, 0)
  BY DEF Sound, Refuse, Stop
<1>7. body.status = "ok" => Sound(Advance(body, 0, Append(c.out, range)), data, 0)
  <2> SUFFICES ASSUME body.status = "ok"
               PROVE  Sound(Advance(body, 0, Append(c.out, range)), data, 0)
    OBVIOUS
  <2>1. IsSequence(Append(c.out, range))
    BY AppendSequence DEF Sound
  <2>2. body.at + 0 = body.at /\ body.at \in Nat
    BY <1>5 DEF Sound
  <2> QED
    BY <1>5, <2>1, <2>2 DEF Sound, Advance
<1> QED
  BY <1>2, <1>3, <1>5, <1>6, <1>7

\* Short lists of steps, one after the other.
LEMMA ReadTwo ==
    ASSUME NEW c, NEW s1, NEW s2
    PROVE  Read(c, <<s1, s2>>) = ReadStep(ReadStep(c, s1), s2)
<1>1. PICK steps : steps = <<s1, s2>>
  OBVIOUS
<1>2. Len(steps) = 2 /\ steps[1] = s1 /\ steps[2] = s2
  BY <1>1
<1>3. PICK r : /\ r[0] = c
               /\ \A i \in 1 .. Len(steps) : r[i] = ReadStep(r[i - 1], steps[i])
               /\ Read(c, steps) = r[Len(steps)]
  <2>1. Len(steps) \in Nat
    BY <1>2
  <2> QED
    BY <2>1, ReadTurns
<1>4. r[1] = ReadStep(r[0], s1) /\ r[2] = ReadStep(r[1], s2) /\ Read(c, steps) = r[2]
  BY <1>2, <1>3
<1> QED
  BY <1>1, <1>3, <1>4

\* Three steps, one after the other.
LEMMA ReadThree ==
    ASSUME NEW c, NEW s1, NEW s2, NEW s3
    PROVE  Read(c, <<s1, s2, s3>>) = ReadStep(ReadStep(ReadStep(c, s1), s2), s3)
<1>1. PICK steps : steps = <<s1, s2, s3>>
  OBVIOUS
<1>2. Len(steps) = 3 /\ steps[1] = s1 /\ steps[2] = s2 /\ steps[3] = s3
  BY <1>1
<1>3. PICK r : /\ r[0] = c
               /\ \A i \in 1 .. Len(steps) : r[i] = ReadStep(r[i - 1], steps[i])
               /\ Read(c, steps) = r[Len(steps)]
  <2>1. Len(steps) \in Nat
    BY <1>2
  <2> QED
    BY <2>1, ReadTurns
<1>4. /\ r[1] = ReadStep(r[0], s1) /\ r[2] = ReadStep(r[1], s2) /\ r[3] = ReadStep(r[2], s3)
      /\ Read(c, steps) = r[3]
  BY <1>2, <1>3
<1> QED
  BY <1>1, <1>3, <1>4

\* A cursor that stands at a place in good order.
At(c, data, at) == c.status = "ok" /\ c.data = data /\ c.at = at /\ IsSequence(c.out)

\* A field of n bytes behind its length check.
LEMMA Field ==
    ASSUME NEW data \in Seq(Byte), NEW at \in 0 .. Len(data), NEW c, At(c, data, at), NEW n \in Nat
    PROVE  /\ at + n =< Len(data) => ReadStep(c, Need(n)) = c
           /\ at + n > Len(data) => ReadStep(c, Need(n)).status = "error"
           /\ at + n =< Len(data) =>
                 \E b : /\ IsBytes(b, n)
                        /\ \A j \in 1 .. n : b[j] = data[at + j]
                        /\ ReadStep(c, Bytes(n)).out = Append(c.out, b)
                        /\ At(ReadStep(c, Bytes(n)), data, at + n)
<1>1. Len(data) \in Nat
  BY LenProperties
<1>2. Sound(c, data, 0) /\ c.status = "ok" /\ c.at = at
  BY <1>1 DEF Sound, At
<1>3. /\ ReadStep(c, Need(n)) = IF at + n =< Len(data) THEN c ELSE Refuse(c)
      /\ at + n =< Len(data) =>
            ReadStep(c, Bytes(n)) = Advance(c, n, Append(c.out, NextBytes(c, n)))
  BY <1>2, NeedAndTake
<1>4. Refuse(c).status = "error"
  BY DEF Refuse, Stop
<1>5. ASSUME at + n =< Len(data)
      PROVE  \E b : /\ IsBytes(b, n)
                    /\ \A j \in 1 .. n : b[j] = data[at + j]
                    /\ ReadStep(c, Bytes(n)).out = Append(c.out, b)
                    /\ At(ReadStep(c, Bytes(n)), data, at + n)
  <2>1. PICK b : b = NextBytes(c, n)
    OBVIOUS
  <2>2. IsBytes(b, n) /\ \A j \in 1 .. n : b[j] = data[at + j]
    BY <1>2, <1>5, <2>1, NextBytesProperty DEF At
  <2>3. IsSequence(Append(c.out, b))
    BY AppendSequence DEF At
  <2>4. ReadStep(c, Bytes(n)) = Advance(c, n, Append(c.out, b))
    BY <1>3, <1>5, <2>1
  <2>5. ReadStep(c, Bytes(n)).out = Append(c.out, b) /\ At(ReadStep(c, Bytes(n)), data, at + n)
    BY <1>2, <2>3, <2>4 DEF Advance, At
  <2> QED
    BY <2>2, <2>5
<1> QED
  BY <1>1, <1>3, <1>4, <1>5

\* A cursor that has failed stays as it is.
LEMMA Failed ==
    ASSUME NEW c, c.status # "ok", NEW s
    PROVE  ReadStep(c, s) = c
BY DEF ReadStep

\* A new cursor stands where it was put and has read nothing.
LEMMA CursorAt ==
    ASSUME NEW data, NEW at
    PROVE  At(Cursor(data, at), data, at) /\ Cursor(data, at).out = <<>>
BY NoneIsSequence DEF At, Cursor

\* The first two values read.
LEMMA TwoValues ==
    ASSUME NEW a, NEW b
    PROVE  /\ Append(<<>>, a)[1] = a /\ IsSequence(Append(<<>>, a)) /\ Len(Append(<<>>, a)) = 1
           /\ Append(Append(<<>>, a), b)[1] = a
           /\ Append(Append(<<>>, a), b)[2] = b
           /\ Last(Append(Append(<<>>, a), b)) = b
<1>1. PICK s : s = Append(<<>>, a)
  OBVIOUS
<1>2. IsSequence(s) /\ Len(s) = 1 /\ s[1] = a
  <2>1. IsSequence(s)
    BY <1>1, NoneIsSequence, AppendSequence
  <2>2. s = <<a>>
    BY <1>1
  <2> QED
    BY <2>1, <2>2
<1>3. Append(s, b)[1] = a /\ Append(s, b)[2] = b /\ Last(Append(s, b)) = b
  <2>1. /\ Last(Append(s, b)) = b /\ Append(s, b)[Len(s) + 1] = b
        /\ \A i \in 1 .. Len(s) : Append(s, b)[i] = s[i]
    BY <1>2, AppendSequence
  <2>2. 1 \in 1 .. Len(s) /\ Len(s) + 1 = 2
    BY <1>2
  <2> QED
    BY <1>2, <2>1, <2>2
<1> QED
  BY <1>1, <1>2, <1>3

\* The id and the count of an ACK packet.
LEMMA AckHeader ==
    ASSUME NEW data \in Seq(Byte), NEW h,
           h = Read(Cursor(data, 0), <<Need(1), Bytes(1), Need(2), Bytes(2)>>)
    PROVE  /\ Len(data) < 3 => h.status = "error"
           /\ Len(data) >= 3 => /\ At(h, data, 3) /\ IsBytes(h.out[2], 2)
                                /\ h.out[2][1] = data[2] /\ h.out[2][2] = data[3]
<1>0. Len(data) \in Nat /\ 0 \in 0 .. Len(data)
  BY LenProperties
<1>1. PICK steps : steps = <<Need(1), Bytes(1), Need(2), Bytes(2)>>
  OBVIOUS
<1>2. /\ Len(steps) = 4 /\ steps[1] = Need(1) /\ steps[2] = Bytes(1) /\ steps[3] = Need(2)
      /\ steps[4] = Bytes(2)
  BY <1>1
<1>3. PICK r : /\ r[0] = Cursor(data, 0)
               /\ \A i \in 1 .. Len(steps) : r[i] = ReadStep(r[i - 1], steps[i])
               /\ Read(Cursor(data, 0), steps) = r[Len(steps)]
  <2>1. Len(steps) \in Nat
    BY <1>2
  <2> QED
    BY <2>1, ReadTurns
<1>4. /\ r[1] = ReadStep(r[0], Need(1)) /\ r[2] = ReadStep(r[1], Bytes(1))
      /\ r[3] = ReadStep(r[2], Need(2)) /\ r[4] = ReadStep(r[3], Bytes(2)) /\ h = r[4]
  BY <1>1, <1>2, <1>3
<1>5. At(r[0], data, 0) /\ r[0].out = <<>>
  BY <1>3, CursorAt
<1>6. CASE Len(data) = 0
  <2>1. r[1].status = "error"
    <3>1. 0 + 1 > Len(data) => ReadStep(r[0], Need(1)).status = "error"
      BY <1>0, <1>5, Field
    <3> QED
      BY <1>4, <1>6, <3>1
  <2>2. r[2] = r[1] /\ r[3] = r[2] /\ r[4] = r[3]
    BY <1>4, <2>1, Failed
  <2> QED
    BY <1>4, <1>6, <2>1, <2>2
<1>7. CASE Len(data) >= 1
  <2>1. r[1] = r[0]
    BY <1>0, <1>4, <1>5, <1>7, Field
  <2>2. PICK a : r[2].out = Append(<<>>, a) /\ At(r[2], data, 1)
    BY <1>0, <1>4, <1>5, <1>7, <2>1, Field
  <2>3. 1 \in 0 .. Len(data)
    BY <1>0, <1>7
  <2>4. CASE Len(data) < 3
    <3>1. r[3].status = "error"
      BY <1>0, <1>4, <2>2, <2>3, <2>4, Field
    <3>2. r[4] = r[3]
      BY <1>4, <3>1, Failed
    <3> QED
      BY <1>0, <1>4, <2>4, <3>1, <3>2
  <2>5. CASE Len(data) >= 3
    <3>1. r[3] = r[2]
      BY <1>0, <1>4, <2>2, <2>3, <2>5, Field
    <3>2. PICK b : /\ IsBytes(b, 2) /\ \A j \in 1 .. 2 : b[j] = data[1 + j]
                   /\ r[4].out = Append(r[2].out, b) /\ At(r[4], data, 1 + 2)
      <4>1. 1 + 2 =< Len(data) /\ 2 \in Nat
        BY <1>0, <2>5
      <4>2. r[4] = ReadStep(r[2], Bytes(2))
        BY <1>4, <3>1
      <4>3. PICK v : v = ReadStep(r[2], Bytes(2))
        OBVIOUS
      <4>4. 1 + 2 =< Len(data) =>
               \E b : /\ IsBytes(b, 2) /\ \A j \in 1 .. 2 : b[j] = data[1 + j]
                      /\ v.out = Append(r[2].out, b) /\ At(v, data, 1 + 2)
        BY <2>2, <2>3, <4>1, <4>3, Field, Zenon
      <4> QED
        BY <4>1, <4>2, <4>3, <4>4, Zenon
    <3>3. r[4].out[2] = b
      BY <2>2, <3>2, TwoValues
    <3>4. b[1] = data[2] /\ b[2] = data[3]
      BY <3>2
    <3> QED
      BY <1>0, <1>4, <2>5, <3>2, <3>3, <3>4
  <2> QED
    BY <1>0, <2>4, <2>5
<1> QED
  BY <1>0, <1>6, <1>7

\* One turn of the loop over the records.
NextRecord(c) == IF c.status = "ok" THEN DecodeRange(c) ELSE c

\* f is the loop of DecodeRecords, n turns of it.
RecordLoop(f, c, n) ==
    f = [i \in 0 .. n |-> IF i = 0 THEN c
                          ELSE IF f[i - 1].status = "ok" THEN DecodeRange(f[i - 1])
                          ELSE f[i - 1]]

\* There is such a function.
LEMMA RecordLoopExists ==
    ASSUME NEW c, NEW n \in Nat
    PROVE  \E f : RecordLoop(f, c, n)
<1> DEFINE E == {m \in 0 .. n : \E f : RecordLoop(f, c, m)}
<1>1. 0 \in E
  <2>1. RecordLoop([k \in 0 .. 0 |-> c], c, 0)
    BY DEF RecordLoop
  <2> QED
    BY <2>1
<1>2. ASSUME NEW m \in 0 .. n - 1, m \in E PROVE m + 1 \in E
  <2>1. PICK f : RecordLoop(f, c, m)
    BY <1>2
  <2> DEFINE g == [k \in 0 .. m + 1 |-> IF k = m + 1 THEN NextRecord(f[m]) ELSE f[k]]
  <2>2. \A k \in 1 .. m + 1 : g[k - 1] = f[k - 1]
    OBVIOUS
  <2>3. \A k \in 0 .. m + 1 : g[k] = IF k = 0 THEN c
                                     ELSE IF g[k - 1].status = "ok" THEN DecodeRange(g[k - 1])
                                     ELSE g[k - 1]
    BY <2>1, <2>2 DEF RecordLoop, NextRecord
  <2>4. RecordLoop(g, c, m + 1)
    BY <2>3 DEF RecordLoop
  <2> QED
    BY <2>4
<1> HIDE DEF E
<1>3. \A m \in 0 .. n : m \in E
  BY <1>1, <1>2, UpTo
<1> QED
  BY <1>3 DEF E

\* DecodeRecords goes through the records one by one.
LEMMA RecordTurns ==
    ASSUME NEW c, NEW n \in Nat
    PROVE  \E r : /\ r[0] = c
                  /\ \A i \in 1 .. n : r[i] = NextRecord(r[i - 1])
                  /\ DecodeRecords(c, n) = r[n]
<1> DEFINE r == CHOOSE f : RecordLoop(f, c, n)
<1>2. RecordLoop(r, c, n)
  BY RecordLoopExists
<1>3. DecodeRecords(c, n) = r[n]
  BY DEF DecodeRecords, RecordLoop
<1> HIDE DEF r
<1>4. r[0] = c /\ \A i \in 1 .. n : r[i] = NextRecord(r[i - 1])
  BY <1>2 DEF RecordLoop, NextRecord
<1> QED
  BY <1>3, <1>4

\* The records of an ACK packet never end in a read past the end.
LEMMA DecodeRecordsSound ==
    ASSUME NEW data \in Seq(Byte), NEW c, Sound(c, data, 0), NEW n \in Nat
    PROVE  Sound(DecodeRecords(c, n), data, 0)
<1>1. PICK r : /\ r[0] = c
               /\ \A i \in 1 .. n : r[i] = NextRecord(r[i - 1])
               /\ DecodeRecords(c, n) = r[n]
  BY RecordTurns
<1> DEFINE E == {i \in 0 .. n : Sound(r[i], data, 0)}
<1>2. 0 \in E
  BY <1>1
<1>3. ASSUME NEW i \in 0 .. n - 1, i \in E PROVE i + 1 \in E
  <2>1. i + 1 \in 1 .. n /\ i + 1 \in 0 .. n /\ (i + 1) - 1 = i
    OBVIOUS
  <2>2. r[i + 1] = NextRecord(r[i]) /\ Sound(r[i], data, 0)
    BY <1>1, <1>3, <2>1
  <2>3. Sound(NextRecord(r[i]), data, 0)
    BY <2>2, DecodeRangeSound DEF NextRecord
  <2> QED
    BY <2>1, <2>2, <2>3
<1> HIDE DEF E
<1>4. \A i \in 0 .. n : i \in E
  BY <1>2, <1>3, UpTo
<1> QED
  BY <1>1, <1>4 DEF E

\* Neither does decode_ack_nack, whatever the bytes.
LEMMA DecodeAckSafe ==
    ASSUME NEW data \in Seq(Byte)
    PROVE  decode_ack_nack(data).status \in {"ok", "error"}
<1> DEFINE header == Read(Cursor(data, 0), <<Need(1), Bytes(1), Need(2), Bytes(2)>>)
           count == get_u16(header.out[2])
           records == DecodeRecords(Advance(header, 0, <<>>), count)
<1>1. decode_ack_nack(data) =
         IF data = <<>> \/ Head(data) \notin {ID_ACK, ID_NACK}
         THEN [status |-> "error", list |-> <<>>]
         ELSE IF header.status # "ok"
         THEN [status |-> header.status, list |-> <<>>]
         ELSE IF records.status # "ok"
         THEN [status |-> records.status, list |-> <<>>]
         ELSE [status |-> "ok", list |-> InsertRecords(records.out)]
  BY DEF decode_ack_nack
<1>2. /\ Len(data) < 3 => header.status = "error"
      /\ Len(data) >= 3 => At(header, data, 3) /\ IsBytes(header.out[2], 2)
  BY AckHeader
<1> HIDE DEF header
<1>3. Len(data) >= 3 => records.status \in {"ok", "error"}
  <2> SUFFICES ASSUME Len(data) >= 3 PROVE records.status \in {"ok", "error"}
    OBVIOUS
  <2>1. count \in Nat
    BY <1>2, GetU16
  <2>2. Sound(Advance(header, 0, <<>>), data, 0)
    <3>1. 3 + 0 = 3 /\ 3 + 0 =< Len(data) /\ 3 \in Nat
      BY LenProperties
    <3> QED
      BY <1>2, <3>1, NoneIsSequence DEF At, Sound, Advance
  <2> HIDE DEF count
  <2>3. Sound(records, data, 0)
    BY <2>1, <2>2, DecodeRecordsSound
  <2> HIDE DEF records
  <2> QED
    BY <2>3 DEF Sound
<1> HIDE DEF count, records
<1>4. Len(data) \in Nat
  BY LenProperties
<1>5. CASE Len(data) < 3
  BY <1>1, <1>2, <1>5
<1>6. CASE Len(data) >= 3
  BY <1>1, <1>2, <1>3, <1>6 DEF At
<1> QED
  BY <1>4, <1>5, <1>6

\* f is the frame loop on the data, n turns of it.
FrameLoop(f, data, n) ==
    f = [i \in 0 .. n |-> IF i = 0 THEN [status |-> "ok", at |-> 0, frames |-> <<>>]
                          ELSE NextFrame(data, f[i - 1])]

\* There is such a function.
LEMMA FrameLoopExists ==
    ASSUME NEW data, NEW n \in Nat
    PROVE  \E f : FrameLoop(f, data, n)
<1> DEFINE start == [status |-> "ok", at |-> 0, frames |-> <<>>]
           E == {m \in 0 .. n : \E f : FrameLoop(f, data, m)}
<1>1. 0 \in E
  <2>1. FrameLoop([k \in 0 .. 0 |-> start], data, 0)
    BY DEF FrameLoop
  <2> QED
    BY <2>1
<1>2. ASSUME NEW m \in 0 .. n - 1, m \in E PROVE m + 1 \in E
  <2>1. PICK f : FrameLoop(f, data, m)
    BY <1>2
  <2> DEFINE g == [k \in 0 .. m + 1 |-> IF k = m + 1 THEN NextFrame(data, f[m]) ELSE f[k]]
  <2>2. \A k \in 1 .. m + 1 : g[k - 1] = f[k - 1]
    OBVIOUS
  <2> HIDE DEF start
  <2>3. \A k \in 0 .. m + 1 : g[k] = IF k = 0 THEN start ELSE NextFrame(data, g[k - 1])
    BY <2>1, <2>2 DEF FrameLoop, start
  <2>4. FrameLoop(g, data, m + 1)
    BY <2>3 DEF FrameLoop, start
  <2> QED
    BY <2>4
<1> HIDE DEF E
<1>3. \A m \in 0 .. n : m \in E
  BY <1>1, <1>2, UpTo
<1> QED
  BY <1>3 DEF E

\* DecodeFrames takes one turn after the other.
LEMMA FrameTurns ==
    ASSUME NEW data, NEW n \in Nat, n = Len(data)
    PROVE  \E r : /\ r[0] = [status |-> "ok", at |-> 0, frames |-> <<>>]
                  /\ \A i \in 1 .. n : r[i] = NextFrame(data, r[i - 1])
                  /\ DecodeFrames(data) = r[n]
<1> DEFINE r == CHOOSE f : FrameLoop(f, data, n)
<1>2. FrameLoop(r, data, n)
  BY FrameLoopExists
<1>3. DecodeFrames(data) = r[n]
  BY DEF DecodeFrames, FrameLoop
<1> HIDE DEF r
<1>4. /\ r[0] = [status |-> "ok", at |-> 0, frames |-> <<>>]
      /\ \A i \in 1 .. n : r[i] = NextFrame(data, r[i - 1])
  BY <1>2 DEF FrameLoop
<1> QED
  BY <1>3, <1>4

\* The flags and the length of a frame.
LEMMA FrameHeader ==
    ASSUME NEW data \in Seq(Byte), NEW at \in 0 .. Len(data), NEW h,
           h = Read(Cursor(data, at), <<Need(3), Bytes(1), Bytes(2)>>)
    PROVE  /\ at + 3 > Len(data) => h.status = "error"
           /\ at + 3 =< Len(data) =>
                 /\ At(h, data, at + 3)
                 /\ IsBytes(h.out[1], 1) /\ h.out[1][1] = data[at + 1]
                 /\ IsBytes(h.out[2], 2)
                 /\ h.out[2][1] = data[at + 2] /\ h.out[2][2] = data[at + 3]
                 /\ h.out = Append(Append(<<>>, h.out[1]), h.out[2])
<1>0. Len(data) \in Nat /\ at \in Nat /\ at =< Len(data)
  BY LenProperties
<1>1. PICK c0, c1, c2 : /\ c0 = Cursor(data, at) /\ c1 = ReadStep(c0, Need(3))
                        /\ c2 = ReadStep(c1, Bytes(1))
  OBVIOUS
<1>2. h = ReadStep(c2, Bytes(2))
  <2>1. Read(c0, <<Need(3), Bytes(1), Bytes(2)>>) =
           ReadStep(ReadStep(ReadStep(c0, Need(3)), Bytes(1)), Bytes(2))
    <3>1. PICK s1, s2, s3 : s1 = Need(3) /\ s2 = Bytes(1) /\ s3 = Bytes(2)
      OBVIOUS
    <3>2. Read(c0, <<s1, s2, s3>>) = ReadStep(ReadStep(ReadStep(c0, s1), s2), s3)
      BY ReadThree
    <3> QED
      BY <3>1, <3>2
  <2> QED
    BY <1>1, <2>1, Zenon
<1>3. At(c0, data, at) /\ c0.out = <<>>
  BY <1>1, CursorAt
<1>4. CASE at + 3 > Len(data)
  <2>1. at + 3 > Len(data) => c1.status = "error"
    <3>1. 3 \in Nat
      OBVIOUS
    <3> QED
      BY <1>1, <1>3, <3>1, Field, Zenon
  <2> QED
    BY <1>0, <1>1, <1>2, <1>4, <2>1, Failed
<1>5. CASE at + 3 =< Len(data)
  <2>1. 3 \in Nat /\ 1 \in Nat /\ 2 \in Nat
    OBVIOUS
  <2>2. at + 3 =< Len(data) => c1 = c0
    BY <1>1, <1>3, <2>1, Field, Zenon
  <2>3. c1 = c0
    BY <1>5, <2>2
  <2>4. at + 1 =< Len(data) =>
          \E a : /\ IsBytes(a, 1) /\ \A j \in 1 .. 1 : a[j] = data[at + j]
                 /\ c2.out = Append(c0.out, a) /\ At(c2, data, at + 1)
    BY <1>1, <1>3, <2>1, <2>3, Field, Zenon
  <2>5. PICK a : /\ IsBytes(a, 1) /\ \A j \in 1 .. 1 : a[j] = data[at + j]
                 /\ c2.out = Append(c0.out, a) /\ At(c2, data, at + 1)
    BY <1>0, <1>5, <2>4
  <2>6. PICK q : q = at + 1
    OBVIOUS
  <2>7. q \in 0 .. Len(data) /\ q + 2 =< Len(data) /\ q + 2 = at + 3
    BY <1>0, <1>5, <2>6
  <2>8. q + 2 =< Len(data) =>
          \E b : /\ IsBytes(b, 2) /\ \A j \in 1 .. 2 : b[j] = data[q + j]
                 /\ h.out = Append(c2.out, b) /\ At(h, data, q + 2)
    <3>1. At(c2, data, q)
      BY <2>5, <2>6
    <3> QED
      BY <1>2, <2>1, <2>7, <3>1, Field, Zenon
  <2>9. PICK b : /\ IsBytes(b, 2) /\ \A j \in 1 .. 2 : b[j] = data[q + j]
                 /\ h.out = Append(c2.out, b) /\ At(h, data, q + 2)
    BY <2>7, <2>8
  <2>10. h.out[1] = a /\ h.out[2] = b /\ h.out = Append(Append(<<>>, a), b)
    <3>1. h.out = Append(Append(<<>>, a), b)
      BY <1>3, <2>5, <2>9
    <3>2. Append(Append(<<>>, a), b)[1] = a /\ Append(Append(<<>>, a), b)[2] = b
      BY TwoValues
    <3> QED
      BY <3>1, <3>2, Zenon
  <2>11. a[1] = data[at + 1] /\ b[1] = data[at + 2] /\ b[2] = data[at + 3]
    BY <1>0, <2>5, <2>6, <2>9
  <2>12. /\ At(h, data, at + 3)
         /\ IsBytes(h.out[1], 1) /\ h.out[1][1] = data[at + 1]
         /\ IsBytes(h.out[2], 2)
         /\ h.out[2][1] = data[at + 2] /\ h.out[2][2] = data[at + 3]
         /\ h.out = Append(Append(<<>>, h.out[1]), h.out[2])
    BY <2>5, <2>7, <2>9, <2>10, <2>11, Zenon
  <2>13. ~ (at + 3 > Len(data))
    BY <1>0, <1>5
  <2> QED
    BY <2>12, <2>13, Zenon
<1> QED
  BY <1>0, <1>4, <1>5

\* The payload length of a frame whose length field is the number bits.
payload_length(bits) == ((bits + 7) % 65536) \div 8

\* The length of a payload is a natural number.
LEMMA PayloadLength ==
    ASSUME NEW bits \in Nat
    PROVE  payload_length(bits) \in Nat
<1>1. PICK x : x = bits + 7
  OBVIOUS
<1>2. x \in Nat
  BY <1>1
<1>3. x % 65536 \in Nat
  BY <1>2
<1>4. PICK y : y = x % 65536
  OBVIOUS
<1>5. y \in Nat
  BY <1>3, <1>4
<1>6. y \div 8 \in Nat
  BY <1>5
<1> QED
  BY <1>1, <1>4, <1>6 DEF payload_length

\* A frame is decoded or refused, and the bytes it took were there.
LEMMA DecodeFrameSound ==
    ASSUME NEW data \in Seq(Byte), NEW at \in 0 .. Len(data)
    PROVE  Sound(DecodeFrame(data, at), data, 0)
<1>0. Len(data) \in Nat /\ at \in Nat /\ at =< Len(data)
  BY LenProperties
<1> DEFINE header == Read(Cursor(data, at), <<Need(3), Bytes(1), Bytes(2)>>)
           flags == header.out[1][1]
           bits == get_u16(header.out[2])
           n == payload_length(bits)
           rest == IndexSteps(flags) \o <<Need(n), Bytes(n)>>
<1>1. DecodeFrame(data, at) =
         IF header.status # "ok" THEN header
         ELSE IF flags \div 32 \notin Reliability THEN Refuse(header)
         ELSE Read(header, rest)
  BY DEF DecodeFrame, payload_length
<1>2. /\ at + 3 > Len(data) => header.status = "error"
      /\ at + 3 =< Len(data) => At(header, data, at + 3) /\ IsBytes(header.out[2], 2)
  BY FrameHeader
<1> HIDE DEF header
<1>3. Sound(header, data, 0)
  BY <1>0, <1>2 DEF Sound, At
<1>4. ASSUME header.status = "ok" PROVE Sound(Read(header, rest), data, 0)
  <2>1. IsBytes(header.out[2], 2)
    BY <1>0, <1>2, <1>4
  <2>2. bits \in Nat
    BY <2>1, GetU16
  <2> HIDE DEF bits
  <2>3. n \in Nat
    BY <2>2, PayloadLength
  <2> HIDE DEF n
  <2>4. Safe(rest)
    BY <2>3, StepsSafe
  <2> HIDE DEF rest
  <2> QED
    BY <1>3, <2>4, ReadSound
<1> HIDE DEF rest, flags
<1>5. Sound(Refuse(header), data, 0)
  BY DEF Sound, Refuse, Stop
<1> QED
  BY <1>1, <1>3, <1>4, <1>5

\* The frame loop never ends in a read past the end, whatever the bytes.
LEMMA DecodeFramesSafe ==
    ASSUME NEW data \in Seq(Byte)
    PROVE  DecodeFrames(data).status \in {"ok", "error"}
<1>1. PICK n : n = Len(data)
  OBVIOUS
<1>2. n \in Nat
  BY <1>1, LenProperties
<1>3. PICK r : /\ r[0] = [status |-> "ok", at |-> 0, frames |-> <<>>]
               /\ \A i \in 1 .. n : r[i] = NextFrame(data, r[i - 1])
               /\ DecodeFrames(data) = r[n]
  BY <1>1, <1>2, FrameTurns
<1> DEFINE Fine(x) == x.status = "error" \/ (x.status = "ok" /\ x.at \in 0 .. n)
           E == {i \in 0 .. n : Fine(r[i])}
<1>4. 0 \in E
  BY <1>2, <1>3
<1>5. ASSUME NEW i \in 0 .. n - 1, i \in E PROVE i + 1 \in E
  <2>1. i + 1 \in 1 .. n /\ i + 1 \in 0 .. n /\ (i + 1) - 1 = i
    BY <1>2
  <2>2. PICK x, y : x = r[i] /\ y = r[i + 1]
    OBVIOUS
  <2>3. y = NextFrame(data, x) /\ Fine(x)
    BY <1>3, <1>5, <2>1, <2>2
  <2>4. CASE x.status # "ok" \/ x.at = Len(data)
    <3>1. y = x
      BY <2>3, <2>4 DEF NextFrame
    <3> QED
      BY <2>1, <2>2, <2>3, <3>1
  <2>5. CASE x.status = "ok" /\ x.at # Len(data)
    <3>1. PICK frame : frame = DecodeFrame(data, x.at)
      OBVIOUS
    <3>2. Sound(frame, data, 0)
      BY <1>1, <2>3, <2>5, <3>1, DecodeFrameSound
    <3>3. y.status = frame.status /\ y.at = frame.at
      BY <2>3, <2>5, <3>1 DEF NextFrame
    <3>4. Fine(y)
      BY <1>1, <1>2, <3>2, <3>3 DEF Sound
    <3> QED
      BY <2>1, <2>2, <3>4
  <2> QED
    BY <2>4, <2>5
<1> HIDE DEF E
<1>6. \A i \in 0 .. n : i \in E
  BY <1>2, <1>4, <1>5, UpTo
<1>7. Fine(r[n])
  BY <1>2, <1>6 DEF E
<1> QED
  BY <1>3, <1>7

\* The part of a datagram behind its first byte is a byte sequence.
LEMMA DatagramFrames ==
    ASSUME NEW data \in Seq(Byte)
    PROVE  decode_datagram(data).frames \in Seq(Byte)
<1>1. <<>> \in Seq(Byte) /\ Len(data) \in Nat
  BY EmptySeq, LenProperties
<1>2. Len(data) >= 4 => SubSeq(data, 2, Len(data)) \in Seq(Byte)
  <2>1. \A k \in 2 .. Len(data) : data[k] \in Byte
    BY <1>1, ElementOfSeq
  <2> QED
    BY <1>1, <2>1
<1> QED
  BY <1>1, <1>2 DEF decode_datagram

\* No decoder reads past the end of the bytes it is given, whatever they are:
\* the twelve control packets, ACK and NACK packets, and datagrams with the
\* frames in them.  The length checks of the decoders are enough for any input,
\* not only for what an encoder of this program wrote.
THEOREM DecodersNeverPanic ==
    ASSUME NEW data \in Seq(Byte)
    PROVE  /\ \A kind \in Kinds : Decode(kind, data).status \in {"ok", "error"}
           /\ decode_ack_nack(data).status \in {"ok", "error"}
           /\ DecodeFrames(decode_datagram(data).frames).status \in {"ok", "error"}
<1>1. ASSUME NEW kind \in Kinds PROVE Decode(kind, data).status \in {"ok", "error"}
  <2>1. Sound(Cursor(data, 0), data, 0)
    <3>1. 0 + 0 =< Len(data)
      BY LenProperties
    <3> QED
      BY <3>1, NoneIsSequence DEF Sound, Cursor
  <2>2. Sound(Read(Cursor(data, 0), Packet[kind].read), data, 0)
    BY <2>1, DecodersSafe, ReadSound
  <2> QED
    BY <2>2 DEF Decode, Sound
<1> QED
  BY <1>1, DecodeAckSafe, DatagramFrames, DecodeFramesSafe

\* The length checks come before the reads: no decoder, given any of the
\* packets on the wire or the beginning of one, reads past the end.
THEOREM NoReadPastTheEnd == Spec => []NeverReadsPastTheEnd
<1>1. Inv => NeverReadsPastTheEnd
  <2> SUFFICES ASSUME Inv, NEW i \in DOMAIN wire, NEW data, data = wire[i].bytes
               PROVE  /\ \A kind \in Kinds : Decode(kind, data).status # "panic"
                      /\ decode_ack_nack(data).status # "panic"
                      /\ DecodeFrames(decode_datagram(data).frames).status # "panic"
    BY DEF NeverReadsPastTheEnd
  <2>1. data \in Seq(Byte)
    BY WireBytes DEF Inv
  <2> QED
    BY <2>1, DecodersNeverPanic
<1> QED
  BY <1>1, Invariance, PTL

\* f is the loop of InsertRecords, n records of it.
InsertLoop(f, records, n) ==
    f = [i \in 0 .. n |-> IF i = 0 THEN <<>> ELSE InsertRecord(f[i - 1], records[i])]

\* There is such a function.
LEMMA InsertLoopExists ==
    ASSUME NEW records, NEW n \in Nat
    PROVE  \E f : InsertLoop(f, records, n)
<1> DEFINE E == {m \in 0 .. n : \E f : InsertLoop(f, records, m)}
<1>1. 0 \in E
  <2>1. InsertLoop([k \in 0 .. 0 |-> <<>>], records, 0)
    BY DEF InsertLoop
  <2> QED
    BY <2>1
<1>2. ASSUME NEW m \in 0 .. n - 1, m \in E PROVE m + 1 \in E
  <2>1. PICK f : InsertLoop(f, records, m)
    BY <1>2
  <2> DEFINE g == [k \in 0 .. m + 1 |-> IF k = m + 1 THEN InsertRecord(f[m], records[m + 1]) ELSE f[k]]
  <2>2. \A k \in 1 .. m + 1 : g[k - 1] = f[k - 1]
    OBVIOUS
  <2>3. \A k \in 0 .. m + 1 : g[k] = IF k = 0 THEN <<>> ELSE InsertRecord(g[k - 1], records[k])
    BY <2>1, <2>2 DEF InsertLoop
  <2>4. InsertLoop(g, records, m + 1)
    BY <2>3 DEF InsertLoop
  <2> QED
    BY <2>4
<1> HIDE DEF E
<1>3. \A m \in 0 .. n : m \in E
  BY <1>1, <1>2, UpTo
<1> QED
  BY <1>3 DEF E

\* The list that decode_ack_nack makes of the records holds what they cover,
\* whatever their order and whether they overlap.
LEMMA InsertRecordsProperty ==
    ASSUME NEW records \in Seq(AckRange)
    PROVE  /\ InsertRecords(records) \in AckList
           /\ \A x \in u24 : Holds(InsertRecords(records), x)
                             <=> \E j \in 1 .. Len(records) : InRange(records[j], x)
<1>1. PICK n : n = Len(records)
  OBVIOUS
<1>2. n \in Nat /\ \A j \in 1 .. n : records[j] \in AckRange
  BY <1>1, LenProperties, ElementOfSeq
<1> DEFINE r == CHOOSE f : InsertLoop(f, records, n)
<1>3. InsertLoop(r, records, n)
  BY <1>2, InsertLoopExists
<1>4. InsertRecords(records) = r[n]
  BY <1>1 DEF InsertRecords, InsertLoop
<1> HIDE DEF r
<1>5. r[0] = <<>> /\ \A i \in 1 .. n : r[i] = InsertRecord(r[i - 1], records[i])
  BY <1>2, <1>3 DEF InsertLoop
<1> DEFINE Good(i) == /\ r[i] \in AckList
                      /\ \A x \in u24 : Holds(r[i], x) <=> \E j \in 1 .. i : InRange(records[j], x)
           E == {i \in 0 .. n : Good(i)}
<1>6. 0 \in E
  <2>1. r[0] \in AckList
    BY <1>5, EmptySeq DEF AckList, IsCompressed
  <2>2. \A x \in u24 : ~ Holds(r[0], x)
    BY <1>5 DEF Holds
  <2> QED
    BY <1>2, <2>1, <2>2
<1>7. ASSUME NEW i \in 0 .. n - 1, i \in E PROVE i + 1 \in E
  <2>1. i + 1 \in 1 .. n /\ i + 1 \in 0 .. n /\ (i + 1) - 1 = i /\ 1 .. i + 1 = (1 .. i) \cup {i + 1}
    BY <1>2
  <2>2. r[i + 1] = InsertRecord(r[i], records[i + 1]) /\ records[i + 1] \in AckRange /\ Good(i)
    BY <1>2, <1>5, <1>7, <2>1
  <2>3. /\ InsertRecord(r[i], records[i + 1]) \in AckList
        /\ \A x \in u24 : Holds(InsertRecord(r[i], records[i + 1]), x)
                          <=> Holds(r[i], x) \/ InRange(records[i + 1], x)
    BY <2>2, InsertRecordProperty
  <2>4. Good(i + 1)
    BY <2>1, <2>2, <2>3, Zenon
  <2> QED
    BY <2>1, <2>4
<1> HIDE DEF E
<1>8. \A i \in 0 .. n : i \in E
  BY <1>2, <1>6, <1>7, UpTo
<1>9. Good(n)
  BY <1>2, <1>8 DEF E
<1> QED
  BY <1>1, <1>4, <1>9

\* A list put through decode_ack_nack stands for the same numbers.
LEMMA InsertRecordsOfList ==
    ASSUME NEW l \in AckList
    PROVE  InsertRecords(l) \in AckList /\ Covered(InsertRecords(l)) = Covered(l)
<1>1. /\ l \in Seq(AckRange) /\ Len(l) \in Nat
      /\ \A i \in 1 .. Len(l) : l[i].start =< l[i].end
  BY AckListElements
<1>2. \A x \in u24 : Holds(l, x) <=> \E j \in 1 .. Len(l) : InRange(l[j], x)
  <2>1. ASSUME NEW x \in u24, NEW j \in 1 .. Len(l)
        PROVE  InRange(l[j], x) <=> l[j].start =< x /\ x =< l[j].end
    <3>1. l[j].start \in Int /\ l[j].end \in Int /\ x \in Int /\ l[j].start =< l[j].end
      <4>1. x \in Int
        BY DEF u24
      <4> QED
        BY <4>1, AckListElements
    <3> QED
      BY <3>1 DEF InRange, seq_in_range
  <2> QED
    BY <2>1 DEF Holds
<1> QED
  BY <1>1, <1>2, InsertRecordsProperty DEF Covered

(***************************************************************************)
(* What an ACK packet removes from the send queue.                         *)
(*                                                                         *)
(* The records lie end to end behind the count; each is read back where it *)
(* ends, and their ranges cover what the list covers.                      *)
(***************************************************************************)

\* f is the loop of handle_ack, n ranges of it.
HandleLoop(f, q, l, n) ==
    f = [i \in 0 .. n |-> IF i = 0 THEN q
                          ELSE IF l[i].start = l[i].end
                          THEN acknowledge(f[i - 1], l[i].start)
                          ELSE acknowledge_range(f[i - 1], l[i].start, l[i].end)]

\* One turn of it.
NextHandled(q, range) ==
    IF range.start = range.end
    THEN acknowledge(q, range.start)
    ELSE acknowledge_range(q, range.start, range.end)

\* There is such a function.
LEMMA HandleLoopExists ==
    ASSUME NEW q, NEW l, NEW n \in Nat
    PROVE  \E f : HandleLoop(f, q, l, n)
<1> DEFINE E == {m \in 0 .. n : \E f : HandleLoop(f, q, l, m)}
<1>1. 0 \in E
  <2>1. HandleLoop([k \in 0 .. 0 |-> q], q, l, 0)
    BY DEF HandleLoop
  <2> QED
    BY <2>1
<1>2. ASSUME NEW m \in 0 .. n - 1, m \in E PROVE m + 1 \in E
  <2>1. PICK f : HandleLoop(f, q, l, m)
    BY <1>2
  <2> DEFINE g == [k \in 0 .. m + 1 |-> IF k = m + 1 THEN NextHandled(f[m], l[m + 1]) ELSE f[k]]
  <2>2. \A k \in 1 .. m + 1 : g[k - 1] = f[k - 1]
    OBVIOUS
  <2>3. f[0] = q /\ \A k \in 1 .. m : f[k] = NextHandled(f[k - 1], l[k])
    BY <2>1 DEF HandleLoop, NextHandled
  <2>4. g[0] = q /\ \A k \in 1 .. m + 1 : g[k] = NextHandled(g[k - 1], l[k])
    BY <2>2, <2>3
  <2>5. g = [k \in 0 .. m + 1 |-> g[k]]
    OBVIOUS
  <2> HIDE DEF g
  <2>6. \A k \in 0 .. m + 1 : g[k] = IF k = 0 THEN q ELSE NextHandled(g[k - 1], l[k])
    BY <2>4
  <2>7. g = [k \in 0 .. m + 1 |-> IF k = 0 THEN q ELSE NextHandled(g[k - 1], l[k])]
    BY <2>5, <2>6
  <2>8. HandleLoop(g, q, l, m + 1)
    BY <2>7 DEF HandleLoop, NextHandled
  <2> QED
    BY <2>8
<1> HIDE DEF E
<1>3. \A m \in 0 .. n : m \in E
  BY <1>1, <1>2, UpTo
<1> QED
  BY <1>3 DEF E

\* One range takes exactly its numbers out of the queue.
LEMMA NextHandledProperty ==
    ASSUME NEW D \in SUBSET u24, NEW q, q = [s \in D |-> q[s]], NEW range \in AckRange,
           range.start =< range.end
    PROVE  NextHandled(q, range) = [s \in {x \in D : ~ (range.start =< x /\ x =< range.end)} |-> q[s]]
<1>1. DOMAIN q = D /\ D \subseteq Int /\ range.start \in Int /\ range.end \in Int
  BY DEF u24, AckRange
<1>2. PICK a, b : a = range.start /\ b = range.end
  OBVIOUS
<1>3. CASE a = b
  <2>1. NextHandled(q, range) = [s \in D \ {a} |-> q[s]]
    BY <1>1, <1>2, <1>3 DEF NextHandled, acknowledge, Without
  <2>2. D \ {a} = {x \in D : ~ (a =< x /\ x =< b)}
    BY <1>1, <1>2, <1>3
  <2> QED
    BY <1>2, <2>1, <2>2
<1>4. CASE a # b
  <2>1. NextHandled(q, range) = [s \in D \ {x \in D : a =< x /\ x =< b} |-> q[s]]
    BY <1>1, <1>2, <1>4 DEF NextHandled, acknowledge_range, Without
  <2>2. D \ {x \in D : a =< x /\ x =< b} = {x \in D : ~ (a =< x /\ x =< b)}
    OBVIOUS
  <2> QED
    BY <1>2, <2>1, <2>2
<1> QED
  BY <1>3, <1>4

\* handle_ack takes the numbers of the list out of the queue and nothing else.
LEMMA HandleAckProperty ==
    ASSUME NEW l \in AckList, NEW q, q = [s \in u24 |-> q[s]]
    PROVE  HandleAck(q, l) = Without(q, Covered(l))
<1>1. PICK n : n = Len(l)
  OBVIOUS
<1>2. n \in Nat /\ \A j \in 1 .. n : l[j] \in AckRange /\ l[j].start =< l[j].end
  BY <1>1, AckListElements, ElementOfSeq
<1> DEFINE r == CHOOSE f : HandleLoop(f, q, l, n)
<1>3. HandleLoop(r, q, l, n)
  BY <1>2, HandleLoopExists
<1>4. HandleAck(q, l) = r[n]
  BY <1>1 DEF HandleAck, HandleLoop
<1> HIDE DEF r
<1>5. r[0] = q /\ \A i \in 1 .. n : r[i] = NextHandled(r[i - 1], l[i])
  BY <1>2, <1>3 DEF HandleLoop, NextHandled
<1> DEFINE Left(i) == {x \in u24 : \A j \in 1 .. i : ~ (l[j].start =< x /\ x =< l[j].end)}
           Good(i) == r[i] = [s \in Left(i) |-> q[s]]
           E == {i \in 0 .. n : Good(i)}
<1>6. 0 \in E
  <2>1. Left(0) = u24
    OBVIOUS
  <2> QED
    BY <1>2, <1>5, <2>1
<1>7. ASSUME NEW i \in 0 .. n - 1, i \in E PROVE i + 1 \in E
  <2>1. i + 1 \in 1 .. n /\ i + 1 \in 0 .. n /\ (i + 1) - 1 = i /\ 1 .. i + 1 = (1 .. i) \cup {i + 1}
    BY <1>2
  <2>2. PICK old, range : old = r[i] /\ range = l[i + 1]
    OBVIOUS
  <2>3. /\ r[i + 1] = NextHandled(old, range) /\ range \in AckRange /\ range.start =< range.end
        /\ old = [s \in Left(i) |-> q[s]]
    BY <1>2, <1>5, <1>7, <2>1, <2>2
  <2>4. Left(i) \in SUBSET u24 /\ old = [s \in Left(i) |-> old[s]]
    BY <2>3
  <2>5. Left(i + 1) = {x \in Left(i) : ~ (range.start =< x /\ x =< range.end)}
    BY <2>1, <2>2
  <2>6. \A s \in Left(i) : old[s] = q[s]
    BY <2>3
  <2> HIDE DEF Left
  <2>7. r[i + 1] = [s \in {x \in Left(i) : ~ (range.start =< x /\ x =< range.end)} |-> old[s]]
    <3>1. PICK D : D = Left(i)
      OBVIOUS
    <3>2. D \in SUBSET u24 /\ old = [s \in D |-> old[s]]
      BY <2>4, <3>1
    <3>3. NextHandled(old, range) = [s \in {x \in D : ~ (range.start =< x /\ x =< range.end)} |-> old[s]]
      <4>1. range \in AckRange /\ range.start =< range.end
        BY <2>3
      <4> QED
        BY <4>1, <3>2, NextHandledProperty, Zenon
    <3> QED
      BY <2>3, <3>1, <3>3
  <2>8. r[i + 1] = [s \in Left(i + 1) |-> q[s]]
    BY <2>5, <2>6, <2>7
  <2> QED
    BY <2>1, <2>8
<1> HIDE DEF E
<1>8. \A i \in 0 .. n : i \in E
  BY <1>2, <1>6, <1>7, UpTo
<1>9. Good(n)
  BY <1>2, <1>8 DEF E
<1>10. Left(n) = (DOMAIN q) \ Covered(l)
  BY <1>1 DEF Covered, Holds
<1> QED
  BY <1>4, <1>9, <1>10 DEF Without

\* An integer survives its two bytes, and its three.
LEMMA RoundTrip16 ==
    ASSUME NEW n \in Nat, n < 65536
    PROVE  get_u16(put_u16(n)) = n
<1>1. PICK a, q : a = n % 256 /\ q = n \div 256
  OBVIOUS
<1>2. a \in Int /\ q \in Int /\ n = 256 * q + a /\ 0 =< a /\ a < 256
  BY <1>1
<1>3. 0 =< q /\ q < 256
  BY <1>2
<1>4. q % 256 = q
  BY <1>2, <1>3
<1>5. put_u16(n) = <<q, a>>
  BY <1>1, <1>4 DEF put_u16
<1> QED
  BY <1>2, <1>5 DEF get_u16

\* read_u24_le reads back what write_u24_le wrote.
LEMMA RoundTrip24 ==
    ASSUME NEW n \in Nat, n =< u24_MAX
    PROVE  read_u24_le(write_u24_le(n)) = n
<1>1. PICK a, q : a = n % 256 /\ q = n \div 256
  OBVIOUS
<1>2. a \in Int /\ q \in Int /\ n = 256 * q + a /\ 0 =< a /\ a < 256
  BY <1>1
<1>3. 0 =< q /\ q < 65536
  BY <1>2 DEF u24_MAX
<1>4. PICK b, p : b = q % 256 /\ p = q \div 256
  OBVIOUS
<1>5. b \in Int /\ p \in Int /\ q = 256 * p + b /\ 0 =< b /\ b < 256
  BY <1>2, <1>4
<1>6. 0 =< p /\ p < 256
  BY <1>3, <1>5
<1>7. p % 256 = p
  BY <1>5, <1>6
<1>8. n \div 65536 = p
  BY <1>2, <1>5
<1>9. write_u24_le(n) = <<a, b, p>>
  BY <1>1, <1>4, <1>7, <1>8 DEF write_u24_le
<1> QED
  BY <1>2, <1>5, <1>9 DEF read_u24_le

\* A checked field of n bytes.
LEMMA ReadField ==
    ASSUME NEW data \in Seq(Byte), NEW at \in 0 .. Len(data), NEW c, At(c, data, at), NEW n \in Nat,
           NEW d, d = Read(c, <<Need(n), Bytes(n)>>)
    PROVE  /\ at + n > Len(data) => d.status = "error"
           /\ at + n =< Len(data) =>
                 \E b : /\ IsBytes(b, n)
                        /\ \A j \in 1 .. n : b[j] = data[at + j]
                        /\ d.out = Append(c.out, b)
                        /\ At(d, data, at + n)
<1>0. Len(data) \in Nat
  BY LenProperties
<1>1. d = ReadStep(ReadStep(c, Need(n)), Bytes(n))
  BY ReadTwo
<1>2. CASE at + n > Len(data)
  <2>1. ReadStep(c, Need(n)).status = "error"
    BY <1>2, Field
  <2>2. d.status = "error"
    BY <1>1, <2>1, Failed
  <2> QED
    BY <1>0, <1>2, <2>2
<1>3. CASE at + n =< Len(data)
  <2>1. ReadStep(c, Need(n)) = c
    BY <1>3, Field
  <2>2. d = ReadStep(c, Bytes(n))
    BY <1>1, <2>1
  <2>3. \E b : /\ IsBytes(b, n)
               /\ \A j \in 1 .. n : b[j] = data[at + j]
               /\ d.out = Append(c.out, b)
               /\ At(d, data, at + n)
    BY <1>3, <2>2, Field, Zenon
  <2>4. ~ (at + n > Len(data))
    BY <1>0, <1>3
  <2> QED
    BY <2>3, <2>4, Zenon
<1> QED
  BY <1>0, <1>2, <1>3

\* Two checked fields of three bytes.
LEMMA ReadTwoFields ==
    ASSUME NEW data \in Seq(Byte), NEW at \in 0 .. Len(data), NEW c, At(c, data, at),
           NEW d, d = Read(c, <<Need(6), Bytes(3), Bytes(3)>>)
    PROVE  /\ at + 6 > Len(data) => d.status = "error"
           /\ at + 6 =< Len(data) =>
                 \E a, b : /\ IsBytes(a, 3) /\ \A j \in 1 .. 3 : a[j] = data[at + j]
                           /\ IsBytes(b, 3) /\ \A j \in 1 .. 3 : b[j] = data[(at + 3) + j]
                           /\ d.out = Append(Append(c.out, a), b)
                           /\ At(d, data, at + 6)
<1>0. Len(data) \in Nat /\ at \in Nat /\ 6 \in Nat /\ 3 \in Nat
  BY LenProperties
<1>1. PICK s1, s2, s3 : s1 = Need(6) /\ s2 = Bytes(3) /\ s3 = Bytes(3)
  OBVIOUS
<1>2. Read(c, <<s1, s2, s3>>) = ReadStep(ReadStep(ReadStep(c, s1), s2), s3)
  BY ReadThree
<1>3. PICK c1, c2 : c1 = ReadStep(c, Need(6)) /\ c2 = ReadStep(c1, Bytes(3))
  OBVIOUS
<1>4. d = ReadStep(c2, Bytes(3))
  BY <1>1, <1>2, <1>3
<1>5. CASE at + 6 > Len(data)
  <2>1. c1.status = "error"
    BY <1>0, <1>3, <1>5, Field
  <2>2. d.status = "error"
    BY <1>3, <1>4, <2>1, Failed
  <2> QED
    BY <1>0, <1>5, <2>2
<1>6. CASE at + 6 =< Len(data)
  <2>1. c1 = c
    BY <1>0, <1>3, <1>6, Field
  <2>2. at + 3 =< Len(data)
    BY <1>0, <1>6
  <2>3. PICK a : /\ IsBytes(a, 3) /\ \A j \in 1 .. 3 : a[j] = data[at + j]
                 /\ c2.out = Append(c.out, a) /\ At(c2, data, at + 3)
    BY <1>0, <1>3, <2>1, <2>2, Field, Zenon
  <2>4. PICK q : q = at + 3
    OBVIOUS
  <2>5. q \in 0 .. Len(data) /\ q + 3 =< Len(data) /\ q + 3 = at + 6
    BY <1>0, <1>6, <2>4
  <2>6. At(c2, data, q)
    BY <2>3, <2>4
  <2>7. PICK b : /\ IsBytes(b, 3) /\ \A j \in 1 .. 3 : b[j] = data[q + j]
                 /\ d.out = Append(c2.out, b) /\ At(d, data, q + 3)
    BY <1>0, <1>4, <2>5, <2>6, Field, Zenon
  <2>8. ~ (at + 6 > Len(data))
    BY <1>0, <1>6
  <2>9. /\ d.out = Append(Append(c.out, a), b) /\ At(d, data, at + 6)
        /\ \A j \in 1 .. 3 : b[j] = data[(at + 3) + j]
    BY <2>3, <2>4, <2>5, <2>7
  <2> QED
    BY <2>3, <2>7, <2>8, <2>9, Zenon
<1> QED
  BY <1>0, <1>5, <1>6

\* One byte sequence after the other.
LEMMA Joined ==
    ASSUME NEW a \in Seq(Byte), NEW b \in Seq(Byte)
    PROVE  /\ a \o b \in Seq(Byte) /\ Len(a \o b) = Len(a) + Len(b)
           /\ \A j \in 1 .. Len(a) : (a \o b)[j] = a[j]
           /\ \A j \in 1 .. Len(b) : (a \o b)[Len(a) + j] = b[j]
BY Concatenation

\* The same, of known lengths.
LEMMA JoinedBytes ==
    ASSUME NEW a \in Seq(Byte), NEW b \in Seq(Byte), NEW m, NEW n, Len(a) = m, Len(b) = n,
           NEW w, w = a \o b
    PROVE  /\ w \in Seq(Byte) /\ Len(w) = m + n
           /\ \A j \in 1 .. m : w[j] = a[j]
           /\ \A j \in 1 .. n : w[m + j] = b[j]
<1>1. /\ a \o b \in Seq(Byte) /\ Len(a \o b) = Len(a) + Len(b)
      /\ \A j \in 1 .. Len(a) : (a \o b)[j] = a[j]
      /\ \A j \in 1 .. Len(b) : (a \o b)[Len(a) + j] = b[j]
  BY Joined, Zenon
<1>2. /\ w \in Seq(Byte) /\ Len(w) = Len(a) + Len(b)
      /\ \A j \in 1 .. Len(a) : w[j] = a[j]
      /\ \A j \in 1 .. Len(b) : w[Len(a) + j] = b[j]
  BY <1>1
<1> QED
  BY <1>2

\* A byte in front of some others.
LEMMA HeadByte ==
    ASSUME NEW b \in Byte, NEW s \in Seq(Byte), NEW n, Len(s) = n, NEW w, w = <<b>> \o s
    PROVE  /\ w \in Seq(Byte) /\ Len(w) = 1 + n /\ w[1] = b
           /\ \A j \in 1 .. n : w[1 + j] = s[j]
<1>1. PICK h : h = <<b>>
  OBVIOUS
<1>2. h \in Seq(Byte) /\ Len(h) = 1 /\ h[1] = b
  BY <1>1
<1>3. w = h \o s
  BY <1>1
<1>4. /\ w \in Seq(Byte) /\ Len(w) = 1 + n
      /\ \A j \in 1 .. 1 : w[j] = h[j]
      /\ \A j \in 1 .. n : w[1 + j] = s[j]
  BY <1>2, <1>3, JoinedBytes
<1> QED
  BY <1>2, <1>4

\* The bytes of a record: its type, its start and, for a range, its end.
LEMMA RangeLayout ==
    ASSUME NEW range \in AckRange, NEW e, e = EncodeRange(range)
    PROVE  /\ range.start = range.end =>
                 /\ e[1] = 1 /\ Len(e) = 4
                 /\ \A j \in 1 .. 3 : e[1 + j] = write_u24_le(range.start)[j]
           /\ range.start # range.end =>
                 /\ e[1] = 0 /\ Len(e) = 7
                 /\ \A j \in 1 .. 3 : e[1 + j] = write_u24_le(range.start)[j]
                 /\ \A j \in 1 .. 3 : e[4 + j] = write_u24_le(range.end)[j]
<1>1. PICK s, t : s = write_u24_le(range.start) /\ t = write_u24_le(range.end)
  OBVIOUS
<1>2. s \in Seq(Byte) /\ t \in Seq(Byte) /\ Len(s) = 3 /\ Len(t) = 3
  <2>1. range.start \in Nat /\ range.end \in Nat
    BY DEF AckRange, u24
  <2> QED
    BY <1>1, <2>1, IntegerBytes DEF IsBytes
<1>3. 0 \in Byte /\ 1 \in Byte
  BY DEF Byte
<1>4. PICK one, zero : one = <<1>> \o s /\ zero = <<0>> \o s
  OBVIOUS
<1>5. /\ one \in Seq(Byte) /\ Len(one) = 4 /\ one[1] = 1 /\ \A j \in 1 .. 3 : one[1 + j] = s[j]
      /\ zero \in Seq(Byte) /\ Len(zero) = 4 /\ zero[1] = 0 /\ \A j \in 1 .. 3 : zero[1 + j] = s[j]
  <2>1. PICK n : n = 3
    OBVIOUS
  <2>2. Len(s) = n
    BY <1>2, <2>1
  <2>3. /\ one \in Seq(Byte) /\ Len(one) = 1 + n /\ one[1] = 1
        /\ \A j \in 1 .. n : one[1 + j] = s[j]
    BY <1>2, <1>3, <1>4, <2>2, HeadByte
  <2>4. /\ zero \in Seq(Byte) /\ Len(zero) = 1 + n /\ zero[1] = 0
        /\ \A j \in 1 .. n : zero[1 + j] = s[j]
    BY <1>2, <1>3, <1>4, <2>2, HeadByte
  <2> QED
    BY <2>1, <2>3, <2>4
<1>6. PICK two : two = zero \o t
  OBVIOUS
<1>7. /\ Len(two) = 7 /\ \A j \in 1 .. 4 : two[j] = zero[j]
      /\ \A j \in 1 .. 3 : two[4 + j] = t[j]
  <2>1. zero \in Seq(Byte) /\ t \in Seq(Byte)
    BY <1>2, <1>5
  <2>2. /\ Len(zero \o t) = Len(zero) + Len(t)
        /\ \A j \in 1 .. Len(zero) : (zero \o t)[j] = zero[j]
        /\ \A j \in 1 .. Len(t) : (zero \o t)[Len(zero) + j] = t[j]
    BY <2>1, Concatenation
  <2>3. /\ Len(two) = Len(zero) + Len(t)
        /\ \A j \in 1 .. Len(zero) : two[j] = zero[j]
        /\ \A j \in 1 .. Len(t) : two[Len(zero) + j] = t[j]
    BY <1>6, <2>2
  <2> QED
    BY <1>2, <1>5, <2>3
<1>8. two[1] = 0 /\ \A j \in 1 .. 3 : two[1 + j] = s[j]
  BY <1>5, <1>7
<1>9. e = IF range.start = range.end THEN one ELSE two
  BY <1>1, <1>4, <1>6 DEF EncodeRange
<1> QED
  BY <1>1, <1>5, <1>7, <1>8, <1>9

\* The last two values of three.
LEMMA ThreeValues ==
    ASSUME NEW v, NEW a, NEW b
    PROVE  /\ Append(Append(Append(<<>>, v), a), b)[2] = a
           /\ Last(Append(Append(Append(<<>>, v), a), b)) = b
<1>1. PICK u : u = Append(<<>>, v)
  OBVIOUS
<1>2. PICK s : s = Append(u, a)
  OBVIOUS
<1>3. IsSequence(u) /\ Len(u) = 1
  BY <1>1, TwoValues
<1>4. IsSequence(s) /\ Len(s) = 2 /\ s[2] = a
  <2>1. /\ IsSequence(Append(u, a)) /\ Len(Append(u, a)) = Len(u) + 1
        /\ Append(u, a)[Len(u) + 1] = a
    BY <1>3, AppendSequence
  <2>2. Len(u) + 1 = 2
    BY <1>3
  <2> QED
    BY <1>2, <2>1, <2>2
<1>5. /\ Last(Append(s, b)) = b
      /\ \A i \in 1 .. Len(s) : Append(s, b)[i] = s[i]
  BY <1>4, AppendSequence
<1>6. 2 \in 1 .. Len(s)
  BY <1>4
<1> QED
  BY <1>1, <1>2, <1>4, <1>5, <1>6

\* Three bytes that are those of a number read as that number.
LEMMA ReadNumber ==
    ASSUME NEW b, NEW x \in Nat, x =< u24_MAX,
           \A j \in 1 .. 3 : b[j] = write_u24_le(x)[j]
    PROVE  read_u24_le(b) = x
<1>1. PICK w : w = write_u24_le(x)
  OBVIOUS
<1>2. b[1] = w[1] /\ b[2] = w[2] /\ b[3] = w[3]
  BY <1>1
<1>3. read_u24_le(b) = read_u24_le(w)
  BY <1>2 DEF read_u24_le
<1> QED
  BY <1>1, <1>3, RoundTrip24

\* What there is of data from at on is what e begins with.
Carries(data, at, e) ==
    \A j \in 1 .. Len(e) : at + j =< Len(data) => data[at + j] = e[j]

\* How a record is read from at on: d is the cursor after it.
RecordRead(c, d, data, at, e, range) ==
    /\ at + Len(e) > Len(data) => d.status = "error"
    /\ at + Len(e) =< Len(data) => At(d, data, at + Len(e)) /\ d.out = Append(c.out, range)

\* A record is decoded to the range it was written for if all its bytes are
\* there, and refused otherwise.
LEMMA DecodeRangeAt ==
    ASSUME NEW data \in Seq(Byte), NEW at \in 0 .. Len(data), NEW c, At(c, data, at),
           NEW range \in AckRange, range.start =< u24_MAX, range.end =< u24_MAX,
           NEW e, e = EncodeRange(range), Carries(data, at, e)
    PROVE  RecordRead(c, DecodeRange(c), data, at, e, range)
<1>0. Len(data) \in Nat /\ at \in Nat /\ at =< Len(data) /\ 1 \in Nat /\ 3 \in Nat
  BY LenProperties
<1>a. /\ range.start \in Nat /\ range.end \in Nat
      /\ range = [start |-> range.start, end |-> range.end]
  BY DEF AckRange, u24
<1>b. PICK n : n = Len(e)
  OBVIOUS
<1>c. /\ range.start = range.end => n = 4 /\ e[1] = 1
      /\ range.start # range.end => n = 7 /\ e[1] = 0
      /\ n = 4 \/ n = 7
  BY <1>b, RangeLayout
<1>d. \A j \in 1 .. Len(e) : at + j =< Len(data) => data[at + j] = e[j]
  BY DEF Carries
<1> DEFINE start == Advance(c, 0, <<>>)
           tag == Read(start, <<Need(1), Bytes(1)>>)
           type == tag.out[1][1]
           one == Read(tag, <<Need(3), Bytes(3)>>)
           two == Read(tag, <<Need(6), Bytes(3), Bytes(3)>>)
           body == IF type = 1 THEN one ELSE two
           value == [start |-> read_u24_le(body.out[2]), end |-> read_u24_le(Last(body.out))]
<1>1. DecodeRange(c) = IF tag.status # "ok" THEN tag
                       ELSE IF type \notin {0, 1} THEN Refuse(tag)
                       ELSE IF body.status # "ok" THEN body
                       ELSE Advance(body, 0, Append(c.out, value))
  BY DEF DecodeRange
<1>2. At(start, data, at) /\ start.out = <<>>
  <2>1. at + 0 = at
    BY <1>0
  <2> QED
    BY <2>1, NoneIsSequence DEF At, Advance
<1> HIDE DEF start
<1>3. /\ at + 1 > Len(data) => tag.status = "error"
      /\ at + 1 =< Len(data) =>
            \E b : /\ IsBytes(b, 1)
                   /\ \A j \in 1 .. 1 : b[j] = data[at + j]
                   /\ tag.out = Append(start.out, b)
                   /\ At(tag, data, at + 1)
  BY <1>0, <1>2, ReadField, Zenon
<1> HIDE DEF tag
<1>4. CASE at + 1 > Len(data)
  <2>1. at + n > Len(data) /\ ~ (at + n =< Len(data))
    BY <1>0, <1>c, <1>4
  <2> QED
    BY <1>b, <1>1, <1>3, <1>4, <2>1 DEF RecordRead
<1>5. CASE at + 1 =< Len(data)
  <2>1. PICK v : /\ \A j \in 1 .. 1 : v[j] = data[at + j]
                 /\ tag.out = Append(<<>>, v)
                 /\ At(tag, data, at + 1)
    BY <1>2, <1>3, <1>5, Zenon
  <2>2. v[1] = e[1]
    <3>1. v[1] = data[at + 1]
      BY <2>1
    <3>2. 1 \in 1 .. Len(e)
      BY <1>b, <1>c
    <3> QED
      BY <1>d, <1>5, <3>1, <3>2
  <2>3. tag.out[1] = v
    BY <2>1, TwoValues
  <2>4. type = e[1] /\ type \in {0, 1} /\ tag.status = "ok"
    BY <1>c, <2>1, <2>2, <2>3 DEF At
  <2>5. DecodeRange(c) = IF body.status # "ok" THEN body ELSE Advance(body, 0, Append(c.out, value))
    BY <1>1, <2>4
  <2>6. PICK q : q = at + 1
    OBVIOUS
  <2>7. q \in 0 .. Len(data) /\ At(tag, data, q) /\ q \in Nat
    BY <1>0, <1>5, <2>1, <2>6
  <2>8. SUFFICES /\ at + n > Len(data) => body.status = "error"
                 /\ at + n =< Len(data) =>
                       At(body, data, at + n) /\ value = range
    <3>1. ASSUME at + n > Len(data) => body.status = "error", at + n > Len(data)
          PROVE  DecodeRange(c).status = "error"
      BY <2>5, <3>1
    <3>2. ASSUME At(body, data, at + n), value = range
          PROVE  At(DecodeRange(c), data, at + n) /\ DecodeRange(c).out = Append(c.out, range)
      <4>1. DecodeRange(c) = Advance(body, 0, Append(c.out, range))
        BY <2>5, <3>2 DEF At
      <4>2. IsSequence(Append(c.out, range))
        BY AppendSequence DEF At
      <4>3. (at + n) + 0 = at + n
        BY <1>0, <1>c
      <4> HIDE DEF body
      <4> QED
        BY <3>2, <4>1, <4>2, <4>3 DEF At, Advance
    <3> QED
      BY <1>b, <3>1, <3>2 DEF RecordRead
  <2>9. CASE range.start = range.end
    <3>1. n = 4 /\ body = one
      BY <1>c, <2>4, <2>9
    <3>2. /\ q + 3 > Len(data) => one.status = "error"
          /\ q + 3 =< Len(data) =>
                \E b : /\ IsBytes(b, 3)
                       /\ \A j \in 1 .. 3 : b[j] = data[q + j]
                       /\ one.out = Append(tag.out, b)
                       /\ At(one, data, q + 3)
      BY <1>0, <2>7, ReadField, Zenon
    <3>3. q + 3 = at + n
      BY <1>0, <2>6, <3>1
    <3> HIDE DEF one, body, type
    <3>4. ASSUME at + n =< Len(data)
          PROVE  At(body, data, at + n) /\ value = range
      <4>1. PICK b : /\ \A j \in 1 .. 3 : b[j] = data[q + j]
                     /\ one.out = Append(tag.out, b)
                     /\ At(one, data, q + 3)
        BY <3>2, <3>3, <3>4, Zenon
      <4>2. \A j \in 1 .. 3 : b[j] = write_u24_le(range.start)[j]
        <5> SUFFICES ASSUME NEW j \in 1 .. 3 PROVE b[j] = write_u24_le(range.start)[j]
          OBVIOUS
        <5>1. /\ 1 + j \in 1 .. Len(e) /\ at + (1 + j) =< Len(data)
              /\ q + j = at + (1 + j)
          BY <1>0, <1>b, <2>6, <3>1, <3>4
        <5>2. b[j] = e[1 + j]
          BY <1>d, <4>1, <5>1
        <5>3. e[1 + j] = write_u24_le(range.start)[j]
          BY <2>9, RangeLayout
        <5> QED
          BY <5>2, <5>3
      <4>3. read_u24_le(b) = range.start
        BY <1>a, <4>2, ReadNumber
      <4>4. Append(Append(<<>>, v), b)[2] = b /\ Last(Append(Append(<<>>, v), b)) = b
        BY TwoValues
      <4>5. body.out[2] = b /\ Last(body.out) = b
        BY <2>1, <3>1, <4>1, <4>4
      <4>6. value = range
        BY <1>a, <2>9, <4>3, <4>5
      <4> QED
        BY <3>1, <3>3, <4>1, <4>6
    <3> QED
      BY <3>1, <3>2, <3>3, <3>4
  <2>10. CASE range.start # range.end
    <3>1. n = 7 /\ body = two
      BY <1>c, <2>4, <2>10
    <3>2. /\ q + 6 > Len(data) => two.status = "error"
          /\ q + 6 =< Len(data) =>
                \E a, b : /\ IsBytes(a, 3) /\ \A j \in 1 .. 3 : a[j] = data[q + j]
                          /\ IsBytes(b, 3) /\ \A j \in 1 .. 3 : b[j] = data[(q + 3) + j]
                          /\ two.out = Append(Append(tag.out, a), b)
                          /\ At(two, data, q + 6)
      BY <2>7, ReadTwoFields, Zenon
    <3>3. q + 6 = at + n
      BY <1>0, <2>6, <3>1
    <3> HIDE DEF two, body, type
    <3>4. ASSUME at + n =< Len(data)
          PROVE  At(body, data, at + n) /\ value = range
      <4>1. PICK a, b : /\ \A j \in 1 .. 3 : a[j] = data[q + j]
                        /\ \A j \in 1 .. 3 : b[j] = data[(q + 3) + j]
                        /\ two.out = Append(Append(tag.out, a), b)
                        /\ At(two, data, q + 6)
        BY <3>2, <3>3, <3>4, Zenon
      <4>2. \A j \in 1 .. 3 : a[j] = write_u24_le(range.start)[j]
        <5> SUFFICES ASSUME NEW j \in 1 .. 3 PROVE a[j] = write_u24_le(range.start)[j]
          OBVIOUS
        <5>1. /\ 1 + j \in 1 .. Len(e) /\ at + (1 + j) =< Len(data)
              /\ q + j = at + (1 + j)
          BY <1>0, <1>b, <2>6, <3>1, <3>4
        <5>2. a[j] = e[1 + j]
          BY <1>d, <4>1, <5>1
        <5>3. e[1 + j] = write_u24_le(range.start)[j]
          BY <2>10, RangeLayout
        <5> QED
          BY <5>2, <5>3
      <4>3. \A j \in 1 .. 3 : b[j] = write_u24_le(range.end)[j]
        <5> SUFFICES ASSUME NEW j \in 1 .. 3 PROVE b[j] = write_u24_le(range.end)[j]
          OBVIOUS
        <5>1. /\ 4 + j \in 1 .. Len(e) /\ at + (4 + j) =< Len(data)
              /\ (q + 3) + j = at + (4 + j)
          BY <1>0, <1>b, <2>6, <3>1, <3>4
        <5>2. b[j] = e[4 + j]
          BY <1>d, <4>1, <5>1
        <5>3. e[4 + j] = write_u24_le(range.end)[j]
          BY <2>10, RangeLayout
        <5> QED
          BY <5>2, <5>3
      <4>4. read_u24_le(a) = range.start /\ read_u24_le(b) = range.end
        BY <1>a, <4>2, <4>3, ReadNumber
      <4>5. two.out[2] = a /\ Last(two.out) = b
        <5>1. /\ Append(Append(Append(<<>>, v), a), b)[2] = a
              /\ Last(Append(Append(Append(<<>>, v), a), b)) = b
          BY ThreeValues
        <5> QED
          BY <2>1, <4>1, <5>1
      <4>6. value = range
        BY <1>a, <3>1, <4>4, <4>5
      <4> QED
        BY <3>1, <3>3, <4>1, <4>6
    <3> QED
      BY <3>1, <3>2, <3>3, <3>4
  <2> QED
    BY <2>9, <2>10
<1> QED
  BY <1>0, <1>4, <1>5

\* The count of an ACK packet of n records.
CountBytes(n) == put_u16(n % 65536)

\* ends[i] is where record i of the list ends in the packet.
AckEnds(ends, l, n, full) ==
    /\ ends \in [0 .. n -> Nat]
    /\ ends[0] = 3 /\ \A i \in 0 .. n : ends[i] >= 3
    /\ \A i \in 1 .. n : ends[i] = ends[i - 1] + Len(EncodeRange(l[i]))
    /\ Len(full) = ends[n]
    /\ \A i \in 1 .. n : \A j \in 1 .. Len(EncodeRange(l[i])) :
          full[ends[i - 1] + j] = EncodeRange(l[i])[j]

\* Where the records of an ACK packet stand in it.
LEMMA AckLayout ==
    ASSUME NEW l \in Seq(AckRange), NEW n, n = Len(l), NEW full, full = encode_ack(l)
    PROVE  /\ full \in Seq(Byte) /\ full[1] = ID_ACK
           /\ full[2] = CountBytes(n)[1] /\ full[3] = CountBytes(n)[2]
           /\ \E ends : AckEnds(ends, l, n, full)
<1> DEFINE parts == [i \in DOMAIN l |-> EncodeRange(l[i])]
<1>1. n \in Nat /\ DOMAIN l = 1 .. n /\ \A i \in 1 .. n : l[i] \in AckRange
  BY LenProperties, ElementOfSeq
<1>2. \A i \in 1 .. n : EncodeRange(l[i]) \in Seq(Byte)
  BY <1>1, EncodeRangeBytes
<1>3. parts \in Seq(Seq(Byte)) /\ Len(parts) = n /\ \A i \in 1 .. n : parts[i] = EncodeRange(l[i])
  BY <1>1, <1>2
<1> DEFINE count == put_u16(n % 65536)
           head == <<ID_ACK>> \o count
           flat == FlattenSeq(parts)
<1>4. full = head \o flat
  BY DEF encode_ack
<1> HIDE DEF parts, flat
<1>5. count \in Seq(Byte) /\ Len(count) = 2
  <2>1. n % 65536 \in Nat
    BY <1>1
  <2> QED
    BY <2>1, IntegerBytes DEF IsBytes
<1> HIDE DEF count
<1>6. head \in Seq(Byte) /\ Len(head) = 3 /\ head[1] = ID_ACK /\ head[2] = count[1] /\ head[3] = count[2]
  <2>1. ID_ACK \in Byte
    BY DEF ID_ACK, Byte
  <2>2. PICK k : k = 2
    OBVIOUS
  <2>3. /\ head \in Seq(Byte) /\ Len(head) = 1 + k /\ head[1] = ID_ACK
        /\ \A j \in 1 .. k : head[1 + j] = count[j]
    <3>1. count \in Seq(Byte) /\ Len(count) = k
      BY <1>5, <2>2
    <3> QED
      BY <2>1, <3>1, HeadByte
  <2> QED
    BY <2>2, <2>3
<1> HIDE DEF head
<1>7. flat \in Seq(Byte)
  BY <1>3, FlattenSeqProperty DEF flat
<1>8. PICK offs \in [0 .. Len(parts) -> Nat] :
         /\ offs[0] = 0
         /\ \A i \in 1 .. Len(parts) : offs[i] = offs[i - 1] + Len(parts[i])
         /\ Len(flat) = offs[Len(parts)]
         /\ \A i \in 1 .. Len(parts) : \A j \in 1 .. Len(parts[i]) :
               flat[offs[i - 1] + j] = parts[i][j]
  BY <1>3, FlattenSeqProperty DEF flat
<1>9. /\ full \in Seq(Byte) /\ Len(full) = 3 + Len(flat) /\ Len(flat) \in Nat
      /\ \A j \in 1 .. 3 : full[j] = head[j]
      /\ \A j \in 1 .. Len(flat) : full[3 + j] = flat[j]
  <2>1. head \in Seq(Byte) /\ flat \in Seq(Byte)
    BY <1>6, <1>7
  <2>2. /\ head \o flat \in Seq(Byte) /\ Len(head \o flat) = Len(head) + Len(flat) /\ Len(flat) \in Nat
        /\ \A j \in 1 .. Len(head) : (head \o flat)[j] = head[j]
        /\ \A j \in 1 .. Len(flat) : (head \o flat)[Len(head) + j] = flat[j]
    BY <2>1, Concatenation
  <2>3. /\ full \in Seq(Byte) /\ Len(full) = Len(head) + Len(flat) /\ Len(flat) \in Nat
        /\ \A j \in 1 .. Len(head) : full[j] = head[j]
        /\ \A j \in 1 .. Len(flat) : full[Len(head) + j] = flat[j]
    BY <1>4, <2>2
  <2> QED
    BY <1>6, <2>3
<1>10. full[1] = ID_ACK /\ full[2] = count[1] /\ full[3] = count[2]
  BY <1>6, <1>9
<1> DEFINE ends == [i \in 0 .. n |-> 3 + offs[i]]
<1>11. ends \in [0 .. n -> Nat] /\ \A i \in 0 .. n : ends[i] = 3 + offs[i]
  BY <1>1, <1>3, <1>8
<1> HIDE DEF ends
<1>12. /\ ends[0] = 3 /\ \A i \in 0 .. n : ends[i] >= 3
       /\ Len(full) = ends[n]
       /\ \A i \in 1 .. n : ends[i] = ends[i - 1] + Len(EncodeRange(l[i]))
  <2>1. ends[0] = 3
    BY <1>1, <1>8, <1>11
  <2>2. Len(full) = ends[n]
    BY <1>1, <1>3, <1>8, <1>9, <1>11
  <2>4. ASSUME NEW i \in 0 .. n PROVE ends[i] >= 3
    <3>1. offs[i] \in Nat /\ ends[i] = 3 + offs[i]
      BY <1>3, <1>8, <1>11
    <3> QED
      BY <3>1
  <2>3. ASSUME NEW i \in 1 .. n PROVE ends[i] = ends[i - 1] + Len(EncodeRange(l[i]))
    <3>1. i \in 0 .. n /\ i - 1 \in 0 .. n
      BY <1>1
    <3>2. /\ ends[i] = 3 + offs[i] /\ ends[i - 1] = 3 + offs[i - 1]
          /\ offs[i] \in Nat /\ offs[i - 1] \in Nat
          /\ offs[i] = offs[i - 1] + Len(EncodeRange(l[i]))
      BY <1>3, <1>8, <1>11, <3>1
    <3>3. Len(EncodeRange(l[i])) \in Nat
      BY <1>2, LenProperties
    <3>4. PICK a, b, k : a = offs[i - 1] /\ b = offs[i] /\ k = Len(EncodeRange(l[i]))
      OBVIOUS
    <3>5. a \in Nat /\ b \in Nat /\ k \in Nat /\ b = a + k
      BY <3>2, <3>3, <3>4
    <3>6. 3 + b = (3 + a) + k
      BY <3>5
    <3> QED
      BY <3>2, <3>4, <3>6
  <2> QED
    BY <2>1, <2>2, <2>3, <2>4
<1>13. ASSUME NEW i \in 1 .. n, NEW j \in 1 .. Len(EncodeRange(l[i]))
       PROVE  full[ends[i - 1] + j] = EncodeRange(l[i])[j]
  <2>1. PICK o, k : o = offs[i - 1] /\ k = o + j
    OBVIOUS
  <2>2. i - 1 \in 0 .. n /\ i \in 0 .. n /\ n \in 0 .. n
    BY <1>1
  <2>3. o \in Nat /\ offs[i] \in Nat /\ offs[n] \in Nat /\ ends[i - 1] = 3 + o
    BY <1>3, <1>8, <1>11, <2>1, <2>2
  <2>4. Len(EncodeRange(l[i])) \in Nat
    BY <1>2, LenProperties
  <2>5. flat[k] = EncodeRange(l[i])[j]
    <3>1. i \in 1 .. Len(parts) /\ parts[i] = EncodeRange(l[i])
      BY <1>3
    <3>2. j \in 1 .. Len(parts[i])
      BY <3>1
    <3>3. flat[offs[i - 1] + j] = parts[i][j]
      BY <1>8, <3>1, <3>2
    <3> QED
      BY <2>1, <3>1, <3>3
  <2>6. ends[i - 1] + j = 3 + k /\ k \in Nat /\ k >= 1
    <3>1. PICK e : e = ends[i - 1]
      OBVIOUS
    <3>2. e = 3 + o /\ j \in Nat /\ j >= 1 /\ k = o + j
      BY <2>1, <2>3, <2>4, <3>1
    <3>3. e + j = 3 + k /\ k \in Nat /\ k >= 1
      BY <2>3, <3>2
    <3> QED
      BY <3>1, <3>3
  <2>7. k =< offs[i]
    <3>1. offs[i] = o + Len(EncodeRange(l[i]))
      BY <1>3, <1>8, <2>1
    <3>2. PICK w : w = Len(EncodeRange(l[i]))
      OBVIOUS
    <3>3. w \in Nat /\ j \in Nat /\ j =< w
      BY <2>4, <3>2
    <3>4. o + j =< o + w
      BY <2>3, <3>3
    <3> QED
      BY <2>1, <3>1, <3>2, <3>4
  <2>8. offs[i] =< offs[n]
    <3>0. PICK N : N = n - i
      OBVIOUS
    <3> DEFINE E == {m \in 0 .. N : offs[i] =< offs[i + m]}
    <3>1. 0 \in E
      BY <1>1, <2>3, <3>0
    <3>2. ASSUME NEW m \in 0 .. N - 1, m \in E PROVE m + 1 \in E
      <4>1. /\ i + m \in 0 .. n /\ i + (m + 1) \in 1 .. n /\ (i + (m + 1)) - 1 = i + m
            /\ m + 1 \in 0 .. N /\ i + (m + 1) \in 0 .. n
        BY <1>1, <3>0
      <4>2. PICK v : v = i + (m + 1)
        OBVIOUS
      <4>3. offs[v] = offs[v - 1] + Len(EncodeRange(l[v])) /\ Len(EncodeRange(l[v])) \in Nat
        BY <1>2, <1>3, <1>8, <4>1, <4>2, LenProperties
      <4>4. offs[v] \in Nat /\ offs[i + m] \in Nat /\ v - 1 = i + m
        BY <1>3, <1>8, <4>1, <4>2
      <4>5. offs[i] =< offs[i + m]
        BY <3>2
      <4>6. offs[i] =< offs[v]
        <5>1. PICK a, b, d, w : /\ a = offs[i] /\ b = offs[i + m] /\ d = offs[v]
                                /\ w = Len(EncodeRange(l[v]))
          OBVIOUS
        <5>2. a \in Nat /\ b \in Nat /\ d \in Nat /\ w \in Nat /\ a =< b /\ d = b + w
          BY <2>3, <4>3, <4>4, <4>5, <5>1
        <5>3. a =< d
          BY <5>2
        <5> QED
          BY <5>1, <5>3
      <4> QED
        BY <4>1, <4>2, <4>6
    <3>3. N \in Nat
      BY <1>1, <3>0
    <3> HIDE DEF E
    <3>4. \A m \in 0 .. N : m \in E
      BY <3>1, <3>2, <3>3, UpTo
    <3>5. i + N = n /\ N \in 0 .. N
      BY <1>1, <3>0
    <3> QED
      BY <3>4, <3>5 DEF E
  <2>9. k \in 1 .. Len(flat)
    BY <1>3, <1>8, <2>3, <2>6, <2>7, <2>8
  <2>10. full[3 + k] = flat[k]
    BY <1>9, <2>9
  <2> QED
    BY <2>5, <2>6, <2>10
<1> QED
  <2>1. AckEnds(ends, l, n, full)
    BY <1>11, <1>12, <1>13 DEF AckEnds
  <2>2. full[2] = CountBytes(n)[1] /\ full[3] = CountBytes(n)[2]
    BY <1>10 DEF count, CountBytes
  <2>3. full \in Seq(Byte) /\ full[1] = ID_ACK
    BY <1>9, <1>10
  <2> QED
    BY <2>1, <2>2, <2>3, Zenon

\* The count is read back if it fits.
LEMMA ReadCount ==
    ASSUME NEW n \in Nat, n =< u16_MAX, NEW b, b[1] = CountBytes(n)[1], b[2] = CountBytes(n)[2]
    PROVE  get_u16(b) = n
<1>1. n % 65536 = n /\ n < 65536
  BY DEF u16_MAX
<1>2. PICK w : w = put_u16(n)
  OBVIOUS
<1>3. get_u16(w) = n
  BY <1>1, <1>2, RoundTrip16
<1>4. b[1] = w[1] /\ b[2] = w[2]
  BY <1>1, <1>2 DEF CountBytes
<1> QED
  BY <1>3, <1>4 DEF get_u16

\* data is the beginning of full, or all of it.
Begins(data, full) ==
    /\ data \in Seq(Byte) /\ Len(data) =< Len(full)
    /\ \A j \in 1 .. Len(data) : data[j] = full[j]

\* The record loop on an ACK packet: the records are those of the list if they
\* are all there, and the loop fails if one is not.
LEMMA DecodeRecordsOf ==
    ASSUME NEW l \in Seq(AckRange), NEW n, n = Len(l), \A x \in u24 : x =< u24_MAX,
           NEW full \in Seq(Byte), NEW data, Begins(data, full),
           NEW ends, AckEnds(ends, l, n, full),
           NEW c, At(c, data, 3), c.out = <<>>, 3 =< Len(data)
    PROVE  /\ Len(data) = Len(full) => DecodeRecords(c, n).status = "ok" /\ DecodeRecords(c, n).out = l
           /\ Len(data) < Len(full) => DecodeRecords(c, n).status = "error"
<1>1. /\ n \in Nat /\ \A i \in 1 .. n : l[i] \in AckRange
      /\ data \in Seq(Byte) /\ Len(data) \in Nat
  BY LenProperties, ElementOfSeq DEF Begins
<1>a. /\ ends \in [0 .. n -> Nat] /\ ends[0] = 3 /\ Len(full) = ends[n]
      /\ \A i \in 1 .. n : ends[i] = ends[i - 1] + Len(EncodeRange(l[i]))
      /\ \A i \in 1 .. n : \A j \in 1 .. Len(EncodeRange(l[i])) :
            full[ends[i - 1] + j] = EncodeRange(l[i])[j]
  BY DEF AckEnds
<1>2. PICK r : /\ r[0] = c
               /\ \A i \in 1 .. n : r[i] = NextRecord(r[i - 1])
               /\ DecodeRecords(c, n) = r[n]
  BY <1>1, RecordTurns
<1> DEFINE Ok(i) == /\ At(r[i], data, ends[i]) /\ Len(r[i].out) = i
                    /\ \A j \in 1 .. i : r[i].out[j] = l[j]
           Good(i) == /\ ends[i] =< Len(data) => Ok(i)
                      /\ ends[i] > Len(data) => r[i].status = "error"
           E == {i \in 0 .. n : Good(i)}
<1>3. 0 \in E
  <2>1. Len(r[0].out) = 0 /\ At(r[0], data, ends[0])
    BY <1>a, <1>2, EmptySeq
  <2>2. ~ (ends[0] > Len(data))
    BY <1>a, <1>1
  <2> QED
    BY <1>1, <2>1, <2>2
<1>4. ASSUME NEW i \in 0 .. n - 1, i \in E PROVE i + 1 \in E
  <2>0. i + 1 \in 1 .. n /\ i + 1 \in 0 .. n /\ (i + 1) - 1 = i /\ i \in Nat /\ i \in 0 .. n
    BY <1>1
  <2>1. PICK old, new, range, e, at, k :
          old = r[i] /\ new = r[i + 1] /\ range = l[i + 1] /\ e = EncodeRange(range) /\ at = ends[i] /\ k = Len(e)
    OBVIOUS
  <2>2. new = NextRecord(old) /\ range \in AckRange /\ Good(i)
    BY <1>1, <1>2, <1>4, <2>0, <2>1
  <2>3. ends[i + 1] = at + k /\ at \in Nat /\ k \in Nat
    <3>1. k \in Nat
      BY <2>1, <2>2, EncodeRangeBytes, LenProperties
    <3>2. ends[i + 1] = at + k
      BY <1>a, <2>0, <2>1
    <3> QED
      BY <1>a, <2>0, <2>1, <3>1, <3>2
  <2>4. CASE at > Len(data)
    <3>1. old.status = "error"
      BY <2>1, <2>2, <2>4
    <3>2. new = old
      BY <2>2, <3>1 DEF NextRecord
    <3>3. ends[i + 1] > Len(data) /\ ~ (ends[i + 1] =< Len(data))
      BY <1>1, <2>3, <2>4
    <3> QED
      BY <2>0, <2>1, <3>1, <3>2, <3>3
  <2>5. CASE at =< Len(data)
    <3>1. At(old, data, at) /\ Len(old.out) = i /\ \A j \in 1 .. i : old.out[j] = l[j]
      BY <2>1, <2>2, <2>5
    <3>2. at \in 0 .. Len(data) /\ new = DecodeRange(old)
      BY <1>1, <2>2, <2>3, <2>5, <3>1 DEF NextRecord, At
    <3>3. range.start =< u24_MAX /\ range.end =< u24_MAX
      BY <2>2 DEF AckRange
    <3>4. Carries(data, at, e)
      <4> SUFFICES ASSUME NEW j \in 1 .. Len(e), at + j =< Len(data) PROVE data[at + j] = e[j]
        BY DEF Carries
      <4>1. full[at + j] = e[j]
        <5>1. e = EncodeRange(l[i + 1]) /\ at = ends[(i + 1) - 1]
          BY <2>0, <2>1
        <5>2. full[ends[(i + 1) - 1] + j] = EncodeRange(l[i + 1])[j]
          BY <1>a, <2>0, <5>1
        <5> QED
          BY <5>1, <5>2
      <4>2. at + j \in 1 .. Len(data)
        <5>1. j \in Nat /\ j >= 1
          BY <2>1, <2>3
        <5> QED
          BY <1>1, <2>3, <5>1
      <4> QED
        BY <4>1, <4>2 DEF Begins
    <3>5. /\ at + Len(e) > Len(data) => new.status = "error"
          /\ at + Len(e) =< Len(data) => At(new, data, at + Len(e)) /\ new.out = Append(old.out, range)
      <4>1. data \in Seq(Byte) /\ at \in 0 .. Len(data) /\ At(old, data, at)
        BY <1>1, <3>1, <3>2
      <4>2. range \in AckRange /\ e = EncodeRange(range)
        BY <2>1, <2>2
      <4>3. RecordRead(old, DecodeRange(old), data, at, e, range)
        BY <3>3, <3>4, <4>1, <4>2, DecodeRangeAt
      <4> QED
        BY <3>2, <4>3 DEF RecordRead
    <3>6. ASSUME new.out = Append(old.out, range)
          PROVE  Len(new.out) = i + 1 /\ \A j \in 1 .. i + 1 : new.out[j] = l[j]
      <4>1. IsSequence(old.out)
        BY <3>1 DEF At
      <4>2. /\ Len(new.out) = Len(old.out) + 1 /\ new.out[Len(old.out) + 1] = range
            /\ \A j \in 1 .. Len(old.out) : new.out[j] = old.out[j]
        BY <3>6, <4>1, AppendSequence
      <4>3. Len(new.out) = i + 1 /\ new.out[i + 1] = l[i + 1] /\ \A j \in 1 .. i : new.out[j] = l[j]
        BY <2>1, <3>1, <4>2
      <4> QED
        BY <2>0, <4>3
    <3>7. ends[i + 1] = at + Len(e)
      BY <2>1, <2>3
    <3>8. Good(i + 1)
      BY <2>1, <3>5, <3>6, <3>7
    <3> QED
      BY <2>0, <3>8
  <2> QED
    BY <1>1, <2>3, <2>4, <2>5
<1> HIDE DEF E
<1>5. \A i \in 0 .. n : i \in E
  BY <1>1, <1>3, <1>4, UpTo
<1>6. n \in 0 .. n /\ Good(n) /\ ends[n] \in Nat
  BY <1>a, <1>1, <1>5 DEF E
<1>7. CASE Len(data) = Len(full)
  <2>1. Ok(n)
    BY <1>a, <1>1, <1>6, <1>7
  <2>2. PICK out : out = r[n].out
    OBVIOUS
  <2>3. IsSequence(out) /\ Len(out) = n /\ \A j \in 1 .. n : out[j] = l[j]
    BY <2>1, <2>2 DEF At
  <2>4. PICK V : out \in Seq(V)
    BY <2>3 DEF IsSequence
  <2>5. out \in Seq(V \cup AckRange) /\ l \in Seq(V \cup AckRange)
    BY <2>4
  <2>6. out = l
    BY <2>3, <2>5, SeqEqual
  <2>7. ~ (Len(data) < Len(full))
    BY <1>a, <1>1, <1>6, <1>7
  <2> QED
    BY <1>2, <2>1, <2>2, <2>6, <2>7 DEF At
<1>8. CASE Len(data) < Len(full)
  <2>1. ends[n] > Len(data)
    BY <1>a, <1>1, <1>6, <1>8
  <2>2. ~ (Len(data) = Len(full))
    BY <1>a, <1>1, <1>6, <1>8
  <2> QED
    BY <1>2, <1>6, <2>1, <2>2
<1> QED
  BY <1>a, <1>1, <1>6, <1>7, <1>8 DEF Begins

\* An ACK packet that arrives whole is decoded to the list of its ranges, and
\* one that was cut short is refused.
LEMMA DecodeAckExact ==
    ASSUME NEW l \in Seq(AckRange), Len(l) =< u16_MAX, \A x \in u24 : x =< u24_MAX,
           NEW full, full = encode_ack(l), NEW data, Begins(data, full)
    PROVE  /\ Len(data) = Len(full) => decode_ack_nack(data) = [status |-> "ok", list |-> InsertRecords(l)]
           /\ Len(data) < Len(full) => decode_ack_nack(data).status = "error"
<1>0. PICK n : n = Len(l)
  OBVIOUS
<1>1. n \in Nat /\ n =< u16_MAX /\ data \in Seq(Byte) /\ Len(data) \in Nat
  BY <1>0, LenProperties DEF Begins
<1>2. /\ full \in Seq(Byte) /\ full[1] = ID_ACK
      /\ full[2] = CountBytes(n)[1] /\ full[3] = CountBytes(n)[2]
  BY <1>0, AckLayout
<1>3. PICK ends : AckEnds(ends, l, n, full)
  BY <1>0, AckLayout
<1>4. Len(full) \in Nat /\ Len(full) >= 3
  BY <1>1, <1>3 DEF AckEnds
<1> DEFINE header == Read(Cursor(data, 0), <<Need(1), Bytes(1), Need(2), Bytes(2)>>)
           count == get_u16(header.out[2])
           start == Advance(header, 0, <<>>)
           records == DecodeRecords(start, count)
<1>5. decode_ack_nack(data) =
         IF data = <<>> \/ Head(data) \notin {ID_ACK, ID_NACK}
         THEN [status |-> "error", list |-> <<>>]
         ELSE IF header.status # "ok"
         THEN [status |-> header.status, list |-> <<>>]
         ELSE IF records.status # "ok"
         THEN [status |-> records.status, list |-> <<>>]
         ELSE [status |-> "ok", list |-> InsertRecords(records.out)]
  BY DEF decode_ack_nack
<1>6. /\ Len(data) < 3 => header.status = "error"
      /\ Len(data) >= 3 => /\ At(header, data, 3) /\ IsBytes(header.out[2], 2)
                           /\ header.out[2][1] = data[2] /\ header.out[2][2] = data[3]
  BY <1>1, AckHeader
<1> HIDE DEF header
<1>7. CASE Len(data) < 3
  <2>1. decode_ack_nack(data).status = "error"
    BY <1>5, <1>6, <1>7
  <2>2. ~ (Len(data) = Len(full))
    BY <1>1, <1>4, <1>7
  <2> QED
    BY <2>1, <2>2
<1>8. CASE Len(data) >= 3
  <2>1. data[1] = full[1] /\ data[2] = full[2] /\ data[3] = full[3]
    BY <1>1, <1>8 DEF Begins
  <2>2. data # <<>> /\ Head(data) = ID_ACK
    <3>1. data # <<>>
      BY <1>1, <1>8, EmptySeq
    <3>2. Head(data) = data[1]
      BY <1>1, <3>1
    <3> QED
      BY <1>2, <2>1, <3>1, <3>2
  <2>3. count = n
    BY <1>1, <1>2, <1>6, <1>8, <2>1, ReadCount
  <2> HIDE DEF count
  <2>4. At(start, data, 3) /\ start.out = <<>> /\ header.status = "ok"
    <3>1. 3 + 0 = 3
      OBVIOUS
    <3> QED
      BY <1>6, <1>8, <3>1, NoneIsSequence DEF At, Advance
  <2> HIDE DEF start
  <2>5. 3 =< Len(data)
    BY <1>1, <1>8
  <2>6. PICK d : d = DecodeRecords(start, n)
    OBVIOUS
  <2>7. /\ Len(data) = Len(full) => d.status = "ok" /\ d.out = l
        /\ Len(data) < Len(full) => d.status = "error"
    BY <1>0, <1>2, <1>3, <2>4, <2>5, <2>6, DecodeRecordsOf
  <2>8. records = d
    BY <2>3, <2>6
  <2> HIDE DEF records
  <2>9. decode_ack_nack(data) = IF d.status # "ok" THEN [status |-> d.status, list |-> <<>>]
                                ELSE [status |-> "ok", list |-> InsertRecords(d.out)]
    BY <1>5, <2>2, <2>4, <2>8
  <2> QED
    BY <2>7, <2>9
<1> QED
  BY <1>1, <1>7, <1>8

\* What arrived begins the packet.
LEMMA ArrivedBegins ==
    ASSUME NEW full \in Seq(Byte), NEW bytes, NEW whole, Arrived(full, bytes, whole)
    PROVE  /\ Begins(bytes, full) /\ whole \in BOOLEAN
           /\ whole => bytes = full
           /\ ~ whole => Len(bytes) < Len(full)
<1>1. Len(full) \in Nat
  BY LenProperties
<1>2. CASE whole = TRUE /\ bytes = full
  BY <1>1, <1>2 DEF Begins
<1>3. CASE whole = FALSE /\ \E n \in 0 .. Len(full) - 1 : bytes = SubSeq(full, 1, n)
  <2>1. PICK n \in 0 .. Len(full) - 1 : bytes = SubSeq(full, 1, n)
    BY <1>3
  <2>2. n \in Nat /\ n < Len(full) /\ n =< Len(full)
    BY <1>1
  <2>3. bytes \in Seq(Byte) /\ Len(bytes) = n /\ \A j \in 1 .. n : bytes[j] = full[j]
    <3>1. \A k \in 1 .. n : full[k] \in Byte
      BY <1>1, <2>2, ElementOfSeq
    <3> QED
      BY <1>1, <2>1, <2>2, <3>1
  <2> QED
    BY <1>3, <2>2, <2>3 DEF Begins
<1> QED
  BY <1>2, <1>3 DEF Arrived

\* A list has one range for each run of its numbers: the ends of its ranges
\* are ends of runs, and all different.
LEMMA RangePerRun ==
    ASSUME NEW l \in AckList
    PROVE  /\ Cardinality(RunEnds(Covered(l))) \in Nat
           /\ Len(l) =< Cardinality(RunEnds(Covered(l)))
<1>1. PICK n : n = Len(l)
  OBVIOUS
<1>2. /\ n \in Nat
      /\ \A i \in 1 .. n : /\ l[i].start \in Int /\ l[i].end \in Int
                           /\ l[i].start =< l[i].end /\ l[i].end \in u24
      /\ \A i \in 1 .. n - 1 : l[i].end + 1 < l[i + 1].start
  BY <1>1, AckListElements
<1>3. ASSUME NEW i \in 1 .. n, NEW j \in 1 .. n, i < j
      PROVE  l[i].end + 1 < l[j].start
  <2> DEFINE E == {k \in Nat : i + 1 + k =< n => l[i].end + 1 < l[i + 1 + k].start}
  <2>1. 0 \in E
    <3>1. i \in Nat /\ i \in 1 .. n - 1 /\ i + 1 + 0 = i + 1
      BY <1>2, <1>3
    <3> QED
      BY <1>2, <3>1
  <2>2. ASSUME NEW k \in 0 .. n - 1, k \in E PROVE k + 1 \in E
    <3> SUFFICES ASSUME i + 1 + (k + 1) =< n
                 PROVE  l[i].end + 1 < l[i + 1 + (k + 1)].start
      OBVIOUS
    <3>1. PICK m : m = i + 1 + k
      OBVIOUS
    <3>2. /\ m \in 1 .. n - 1 /\ m \in 1 .. n /\ m + 1 \in 1 .. n
          /\ i + 1 + (k + 1) = m + 1 /\ m =< n
      BY <1>2, <3>1
    <3>3. l[i].end + 1 < l[m].start
      BY <2>2, <3>1, <3>2
    <3> QED
      BY <1>2, <3>2, <3>3
  <2> HIDE DEF E
  <2>3. \A k \in 0 .. n : k \in E
    BY <1>2, <2>1, <2>2, UpTo
  <2>4. PICK k : k = j - i - 1
    OBVIOUS
  <2>5. k \in 0 .. n /\ i + 1 + k = j /\ j =< n
    BY <1>2, <1>3, <2>4
  <2> QED
    BY <2>3, <2>5 DEF E
<1>4. ASSUME NEW i \in 1 .. n PROVE l[i].end \in RunEnds(Covered(l))
  <2>1. PICK e : e = l[i].end
    OBVIOUS
  <2>2. e \in Covered(l) /\ e \in Int
    BY <1>1, <1>2, <2>1 DEF Covered, Holds
  <2>3. ASSUME e + 1 \in Covered(l) PROVE FALSE
    <3>1. PICK j \in 1 .. n : l[j].start =< e + 1 /\ e + 1 =< l[j].end
      BY <1>1, <2>3 DEF Covered, Holds
    <3>2. i \in Int /\ j \in Int /\ (i < j \/ i = j \/ j < i)
      BY <1>2
    <3>3. CASE i < j
      BY <1>2, <1>3, <2>1, <2>2, <3>1, <3>3
    <3>4. CASE i = j
      BY <2>1, <2>2, <3>1, <3>4
    <3>5. CASE j < i
      BY <1>2, <1>3, <2>1, <2>2, <3>1, <3>5
    <3> QED
      BY <3>2, <3>3, <3>4, <3>5
  <2> QED
    BY <2>1, <2>2, <2>3 DEF RunEnds
<1>5. PICK f : f = [i \in 1 .. n |-> l[i].end]
  OBVIOUS
<1>6. f \in Injection(1 .. n, RunEnds(Covered(l)))
  <2>1. ASSUME NEW i \in 1 .. n, NEW j \in 1 .. n, f[i] = f[j] PROVE i = j
    <3>1. i \in Int /\ j \in Int /\ (i < j \/ i = j \/ j < i)
      BY <1>2
    <3>2. l[i].end = l[j].end
      BY <1>5, <2>1
    <3> QED
      BY <1>2, <1>3, <3>1, <3>2
  <2>2. f \in [1 .. n -> RunEnds(Covered(l))] /\ DOMAIN f = 1 .. n
    BY <1>4, <1>5
  <2> QED
    BY <2>1, <2>2 DEF Injection, IsInjective
<1>7. IsFiniteSet(RunEnds(Covered(l)))
  <2>1. IsFiniteSet(u24)
    BY FS_Interval, HalfSpaceAssumption DEF u24, SeqSpace
  <2>2. RunEnds(Covered(l)) \in SUBSET u24
    BY DEF RunEnds, Covered
  <2> QED
    BY <2>1, <2>2, FS_Subset, Zenon
<1>8. Cardinality(RunEnds(Covered(l))) \in Nat
  BY <1>7, FS_CardinalityType
<1>9. Cardinality(1 .. n) =< Cardinality(RunEnds(Covered(l)))
  BY <1>6, <1>7, FS_Injection, Zenon
<1>10. Cardinality(1 .. n) = n
  BY <1>2, FS_Interval
<1> QED
  BY <1>1, <1>8, <1>9, <1>10

\* On a circle whose numbers fit into three bytes, the code's included, an ACK
\* packet takes exactly the received datagrams out of the send queue, and cut
\* short it is refused: insert, encode_ack, decode_ack_nack and handle_ack taken
\* together.
THEOREM AcksExact ==
    ASSUME SeqSpace - 1 =< u24_MAX
    PROVE  Spec => []AcknowledgesExactly
<1>1. \A x \in u24 : x =< u24_MAX
  <2>1. SeqSpace \in Nat
    BY HalfSpaceAssumption DEF SeqSpace
  <2>2. u24_MAX \in Int
    BY DEF u24_MAX
  <2> QED
    BY <2>1, <2>2 DEF u24
<1>2. Inv => AcknowledgesExactly
  <2>1. PICK everything : everything = [s \in u24 |-> s]
    OBVIOUS
  <2> SUFFICES ASSUME Inv, NEW i \in DOMAIN wire, wire[i].kind = "ack",
                      NEW decoded, decoded = decode_ack_nack(wire[i].bytes),
                      Cardinality(RunEnds(wire[i].args)) =< u16_MAX
               PROVE  IF wire[i].whole
                      THEN /\ decoded.status = "ok"
                           /\ HandleAck(everything, decoded.list) = Without(everything, wire[i].args)
                      ELSE decoded.status = "error"
    BY <2>1 DEF AcknowledgesExactly, InFlight
  <2>2. PICK kind, args, full, bytes, whole :
          /\ Origin(kind, args, full)
          /\ Arrived(full, bytes, whole)
          /\ wire = <<[kind |-> kind, args |-> args, bytes |-> bytes, whole |-> whole]>>
    BY DEF Inv, WireInv
  <2>3. /\ wire[i].kind = kind /\ wire[i].args = args
        /\ wire[i].bytes = bytes /\ wire[i].whole = whole
    BY <2>2
  <2>4. PICK l \in AckList : args = Covered(l) /\ full = encode_ack(l)
    <3>1. "ack" \notin Kinds
      BY KindsAre
    <3> QED
      BY <2>2, <2>3, <3>1 DEF Origin
  <2>5. Len(l) =< u16_MAX /\ l \in Seq(AckRange)
    <3>1. Len(l) =< Cardinality(RunEnds(args)) /\ Cardinality(RunEnds(args)) =< u16_MAX
      BY <2>3, <2>4, RangePerRun
    <3>3. Cardinality(RunEnds(args)) \in Nat /\ u16_MAX \in Nat
      BY <2>4, RangePerRun DEF u16_MAX
    <3>4. Len(l) \in Nat /\ l \in Seq(AckRange)
      BY AckListElements
    <3> QED
      BY <3>1, <3>3, <3>4
  <2>6. full \in Seq(Byte)
    BY <2>2, OriginBytes
  <2>7. /\ Begins(bytes, full) /\ whole \in BOOLEAN
        /\ whole => bytes = full
        /\ ~ whole => Len(bytes) < Len(full)
    BY <2>2, <2>6, ArrivedBegins
  <2>8. /\ Len(bytes) = Len(full) => decoded = [status |-> "ok", list |-> InsertRecords(l)]
        /\ Len(bytes) < Len(full) => decoded.status = "error"
    BY <1>1, <2>3, <2>4, <2>5, <2>7, DecodeAckExact
  <2>9. HandleAck(everything, InsertRecords(l)) = Without(everything, args)
    <3>1. InsertRecords(l) \in AckList /\ Covered(InsertRecords(l)) = args
      BY <2>4, InsertRecordsOfList
    <3>2. everything = [s \in u24 |-> everything[s]]
      BY <2>1
    <3> QED
      BY <3>1, <3>2, HandleAckProperty
  <2>10. CASE whole
    <3>1. decoded = [status |-> "ok", list |-> InsertRecords(l)]
      BY <2>7, <2>8, <2>10
    <3> QED
      BY <2>3, <2>9, <2>10, <3>1
  <2>11. CASE ~ whole
    BY <2>3, <2>7, <2>8, <2>11
  <2> QED
    BY <2>7, <2>10, <2>11
<1> QED
  BY <1>2, Invariance, PTL

(***************************************************************************)
(* Control packets, byte by byte.                                          *)
(*                                                                         *)
(* Chain gives what the encoder has written after each item.  A step of    *)
(* the decoder reads back one item: from a cursor that stands where the    *)
(* item begins it moves to where it ends, if the item is all there, and    *)
(* fails if it is not.                                                     *)
(***************************************************************************)

\* b stands behind the first p bytes of data, as far as data goes.
Follows(data, p, b) == \A j \in 1 .. Len(b) : p + j =< Len(data) => data[p + j] = b[j]

\* The cursor has come to q with out read, or has failed for want of bytes.
Outcome(d, data, q, out) ==
    /\ q =< Len(data) => At(d, data, q) /\ d.out = out
    /\ q > Len(data) => d.status # "ok"

\* Bytes are told by their length and their elements.
LEMMA SameBytes ==
    ASSUME NEW n \in Nat, NEW a, NEW b, IsBytes(a, n), IsBytes(b, n), \A j \in 1 .. n : a[j] = b[j]
    PROVE  a = b
<1>1. /\ a \in Seq(Byte) /\ Len(a) = n /\ b \in Seq(Byte) /\ Len(b) = n
  BY DEF IsBytes
<1> QED
  BY <1>1, SeqEqual

\* An integer of n bytes is read back.
LEMMA TakeReads ==
    ASSUME NEW data \in Seq(Byte), NEW p \in 0 .. Len(data), NEW c, At(c, data, p),
           NEW n \in Nat, NEW b, IsBytes(b, n), Follows(data, p, b)
    PROVE  Outcome(ReadStep(c, Bytes(n)), data, p + n, Append(c.out, b))
<1>1. Len(data) \in Nat /\ p \in Nat /\ Len(b) = n
  BY LenProperties DEF IsBytes
<1>2. CASE p + n =< Len(data)
  <2>1. PICK d : d = ReadStep(c, Bytes(n))
    OBVIOUS
  <2>2. PICK a : /\ IsBytes(a, n) /\ \A j \in 1 .. n : a[j] = data[p + j]
                 /\ d.out = Append(c.out, a) /\ At(d, data, p + n)
    BY <1>1, <1>2, <2>1, Field, Zenon
  <2>3. \A j \in 1 .. n : p + j =< Len(data)
    BY <1>1, <1>2
  <2>4. \A j \in 1 .. n : a[j] = b[j]
    BY <1>1, <2>2, <2>3 DEF Follows
  <2>5. a = b
    BY <2>2, <2>4, SameBytes
  <2>6. ~ (p + n > Len(data))
    BY <1>1, <1>2
  <2> QED
    BY <2>1, <2>2, <2>5, <2>6, Zenon DEF Outcome
<1>3. CASE p + n > Len(data)
  <2>1. Remaining(c) < n
    BY <1>1, <1>3 DEF Remaining, At
  <2>2. ReadStep(c, Bytes(n)) = Stop(c, "panic")
    BY <2>1 DEF ReadStep, At, Bytes, Take
  <2>3. ReadStep(c, Bytes(n)).status # "ok"
    BY <2>2 DEF Stop
  <2> QED
    BY <1>1, <1>3, <2>3 DEF Outcome
<1> QED
  BY <1>1, <1>2, <1>3

\* Skipping n bytes.
LEMMA SkipReads ==
    ASSUME NEW data \in Seq(Byte), NEW p \in 0 .. Len(data), NEW c, At(c, data, p), NEW n \in Nat
    PROVE  Outcome(Skip(c, n), data, p + n, c.out)
<1>1. Len(data) \in Nat /\ p \in Nat
  BY LenProperties
<1>2. Remaining(c) < n <=> p + n > Len(data)
  BY <1>1 DEF Remaining, At
<1>3. CASE p + n > Len(data)
  BY <1>1, <1>2, <1>3 DEF Skip, Stop, Outcome
<1>4. CASE ~ (p + n > Len(data))
  <2>1. Skip(c, n) = Advance(c, n, c.out)
    BY <1>2, <1>4 DEF Skip
  <2> QED
    BY <1>4, <2>1 DEF Advance, At, Outcome
<1> QED
  BY <1>3, <1>4

\* A constant of n bytes is skipped.
LEMMA UnusedReads ==
    ASSUME NEW data \in Seq(Byte), NEW p \in 0 .. Len(data), NEW c, At(c, data, p), NEW n \in Nat
    PROVE  Outcome(ReadStep(c, Unused(n)), data, p + n, c.out)
<1>1. ReadStep(c, Unused(n)) = Skip(c, n)
  BY DEF ReadStep, At, Unused
<1> QED
  BY <1>1, SkipReads

\* The length of the magic bytes.
LEMMA MagicBytes == IsBytes(MAGIC, 16)
BY DEF MAGIC, IsBytes, Byte

\* The magic bytes, where the decoder looks for them.
LEMMA MagicReads ==
    ASSUME NEW data \in Seq(Byte), NEW p \in 0 .. Len(data), NEW c, At(c, data, p),
           Follows(data, p, MAGIC)
    PROVE  Outcome(ReadStep(c, MagicAt(p)), data, p + 16, c.out)
<1>1. Len(data) \in Nat /\ p \in Nat /\ Len(MAGIC) = 16
  BY LenProperties, MagicBytes DEF IsBytes
<1>2. ReadStep(c, MagicAt(p)) = IF check_magic(data, p) THEN Skip(c, 16) ELSE Refuse(c)
  BY DEF ReadStep, At, MagicAt
<1>3. check_magic(data, p) <=> p + 16 =< Len(data) /\ SubSeq(data, p + 1, p + 16) = MAGIC
  BY <1>1 DEF check_magic
<1>4. CASE p + 16 =< Len(data)
  <2>1. SubSeq(data, p + 1, p + 16) = NextBytes(c, 16)
    BY DEF NextBytes, At
  <2>2. /\ IsBytes(NextBytes(c, 16), 16)
        /\ \A j \in 1 .. 16 : NextBytes(c, 16)[j] = data[p + j]
    <3>1. c.data = data /\ c.at = p /\ 16 \in Nat
      BY DEF At
    <3>2. /\ IsBytes(NextBytes(c, 16), 16)
          /\ \A j \in 1 .. 16 : NextBytes(c, 16)[j] = data[c.at + j]
      BY <1>1, <1>4, <3>1, NextBytesProperty, Zenon
    <3> QED
      BY <3>1, <3>2
  <2>3. \A j \in 1 .. 16 : p + j =< Len(data)
    BY <1>1, <1>4
  <2>4. \A j \in 1 .. 16 : NextBytes(c, 16)[j] = MAGIC[j]
    BY <1>1, <2>2, <2>3 DEF Follows
  <2>5. NextBytes(c, 16) = MAGIC
    BY <2>2, <2>4, MagicBytes, SameBytes
  <2>6. ReadStep(c, MagicAt(p)) = Skip(c, 16)
    BY <1>2, <1>3, <1>4, <2>1, <2>5
  <2> QED
    BY <2>6, SkipReads
<1>5. CASE ~ (p + 16 =< Len(data))
  <2>1. ReadStep(c, MagicAt(p)) = Refuse(c)
    BY <1>2, <1>3, <1>5
  <2>2. ReadStep(c, MagicAt(p)).status # "ok"
    BY <2>1 DEF Refuse, Stop
  <2> QED
    BY <1>5, <2>2 DEF Outcome
<1> QED
  BY <1>4, <1>5

\* s are the n bytes of data behind the first p + k.
Slice(s, data, p, k, n) == IsBytes(s, n) /\ \A j \in 1 .. n : s[j] = data[p + (k + j)]

\* What SubSeq takes out of the data.
LEMMA SliceReads ==
    ASSUME NEW data \in Seq(Byte), NEW p \in Nat, NEW k \in Nat, NEW n \in Nat, p + k + n =< Len(data),
           NEW s, s = SubSeq(data, p + k + 1, p + k + n)
    PROVE  Slice(s, data, p, k, n)
<1>1. PICK a : a = p + k
  OBVIOUS
<1>2. a \in Nat /\ a + n =< Len(data) /\ Len(data) \in Nat
  BY <1>1, LenProperties
<1>4. /\ SubSeq(data, a + 1, a + n) \in Seq(Byte)
      /\ Len(SubSeq(data, a + 1, a + n)) = n
      /\ \A j \in 1 .. n : SubSeq(data, a + 1, a + n)[j] = data[a + j]
  <2>1. \A j \in (a + 1) .. (a + n) : data[j] \in Byte
    BY <1>2, ElementOfSeq
  <2> QED
    BY <1>2, <2>1
<1>5. \A j \in 1 .. n : a + j = p + (k + j)
  BY <1>1
<1>6. s = SubSeq(data, a + 1, a + n)
  BY <1>1
<1> QED
  BY <1>4, <1>5, <1>6 DEF IsBytes, Slice

\* Inverting twice.
LEMMA InvertedTwice ==
    ASSUME NEW n \in Nat, NEW a, IsBytes(a, n)
    PROVE  /\ IsBytes(Inverted(a), n) /\ \A j \in 1 .. n : Inverted(a)[j] = 255 - a[j]
           /\ \A j \in 1 .. n : 255 - (255 - a[j]) = a[j]
<1>1. a \in Seq(Byte) /\ Len(a) = n /\ DOMAIN a = 1 .. n /\ \A j \in 1 .. n : a[j] \in Byte
  BY ElementOfSeq, LenProperties DEF IsBytes
<1>2. \A x \in Byte : 255 - x \in Byte /\ 255 - (255 - x) = x
  BY DEF Byte
<1>3. Inverted(a) = [i \in 1 .. n |-> 255 - a[i]]
  BY <1>1 DEF Inverted
<1>4. Inverted(a) \in [1 .. n -> Byte]
  BY <1>1, <1>2, <1>3
<1>5. Inverted(a) \in Seq(Byte) /\ Len(Inverted(a)) = n
  BY <1>4
<1> QED
  BY <1>1, <1>2, <1>3, <1>5 DEF IsBytes

\* The bytes of an address: its version, its body of n bytes and its port.
AddressBytes(b, v, ip, n, port) ==
    /\ IsBytes(b, 1 + n + 2) /\ b[1] = v
    /\ \A j \in 1 .. n : b[1 + j] = ip[j]
    /\ \A j \in 1 .. 2 : b[1 + n + j] = port[j]

\* That is what is written.
LEMMA AddressLayout ==
    ASSUME NEW v \in Byte, NEW n \in Nat, NEW ip, NEW port, IsBytes(ip, n), IsBytes(port, 2),
           NEW b, b = (<<v>> \o ip) \o port
    PROVE  AddressBytes(b, v, ip, n, port)
<1>1. PICK h, m : h = <<v>> \o ip /\ m = 1 + n
  OBVIOUS
<1>2. ip \in Seq(Byte) /\ Len(ip) = n /\ port \in Seq(Byte) /\ Len(port) = 2
  BY DEF IsBytes
<1>3. /\ h \in Seq(Byte) /\ Len(h) = 1 + n /\ h[1] = v
      /\ \A j \in 1 .. n : h[1 + j] = ip[j]
  BY <1>1, <1>2, HeadByte
<1>4. /\ b \in Seq(Byte) /\ Len(b) = m + 2
      /\ \A j \in 1 .. m : b[j] = h[j]
      /\ \A j \in 1 .. 2 : b[m + j] = port[j]
  <2>1. h \in Seq(Byte) /\ port \in Seq(Byte)
    BY <1>2, <1>3
  <2>2. /\ h \o port \in Seq(Byte) /\ Len(h \o port) = Len(h) + Len(port)
        /\ \A j \in 1 .. Len(h) : (h \o port)[j] = h[j]
        /\ \A j \in 1 .. Len(port) : (h \o port)[Len(h) + j] = port[j]
    BY <2>1, Joined
  <2>3. b = h \o port /\ Len(h) = m
    BY <1>1, <1>3
  <2> QED
    BY <1>2, <2>2, <2>3
<1>5. 1 \in 1 .. m /\ \A j \in 1 .. n : 1 + j \in 1 .. m
  BY <1>1
<1> QED
  BY <1>1, <1>3, <1>4, <1>5 DEF IsBytes, AddressBytes

\* The body of an address and its port, behind the version.
LEMMA AddressBodyReads ==
    ASSUME NEW data \in Seq(Byte), NEW p \in 0 .. Len(data), NEW c, At(c, data, p), NEW n \in {4, 16},
           NEW v \in Byte, NEW ip, NEW port, IsBytes(ip, n), IsBytes(port, 2),
           NEW b, b = (<<v>> \o ip) \o port, Follows(data, p, b)
    PROVE  Outcome(AddressBody(c, n), data, p + Len(b),
                   Append(c.out, [ip |-> IF n = 4 THEN Inverted(ip) ELSE ip, port |-> port]))
<1>1. /\ IsBytes(b, 1 + n + 2) /\ b[1] = v
      /\ \A j \in 1 .. n : b[1 + j] = ip[j]
      /\ \A j \in 1 .. 2 : b[1 + n + j] = port[j]
  <2>1. n \in Nat
    OBVIOUS
  <2>2. AddressBytes(b, v, ip, n, port)
    BY <2>1, AddressLayout, Zenon
  <2> QED
    BY <2>2 DEF AddressBytes
<1>2. Len(data) \in Nat /\ p \in Nat /\ n \in Nat /\ Len(b) = 1 + n + 2
  BY <1>1, LenProperties DEF IsBytes
<1>3. Remaining(c) < 1 + n + 2 <=> p + Len(b) > Len(data)
  BY <1>2 DEF Remaining, At
<1>4. CASE p + Len(b) > Len(data)
  <2>1. AddressBody(c, n) = Refuse(c)
    BY <1>3, <1>4 DEF AddressBody
  <2> QED
    BY <1>2, <1>4, <2>1 DEF Outcome, Refuse, Stop
<1>5. CASE ~ (p + Len(b) > Len(data))
  <2>0. 1 \in Nat /\ 2 \in Nat
    OBVIOUS
  <2>1. PICK x, y : /\ x = SubSeq(data, p + 1 + 1, p + 1 + n)
                    /\ y = SubSeq(data, p + (1 + n) + 1, p + (1 + n) + 2)
    OBVIOUS
  <2>2. /\ p + 1 + 1 = p + 2 /\ p + (1 + n) + 1 = p + 2 + n /\ p + (1 + n) + 2 = p + 3 + n
        /\ p + 1 + n =< Len(data) /\ p + (1 + n) + 2 =< Len(data) /\ 1 + n \in Nat
    BY <1>2, <1>5
  <2>3. c.data = data /\ c.at = p
    BY DEF At
  <2>4. AddressBody(c, n) = Advance(c, 1 + n + 2,
            Append(c.out, [ip |-> IF n = 4 THEN Inverted(x) ELSE x, port |-> y]))
    BY <1>3, <1>5, <2>1, <2>2, <2>3 DEF AddressBody
  <2>5. IsBytes(x, n) /\ \A j \in 1 .. n : x[j] = data[p + (1 + j)]
    <3>1. Slice(x, data, p, 1, n)
      BY <1>2, <2>0, <2>1, <2>2, SliceReads, Zenon
    <3> QED
      BY <3>1 DEF Slice
  <2>6. IsBytes(y, 2) /\ \A j \in 1 .. 2 : y[j] = data[p + ((1 + n) + j)]
    <3>1. Slice(y, data, p, 1 + n, 2)
      BY <1>2, <2>0, <2>1, <2>2, SliceReads, Zenon
    <3> QED
      BY <3>1 DEF Slice
  <2>7. \A j \in 1 .. Len(b) : data[p + j] = b[j]
    <3>1. \A j \in 1 .. Len(b) : p + j =< Len(data)
      <4>1. PICK m : m = Len(b)
        OBVIOUS
      <4>2. m \in Nat /\ ~ (p + m > Len(data))
        BY <1>2, <1>5, <4>1
      <4>3. \A j \in 1 .. m : p + j =< Len(data)
        BY <1>2, <4>2
      <4> QED
        BY <4>1, <4>3
    <3> QED
      BY <3>1 DEF Follows
  <2>8. x = ip
    <3>1. \A j \in 1 .. n : 1 + j \in 1 .. Len(b)
      BY <1>2
    <3>2. \A j \in 1 .. n : x[j] = ip[j]
      BY <1>1, <2>5, <2>7, <3>1
    <3> QED
      BY <1>2, <2>5, <3>2, SameBytes
  <2>9. y = port
    <3>1. \A j \in 1 .. 2 : 1 + n + j \in 1 .. Len(b)
      BY <1>2
    <3>2. \A j \in 1 .. 2 : y[j] = port[j]
      BY <1>1, <2>6, <2>7, <3>1
    <3> QED
      BY <2>6, <3>2, SameBytes
  <2>10. PICK out : out = Append(c.out, [ip |-> IF n = 4 THEN Inverted(ip) ELSE ip, port |-> port])
    OBVIOUS
  <2>11. AddressBody(c, n) = Advance(c, Len(b), out)
    BY <1>2, <2>4, <2>8, <2>9, <2>10
  <2>12. IsSequence(out)
    BY <2>10, AppendSequence DEF At
  <2>13. At(AddressBody(c, n), data, p + Len(b)) /\ AddressBody(c, n).out = out
    BY <2>11, <2>12 DEF At, Advance
  <2> QED
    BY <1>5, <2>10, <2>13 DEF Outcome
<1> QED
  BY <1>4, <1>5

\* An address is read back, IPv4 or IPv6.
LEMMA AddressReads ==
    ASSUME NEW data \in Seq(Byte), NEW p \in 0 .. Len(data), NEW c, At(c, data, p),
           NEW a, IsAddress(a), NEW b, b = write_address(a), Follows(data, p, b)
    PROVE  Outcome(read_address(c), data, p + Len(b), Append(c.out, a)) /\ Len(b) \in Nat /\ Len(b) >= 7
<1>1. /\ a = [ip |-> a.ip, port |-> a.port]
      /\ IsBytes(a.ip, 4) \/ IsBytes(a.ip, 16)
      /\ IsBytes(a.port, 2)
  BY DEF IsAddress
<1>2. PICK x, y : x = a.ip /\ y = a.port
  OBVIOUS
<1>3. Len(data) \in Nat /\ p \in Nat /\ c.data = data /\ c.at = p
  BY LenProperties DEF At
<1>4. ASSUME NEW n \in {4, 16}, NEW v \in {4, 6}, v = 4 <=> n = 4, NEW ip, IsBytes(ip, n),
             (IF n = 4 THEN Inverted(ip) ELSE ip) = x, b = (<<v>> \o ip) \o y
      PROVE  Outcome(read_address(c), data, p + Len(b), Append(c.out, a)) /\ Len(b) \in Nat /\ Len(b) >= 7
  <2>1. v \in Byte /\ n \in Nat /\ IsBytes(y, 2)
    BY <1>1, <1>2 DEF Byte
  <2>2. AddressBytes(b, v, ip, n, y)
    BY <1>4, <2>1, AddressLayout, Zenon
  <2>3. Len(b) = 1 + n + 2 /\ b[1] = v
    BY <2>2 DEF AddressBytes, IsBytes
  <2>4. Outcome(AddressBody(c, n), data, p + Len(b),
                Append(c.out, [ip |-> IF n = 4 THEN Inverted(ip) ELSE ip, port |-> y]))
    BY <1>4, <2>1, AddressBodyReads
  <2>5. Outcome(AddressBody(c, n), data, p + Len(b), Append(c.out, a))
    BY <1>1, <1>2, <1>4, <2>4
  <2>6. CASE Remaining(c) < 1
    <3>1. read_address(c) = Refuse(c)
      BY <2>6 DEF read_address
    <3>2. read_address(c).status # "ok"
      BY <3>1 DEF Refuse, Stop
    <3>3. p + Len(b) > Len(data) /\ ~ (p + Len(b) =< Len(data))
      BY <1>3, <2>3, <2>6 DEF Remaining
    <3> QED
      BY <2>3, <3>2, <3>3 DEF Outcome
  <2>7. CASE ~ (Remaining(c) < 1)
    <3>1. p + 1 =< Len(data) /\ 1 \in 1 .. Len(b)
      BY <1>3, <2>3, <2>7 DEF Remaining
    <3>2. data[p + 1] = v
      BY <2>3, <3>1 DEF Follows
    <3>3. read_address(c) = AddressBody(c, n)
      BY <1>3, <1>4, <2>7, <3>2 DEF read_address
    <3> QED
      BY <2>3, <2>5, <3>3
  <2> QED
    BY <2>6, <2>7
<1>5. CASE IsBytes(a.ip, 4)
  <2>1. Len(x) = 4
    BY <1>2, <1>5 DEF IsBytes
  <2>2. b = (<<4>> \o Inverted(x)) \o y
    BY <1>2, <2>1 DEF write_address
  <2>3. 4 \in Nat /\ IsBytes(x, 4)
    BY <1>2, <1>5
  <2>4. /\ IsBytes(Inverted(x), 4) /\ \A j \in 1 .. 4 : Inverted(x)[j] = 255 - x[j]
        /\ \A j \in 1 .. 4 : 255 - (255 - x[j]) = x[j]
    BY <2>3, InvertedTwice
  <2>5. IsBytes(Inverted(Inverted(x)), 4) /\ \A j \in 1 .. 4 : Inverted(Inverted(x))[j] = 255 - Inverted(x)[j]
    BY <2>3, <2>4, InvertedTwice
  <2>6. \A j \in 1 .. 4 : Inverted(Inverted(x))[j] = x[j]
    BY <2>4, <2>5
  <2>7. Inverted(Inverted(x)) = x
    BY <2>3, <2>5, <2>6, SameBytes
  <2> QED
    BY <1>4, <2>2, <2>4, <2>7
<1>6. CASE IsBytes(a.ip, 16)
  <2>1. Len(x) # 4
    BY <1>2, <1>6 DEF IsBytes
  <2>2. b = (<<6>> \o x) \o y
    BY <1>2, <2>1 DEF write_address
  <2>3. 16 \in {4, 16} /\ 6 \in {4, 6} /\ (6 = 4 <=> 16 = 4) /\ IsBytes(x, 16)
        /\ (IF 16 = 4 THEN Inverted(x) ELSE x) = x
    BY <1>2, <1>6
  <2> QED
    BY <1>4, <2>2, <2>3
<1> QED
  BY <1>1, <1>5, <1>6

\* An address read and dropped.
LEMMA UnusedAddressReads ==
    ASSUME NEW data \in Seq(Byte), NEW p \in 0 .. Len(data), NEW c, At(c, data, p),
           NEW a, IsAddress(a), NEW b, b = write_address(a), Follows(data, p, b)
    PROVE  /\ Outcome(ReadStep(c, Addr), data, p + Len(b), Append(c.out, a))
           /\ Outcome(ReadStep(c, UnusedAddr), data, p + Len(b), c.out)
           /\ Len(b) \in Nat /\ Len(b) >= 7
<1>1. Outcome(read_address(c), data, p + Len(b), Append(c.out, a)) /\ Len(b) \in Nat /\ Len(b) >= 7
  BY AddressReads
<1>2. PICK d : d = read_address(c)
  OBVIOUS
<1>3. ReadStep(c, Addr) = d /\ ReadStep(c, UnusedAddr) = Advance(d, 0, c.out)
  BY <1>2 DEF ReadStep, At, Addr, UnusedAddr
<1>4. /\ Advance(d, 0, c.out).status = d.status /\ Advance(d, 0, c.out).data = d.data
      /\ Advance(d, 0, c.out).at = d.at + 0 /\ Advance(d, 0, c.out).out = c.out
  BY DEF Advance
<1>5. p + Len(b) + 0 = p + Len(b) /\ IsSequence(c.out)
  BY <1>1 DEF At
<1> QED
  BY <1>1, <1>2, <1>3, <1>4, <1>5 DEF Outcome, At

\* Pong data is read back, if its length fits into 16 bits.
LEMMA DataReads ==
    ASSUME NEW data \in Seq(Byte), NEW p \in 0 .. Len(data), NEW c, At(c, data, p),
           NEW t \in Seq(Byte), Len(t) =< u16_MAX,
           NEW b, b = CountBytes(Len(t)) \o t, Follows(data, p, b)
    PROVE  /\ Outcome(ReadStep(c, Data), data, p + Len(b), Append(c.out, t))
           /\ Len(b) = 2 + Len(t)
<1>1. PICK n : n = Len(t)
  OBVIOUS
<1>2. Len(data) \in Nat /\ p \in Nat /\ c.data = data /\ c.at = p /\ n \in Nat /\ c.status = "ok"
  BY <1>1, LenProperties DEF At
<1>3. PICK h : h = CountBytes(n)
  OBVIOUS
<1>4. IsBytes(h, 2) /\ get_u16(h) = n
  <2>1. n =< u16_MAX
    BY <1>1
  <2>2. n < 65536
    BY <1>2, <2>1 DEF u16_MAX
  <2>3. n % 65536 = n
    BY <1>2, <2>2
  <2>4. h = put_u16(n)
    BY <1>3, <2>3 DEF CountBytes
  <2>5. IsBytes(put_u16(n), 2)
    BY <1>2, IntegerBytes
  <2> QED
    BY <1>2, <2>2, <2>4, <2>5, RoundTrip16
<1>5. /\ h \o t \in Seq(Byte) /\ Len(h \o t) = Len(h) + Len(t)
      /\ \A j \in 1 .. Len(h) : (h \o t)[j] = h[j]
      /\ \A j \in 1 .. Len(t) : (h \o t)[Len(h) + j] = t[j]
  <2>1. h \in Seq(Byte)
    BY <1>4 DEF IsBytes
  <2> QED
    BY <2>1, Joined
<1>6. /\ b \in Seq(Byte) /\ Len(b) = 2 + n
      /\ \A j \in 1 .. 2 : b[j] = h[j]
      /\ \A j \in 1 .. n : b[2 + j] = t[j]
  <2>1. b = h \o t /\ Len(h) = 2
    BY <1>1, <1>3, <1>4 DEF IsBytes
  <2> QED
    BY <1>1, <1>5, <2>1
<1>7. PICK size : size = Take(c, 2)
  OBVIOUS
<1>8. ReadStep(c, Bytes(2)) = size /\ ReadStep(c, Data) = ReadData(c)
  BY <1>2, <1>7 DEF ReadStep, Bytes, Data
<1>9. Follows(data, p, h)
  <2>1. \A j \in 1 .. 2 : j \in 1 .. Len(b)
    BY <1>2, <1>6
  <2>2. Len(h) = 2
    BY <1>4 DEF IsBytes
  <2> QED
    BY <1>6, <2>1, <2>2 DEF Follows
<1>10. Outcome(size, data, p + 2, Append(c.out, h))
  <2>1. 2 \in Nat
    OBVIOUS
  <2> QED
    BY <1>4, <1>8, <1>9, <2>1, TakeReads
<1>11. CASE p + 2 > Len(data)
  <2>1. size.status # "ok"
    BY <1>10, <1>11 DEF Outcome
  <2>2. ReadStep(c, Data).status # "ok"
    BY <1>7, <1>8, <2>1 DEF ReadData
  <2>3. p + Len(b) > Len(data) /\ ~ (p + Len(b) =< Len(data)) /\ Len(b) = 2 + Len(t)
    BY <1>1, <1>2, <1>6, <1>11
  <2> QED
    BY <2>2, <2>3 DEF Outcome
<1>12. CASE ~ (p + 2 > Len(data))
  <2>1. At(size, data, p + 2) /\ size.out = Append(c.out, h)
    <3>1. p + 2 =< Len(data)
      BY <1>2, <1>12
    <3> QED
      BY <1>10, <3>1 DEF Outcome
  <2>2. Last(size.out) = h
    BY <2>1, AppendSequence DEF At
  <2>3. PICK e : e = Advance(size, 0, c.out)
    OBVIOUS
  <2>4. ReadData(c) = IF Remaining(size) < n THEN Refuse(c) ELSE Take(e, n)
    BY <1>4, <1>7, <2>1, <2>2, <2>3 DEF ReadData, At
  <2>5. PICK q : q = p + 2
    OBVIOUS
  <2>6. q \in 0 .. Len(data) /\ q \in Nat /\ q + n = p + Len(b) /\ q + 0 = q
    BY <1>2, <1>6, <1>12, <2>5
  <2>7. At(e, data, q) /\ e.out = c.out
    BY <2>1, <2>3, <2>5, <2>6 DEF At, Advance
  <2>8. Remaining(size) < n <=> q + n > Len(data)
    BY <1>2, <2>1, <2>5, <2>6 DEF Remaining, At
  <2>9. Follows(data, q, t)
    <3>1. ASSUME NEW j \in 1 .. Len(t), q + j =< Len(data) PROVE data[q + j] = t[j]
      <4>1. 2 + j \in 1 .. Len(b) /\ p + (2 + j) = q + j
        BY <1>1, <1>2, <1>6, <2>5
      <4>2. data[p + (2 + j)] = b[2 + j]
        BY <3>1, <4>1 DEF Follows
      <4> QED
        BY <1>1, <1>6, <4>1, <4>2
    <3> QED
      BY <3>1 DEF Follows
  <2>10. Outcome(Take(e, n), data, q + n, Append(c.out, t))
    <3>1. ReadStep(e, Bytes(n)) = Take(e, n)
      BY <2>7 DEF ReadStep, At, Bytes
    <3>2. IsBytes(t, n)
      BY <1>1 DEF IsBytes
    <3> QED
      BY <1>2, <2>6, <2>7, <2>9, <3>1, <3>2, TakeReads
  <2>11. CASE q + n > Len(data)
    <3>1. ReadStep(c, Data) = Refuse(c)
      BY <1>8, <2>4, <2>8, <2>11
    <3>2. ReadStep(c, Data).status # "ok" /\ ~ (q + n =< Len(data))
      BY <1>2, <2>6, <2>11, <3>1 DEF Refuse, Stop
    <3> QED
      BY <1>1, <1>6, <2>6, <3>2 DEF Outcome
  <2>12. CASE ~ (q + n > Len(data))
    BY <1>1, <1>6, <1>8, <2>4, <2>6, <2>8, <2>10, <2>12
  <2> QED
    BY <2>11, <2>12
<1> QED
  BY <1>11, <1>12

\* Pong data never outgrows the 16 bits of its length.
TextsFit == \A t \in Texts : Len(t) =< u16_MAX

\* The step that reads back an item which begins behind p bytes.
Pairs(s, item, p) ==
    \/ \E n \in {1, 2, 8} : s = Bytes(n) /\ item = Bytes(n)
    \/ \E b \in Seq(Byte) : s = Unused(Len(b)) /\ item = Const(b)
    \/ s = MagicAt(p) /\ item = Magic
    \/ s = Addr /\ item = Addr
    \/ s = UnusedAddr /\ item = Const(write_address(NoAddress))
    \/ s = Data /\ item = Data

\* The address that nobody uses is one.
LEMMA NoAddressIs == IsAddress(NoAddress)
<1>1. IsBytes(Zeros(4), 4) /\ IsBytes(Zeros(2), 2)
  BY DEF Zeros, IsBytes, Byte
<1>2. NoAddress.ip = Zeros(4) /\ NoAddress.port = Zeros(2)
  BY DEF NoAddress
<1>3. NoAddress = [ip |-> NoAddress.ip, port |-> NoAddress.port]
  BY <1>2 DEF NoAddress
<1> QED
  BY <1>1, <1>2, <1>3 DEF IsAddress

\* Each item is read back by the step it pairs with.
LEMMA ItemReads ==
    ASSUME TextsFit,
           NEW data \in Seq(Byte), NEW p \in 0 .. Len(data), NEW c, At(c, data, p),
           NEW item, NEW v \in Values(item), NEW b, b = ItemBytes(item, v, p), Follows(data, p, b),
           NEW s, Pairs(s, item, p)
    PROVE  Outcome(ReadStep(c, s), data, p + Len(b),
                   IF item.op = "const" THEN c.out ELSE Append(c.out, v))
<1>1. CASE \E n \in {1, 2, 8} : s = Bytes(n) /\ item = Bytes(n)
  <2>1. PICK n \in {1, 2, 8} : s = Bytes(n) /\ item = Bytes(n)
    BY <1>1
  <2>2. item.op = "take" /\ item.n = n
    BY <2>1 DEF Bytes
  <2>3. IsBytes(v, n)
    BY <2>2, PacketAssumption DEF Values
  <2>4. b = v /\ Len(b) = n /\ n \in Nat
    BY <2>2, <2>3 DEF ItemBytes, IsBytes
  <2>5. Outcome(ReadStep(c, s), data, p + n, Append(c.out, v))
    BY <2>1, <2>3, <2>4, TakeReads
  <2> QED
    BY <2>2, <2>4, <2>5
<1>2. CASE \E b2 \in Seq(Byte) : s = Unused(Len(b2)) /\ item = Const(b2)
  <2>1. PICK b2 \in Seq(Byte) : s = Unused(Len(b2)) /\ item = Const(b2)
    BY <1>2
  <2>2. item.op = "const" /\ b = b2
    BY <2>1 DEF Const, ItemBytes
  <2>3. Len(b) \in Nat
    BY <2>2, LenProperties
  <2>4. Outcome(ReadStep(c, s), data, p + Len(b), c.out)
    BY <2>1, <2>2, <2>3, UnusedReads
  <2> QED
    BY <2>2, <2>4
<1>3. CASE s = MagicAt(p) /\ item = Magic
  <2>1. item.op = "const" /\ b = MAGIC
    BY <1>3 DEF Const, Magic, ItemBytes
  <2>2. Len(b) = 16
    BY <2>1, MagicBytes DEF IsBytes
  <2>3. Outcome(ReadStep(c, s), data, p + 16, c.out)
    BY <1>3, <2>1, MagicReads
  <2> QED
    BY <2>1, <2>2, <2>3
<1>4. CASE s = Addr /\ item = Addr
  <2>1. item.op = "addr"
    BY <1>4 DEF Addr
  <2>2. IsAddress(v) /\ b = write_address(v)
    BY <2>1, PacketAssumption DEF Values, ItemBytes
  <2>3. Outcome(ReadStep(c, s), data, p + Len(b), Append(c.out, v))
    BY <1>4, <2>2, UnusedAddressReads
  <2> QED
    BY <2>1, <2>3
<1>5. CASE s = UnusedAddr /\ item = Const(write_address(NoAddress))
  <2>1. item.op = "const" /\ b = write_address(NoAddress)
    BY <1>5 DEF Const, ItemBytes
  <2>3. Outcome(ReadStep(c, s), data, p + Len(b), c.out)
    BY <1>5, <2>1, NoAddressIs, UnusedAddressReads
  <2> QED
    BY <2>1, <2>3
<1>6. CASE s = Data /\ item = Data
  <2>1. item.op = "data"
    BY <1>6 DEF Data
  <2>2. v \in Texts /\ b = CountBytes(Len(v)) \o v
    BY <2>1 DEF Values, ItemBytes, CountBytes
  <2>3. v \in Seq(Byte) /\ Len(v) =< u16_MAX
    BY <2>2, PacketAssumption DEF TextsFit
  <2>4. Outcome(ReadStep(c, s), data, p + Len(b), Append(c.out, v))
    BY <1>6, <2>2, <2>3, DataReads
  <2> QED
    BY <2>1, <2>4
<1> QED
  BY <1>1, <1>2, <1>3, <1>4, <1>5, <1>6 DEF Pairs

\* The least number of bytes an item takes.
Least(item) ==
    CASE item.op = "const" -> Len(item.bytes)
      [] item.op = "take" -> item.n
      [] item.op = "addr" -> 7
      [] item.op = "data" -> 2
      [] item.op = "padding" -> 0

\* No item is shorter.
LEMMA ItemLeast ==
    ASSUME NEW item \in Items, NEW v \in Values(item), NEW n \in Nat
    PROVE  /\ ItemBytes(item, v, n) \in Seq(Byte) /\ Least(item) \in Nat
           /\ Len(ItemBytes(item, v, n)) \in Nat /\ Least(item) =< Len(ItemBytes(item, v, n))
<1>0. PICK b : b = ItemBytes(item, v, n)
  OBVIOUS
<1>1. b \in Seq(Byte) /\ Len(b) \in Nat
  BY <1>0, ItemBytesBytes, LenProperties
<1>2. CASE \E b2 \in Seq(Byte) : item = Const(b2)
  <2>1. item.op = "const" /\ b = item.bytes
    BY <1>0, <1>2 DEF Const, ItemBytes
  <2>2. Least(item) = Len(b)
    BY <2>1 DEF Least
  <2> QED
    BY <1>0, <1>1, <2>2
<1>3. CASE \E m \in {1, 2, 8} : item = Bytes(m)
  <2>1. PICK m \in {1, 2, 8} : item = Bytes(m)
    BY <1>3
  <2>2. item.op = "take" /\ item.n = m
    BY <2>1 DEF Bytes
  <2>3. IsBytes(v, m) /\ b = v /\ Least(item) = m
    BY <1>0, <2>2, PacketAssumption DEF Values, ItemBytes, Least
  <2> QED
    BY <1>0, <1>1, <2>3 DEF IsBytes
<1>4. CASE item = Addr
  <2>1. item.op = "addr"
    BY <1>4 DEF Addr
  <2>2. IsAddress(v) /\ b = write_address(v) /\ Least(item) = 7
    BY <1>0, <2>1, PacketAssumption DEF Values, ItemBytes, Least
  <2>3. Len(b) >= 7
    <3>1. PICK data : data = <<>>
      OBVIOUS
    <3>2. data \in Seq(Byte) /\ Len(data) = 0 /\ 0 \in 0 .. Len(data)
      BY <3>1, EmptySeq
    <3>3. PICK c : c = Cursor(data, 0)
      OBVIOUS
    <3>4. At(c, data, 0)
      BY <3>3, CursorAt
    <3>5. Follows(data, 0, b)
      BY <1>1, <3>2 DEF Follows
    <3> QED
      BY <2>2, <3>2, <3>4, <3>5, UnusedAddressReads
  <2> QED
    BY <1>0, <1>1, <2>2, <2>3
<1>5. CASE item = Data
  <2>1. item.op = "data"
    BY <1>5 DEF Data
  <2>2. v \in Seq(Byte) /\ b = put_u16(Len(v) % 65536) \o v /\ Least(item) = 2
    BY <1>0, <2>1, PacketAssumption DEF Values, ItemBytes, Least
  <2>3. PICK h : h = put_u16(Len(v) % 65536)
    OBVIOUS
  <2>4. Len(v) \in Nat
    BY <2>2, LenProperties
  <2>5. Len(v) % 65536 \in Nat
    BY <2>4
  <2>6. IsBytes(h, 2)
    BY <2>3, <2>5, IntegerBytes
  <2>7. h \in Seq(Byte) /\ Len(h) = 2
    BY <2>6 DEF IsBytes
  <2>8. Len(b) = 2 + Len(v)
    <3>1. v \in Seq(Byte) /\ h \in Seq(Byte) /\ b = h \o v
      BY <2>2, <2>3, <2>7
    <3>2. Len(h \o v) = Len(h) + Len(v)
      BY <3>1, Joined, Zenon
    <3> QED
      BY <2>7, <3>1, <3>2
  <2> QED
    BY <1>0, <1>1, <2>2, <2>4, <2>8
<1>6. CASE item = Padding
  <2>1. Least(item) = 0
    BY <1>6 DEF Least, Padding
  <2> QED
    BY <1>0, <1>1, <2>1
<1> QED
  BY <1>2, <1>3, <1>4, <1>5, <1>6 DEF Items

\* b begins with a.
Starts(a, b) == Len(a) =< Len(b) /\ \A j \in 1 .. Len(a) : a[j] = b[j]

\* up[i] is a number of bytes that the first i items take at least.
Counts(up, kind, n) ==
    /\ up \in [0 .. n -> Nat]
    /\ \A i \in 1 .. n : up[i] =< up[i - 1] + Least(Packet[kind].write[i])

\* next is w and, behind it, the bytes b of an item and its argument.
Added(next, w, item, v, b) ==
    /\ b \in Seq(Byte) /\ Len(b) \in Nat /\ Least(item) =< Len(b) /\ Least(item) \in Nat
    /\ next.bytes \in Seq(Byte) /\ Len(next.bytes) = Len(w.bytes) + Len(b)
    /\ \A j \in 1 .. Len(w.bytes) : next.bytes[j] = w.bytes[j]
    /\ \A j \in 1 .. Len(b) : next.bytes[Len(w.bytes) + j] = b[j]
    /\ next.args = IF item.op = "const" THEN w.args ELSE Append(w.args, v)

\* What an item adds.
LEMMA ItemAdds ==
    ASSUME NEW w, w.bytes \in Seq(Byte), NEW item \in Items, NEW v \in Values(item)
    PROVE  Added(WriteItem(w, item, v), w, item, v, ItemBytes(item, v, Len(w.bytes)))
<1>1. PICK a, b : a = w.bytes /\ b = ItemBytes(item, v, Len(w.bytes))
  OBVIOUS
<1>2. a \in Seq(Byte) /\ Len(a) \in Nat
  BY <1>1, LenProperties
<1>3. b \in Seq(Byte) /\ Len(b) \in Nat /\ Least(item) =< Len(b) /\ Least(item) \in Nat
  BY <1>1, <1>2, ItemLeast
<1>4. PICK next : next = WriteItem(w, item, v)
  OBVIOUS
<1>5. next.bytes = a \o b /\ next.args = IF item.op = "const" THEN w.args ELSE Append(w.args, v)
  BY <1>1, <1>4, WriteItemParts
<1>6. /\ a \o b \in Seq(Byte) /\ Len(a \o b) = Len(a) + Len(b)
      /\ \A j \in 1 .. Len(a) : (a \o b)[j] = a[j]
      /\ \A j \in 1 .. Len(b) : (a \o b)[Len(a) + j] = b[j]
  BY <1>2, <1>3, Joined
<1>7. /\ next.bytes \in Seq(Byte) /\ Len(next.bytes) = Len(a) + Len(b)
      /\ \A j \in 1 .. Len(a) : next.bytes[j] = a[j]
      /\ \A j \in 1 .. Len(b) : next.bytes[Len(a) + j] = b[j]
  BY <1>5, <1>6
<1> QED
  BY <1>1, <1>3, <1>4, <1>5, <1>7 DEF Added

\* An encoder only adds at the end, and every item adds what it must.
LEMMA ChainGrows ==
    ASSUME NEW kind \in Kinds, NEW n \in Nat, n =< Len(Packet[kind].write), NEW w, NEW v,
           Chain(w, v, kind, n), NEW up, Counts(up, kind, n)
    PROVE  /\ \A i \in 0 .. n : w[i].bytes \in Seq(Byte) /\ Len(w[i].bytes) \in Nat
           /\ \A k \in 0 .. n : /\ Starts(w[k].bytes, w[n].bytes)
                                /\ Len(w[k].bytes) + up[n] =< Len(w[n].bytes) + up[k]
<1>1. \A i \in 1 .. n : Packet[kind].write[i] \in Items
  BY EncoderItems, ElementOfSeq, LenProperties
<1>2. \A i \in 0 .. n : w[i].bytes \in Seq(Byte) /\ Len(w[i].bytes) \in Nat
  BY ChainBytes, LenProperties
<1> DEFINE Good(k, i) == /\ Starts(w[k].bytes, w[i].bytes)
                         /\ Len(w[k].bytes) + up[i] =< Len(w[i].bytes) + up[k]
           E == {i \in 0 .. n : \A k \in 0 .. i : Good(k, i)}
<1>3. ASSUME NEW i \in 0 .. n PROVE Good(i, i)
  <2>1. up[i] \in Nat /\ Len(w[i].bytes) \in Nat
    BY <1>2 DEF Counts
  <2> QED
    BY <2>1 DEF Starts
<1>4. 0 \in E
  BY <1>3
<1>5. ASSUME NEW i \in 0 .. n - 1, i \in E PROVE i + 1 \in E
  <2>1. i + 1 \in 1 .. n /\ i + 1 \in 0 .. n /\ (i + 1) - 1 = i /\ i \in 0 .. n /\ i \in Nat
    OBVIOUS
  <2>2. PICK item, arg : item = Packet[kind].write[i + 1] /\ arg = v[i + 1]
    OBVIOUS
  <2>3. item \in Items /\ arg \in Values(item) /\ w[i + 1] = WriteItem(w[i], item, arg)
    BY <1>1, <2>1, <2>2 DEF Chain
  <2>4. PICK b : b = ItemBytes(item, arg, Len(w[i].bytes))
    OBVIOUS
  <2>5. /\ Len(b) \in Nat /\ Least(item) =< Len(b) /\ Least(item) \in Nat
        /\ Len(w[i + 1].bytes) = Len(w[i].bytes) + Len(b)
        /\ \A j \in 1 .. Len(w[i].bytes) : w[i + 1].bytes[j] = w[i].bytes[j]
    <3>1. Added(w[i + 1], w[i], item, arg, b)
      BY <1>2, <2>1, <2>3, <2>4, ItemAdds
    <3> QED
      BY <3>1 DEF Added
  <2>6. up[i + 1] =< up[i] + Least(item) /\ \A k \in 0 .. n : up[k] \in Nat
    BY <2>1, <2>2 DEF Counts
  <2>7. ASSUME NEW k \in 0 .. i + 1 PROVE Good(k, i + 1)
    <3>1. CASE k = i + 1
      BY <1>3, <2>1, <3>1
    <3>2. CASE k # i + 1
      <4>1. k \in 0 .. i /\ k \in 0 .. n
        BY <2>1, <3>2
      <4>2. Good(k, i)
        BY <1>5, <4>1
      <4>3. PICK lk, li, ln, lb : /\ lk = Len(w[k].bytes) /\ li = Len(w[i].bytes)
                                  /\ ln = Len(w[i + 1].bytes) /\ lb = Len(b)
        OBVIOUS
      <4>4. /\ lk \in Nat /\ li \in Nat /\ ln \in Nat /\ lb \in Nat /\ lk =< li /\ ln = li + lb
            /\ lk + up[i] =< li + up[k] /\ Least(item) =< lb
        BY <1>2, <2>1, <2>5, <4>1, <4>2, <4>3 DEF Starts
      <4>5. lk =< ln
        BY <4>4
      <4>6. lk + up[i + 1] =< ln + up[k]
        <5>1. PICK x, y, z, u : x = up[i] /\ y = up[i + 1] /\ z = up[k] /\ u = Least(item)
          OBVIOUS
        <5>2. /\ x \in Nat /\ y \in Nat /\ z \in Nat /\ u \in Nat /\ y =< x + u /\ u =< lb
              /\ lk + x =< li + z
          BY <2>1, <2>5, <2>6, <4>1, <4>4, <5>1
        <5>3. lk + y =< ln + z
          BY <4>4, <5>2
        <5> QED
          BY <5>1, <5>3
      <4>7. \A j \in 1 .. lk : w[k].bytes[j] = w[i + 1].bytes[j]
        <5>1. \A j \in 1 .. lk : j \in 1 .. li /\ w[k].bytes[j] = w[i].bytes[j]
          BY <4>2, <4>3, <4>4 DEF Starts
        <5> QED
          BY <2>5, <4>3, <5>1
      <4> QED
        BY <4>3, <4>5, <4>6, <4>7 DEF Starts
    <3> QED
      BY <3>1, <3>2
  <2> QED
    BY <2>1, <2>7
<1> HIDE DEF E
<1>6. \A i \in 0 .. n : i \in E
  BY <1>4, <1>5, UpTo
<1>7. \A k \in 0 .. n : Good(k, n)
  BY <1>6 DEF E
<1> QED
  BY <1>2, <1>7

\* The k-th item begins behind p bytes, whatever the arguments.
Place(kind, k, p) ==
    \/ k = 1 /\ p = 1
    \/ k = 2 /\ p = 9 /\ Packet[kind].write[1] = I64
    \/ k = 3 /\ p = 17 /\ Packet[kind].write[1] = I64 /\ Packet[kind].write[2] = I64

\* The step s reads the k-th item; the magic bytes where check_magic looks.
ReadsItem(s, kind, k) ==
    \E p : Pairs(s, Packet[kind].write[k], p) /\ (s = MagicAt(p) => Place(kind, k, p))

\* The steps of a decoder against the first m items of the encoder: k[i] is
\* the number of items read after i steps, and no length check asks for more
\* than the items still to come take at least.
Aligned(steps, n, kind, m, k, up) ==
    /\ Counts(up, kind, m) /\ up[0] = 0
    /\ n \in Nat /\ n >= 2 /\ k \in [2 .. n -> 0 .. m] /\ k[2] = 0 /\ k[n] = m
    /\ \E x \in Nat : steps[1] = Need(x) /\ 1 =< x /\ x =< 1 + up[m]
    /\ steps[2] = Id(Packet[kind].id)
    /\ \A i \in 3 .. n :
          \/ \E x \in Nat : steps[i] = Need(x) /\ k[i] = k[i - 1] /\ x + up[k[i]] =< up[m]
          \/ k[i] = k[i - 1] + 1 /\ ReadsItem(steps[i], kind, k[i])

\* data is b as far as it goes.
Agrees(data, b) == \A j \in 1 .. Len(b) : j =< Len(data) => data[j] = b[j]

\* Where the items of fixed size end.
LEMMA PlaceIs ==
    ASSUME NEW kind \in Kinds, NEW n \in Nat, n =< Len(Packet[kind].write), NEW w, NEW v,
           Chain(w, v, kind, n), NEW k \in 1 .. n, NEW p, Place(kind, k, p)
    PROVE  Len(w[k - 1].bytes) = p
<1>1. Len(w[0].bytes) = 1
  <2>1. PICK a, b : a = <<>> /\ b = <<Packet[kind].id>>
    OBVIOUS
  <2>2. Len(b) = 1
    BY <2>1
  <2>3. w[0] = [args |-> a, bytes |-> b]
    BY <2>1 DEF Chain
  <2> QED
    BY <2>2, <2>3
<1>2. ASSUME NEW i \in 1 .. n, Packet[kind].write[i] = I64
      PROVE  Len(w[i].bytes) = Len(w[i - 1].bytes) + 8
  <2>1. w[i - 1].bytes \in Seq(Byte)
    BY ChainBytes
  <2>2. PICK item, arg : item = I64 /\ arg = v[i]
    OBVIOUS
  <2>3. item \in Items /\ item.op = "take" /\ item.n = 8
    BY <2>2 DEF Items, I64, Bytes
  <2>4. arg \in Values(item) /\ w[i] = WriteItem(w[i - 1], item, arg)
    BY <1>2, <2>2 DEF Chain
  <2>5. arg \in Integers8
    BY <2>3, <2>4 DEF Values
  <2>6. Len(arg) = 8 /\ ItemBytes(item, arg, Len(w[i - 1].bytes)) = arg
    BY <2>3, <2>5, PacketAssumption DEF IsBytes, ItemBytes
  <2>7. Added(w[i], w[i - 1], item, arg, arg)
    BY <2>1, <2>3, <2>4, <2>6, ItemAdds
  <2> QED
    BY <2>6, <2>7 DEF Added
<1>3. CASE k = 1 /\ p = 1
  BY <1>1, <1>3
<1>4. CASE k = 2 /\ p = 9 /\ Packet[kind].write[1] = I64
  <2>1. 1 \in 1 .. n /\ 1 - 1 = 0 /\ k - 1 = 1
    BY <1>4
  <2>2. Len(w[1].bytes) = Len(w[0].bytes) + 8
    BY <1>2, <1>4, <2>1
  <2> QED
    BY <1>1, <1>4, <2>1, <2>2
<1>5. CASE k = 3 /\ p = 17 /\ Packet[kind].write[1] = I64 /\ Packet[kind].write[2] = I64
  <2>1. 1 \in 1 .. n /\ 1 - 1 = 0 /\ 2 \in 1 .. n /\ 2 - 1 = 1 /\ k - 1 = 2
    BY <1>5
  <2>2. Len(w[1].bytes) = Len(w[0].bytes) + 8 /\ Len(w[2].bytes) = Len(w[1].bytes) + 8
    BY <1>2, <1>5, <2>1
  <2> QED
    BY <1>1, <1>5, <2>1, <2>2
<1> QED
  BY <1>3, <1>4, <1>5 DEF Place

\* The step that looks at the id.
LEMMA IdStep ==
    ASSUME NEW c, c.status = "ok", NEW id
    PROVE  ReadStep(c, Id(id)) = IF Remaining(c) < 1 THEN Skip(c, 1)
                                 ELSE IF c.data[c.at + 1] # id THEN Refuse(c) ELSE Skip(c, 1)
BY DEF ReadStep, Id

\* The first two steps: the length check and the id.
LEMMA IdReads ==
    ASSUME NEW data \in Seq(Byte), NEW x \in Nat, 1 =< x, NEW id, NEW c1, NEW c2,
           c1 = ReadStep(Cursor(data, 0), Need(x)), c2 = ReadStep(c1, Id(id))
    PROVE  /\ Len(data) < x => c2.status # "ok"
           /\ x =< Len(data) /\ data[1] # id => c2.status # "ok"
           /\ x =< Len(data) /\ data[1] = id => At(c2, data, 1) /\ c2.out = <<>>
<1>1. PICK c : c = Cursor(data, 0)
  OBVIOUS
<1>2. /\ At(c, data, 0) /\ c.out = <<>> /\ Len(data) \in Nat /\ 0 \in 0 .. Len(data)
      /\ c.status = "ok" /\ c.data = data /\ c.at = 0
  BY <1>1, CursorAt, LenProperties DEF At
<1>3. CASE Len(data) < x
  <2>1. 0 + x > Len(data)
    BY <1>2, <1>3
  <2>2. c1.status = "error"
    BY <1>1, <1>2, <2>1, Field
  <2>3. c2.status # "ok"
    BY <2>2, Failed
  <2> QED
    BY <1>2, <1>3, <2>3
<1>4. CASE ~ (Len(data) < x)
  <2>1. 0 + x =< Len(data) /\ Remaining(c) >= 1 /\ ~ (Remaining(c) < 1) /\ 1 =< Len(data) /\ 0 + 1 = 1
    BY <1>2, <1>4 DEF Remaining
  <2>2. c1 = c
    BY <1>1, <1>2, <2>1, Field
  <2>3. c2 = IF data[1] # id THEN Refuse(c) ELSE Skip(c, 1)
    <3>1. c.data[c.at + 1] = data[1]
      BY <1>2, <2>1
    <3> QED
      BY <1>2, <2>1, <2>2, <3>1, IdStep
  <2>4. CASE data[1] # id
    BY <1>4, <2>3, <2>4 DEF Refuse, Stop
  <2>5. CASE data[1] = id
    <3>1. 1 \in Nat
      OBVIOUS
    <3>2. Outcome(Skip(c, 1), data, 0 + 1, c.out)
      BY <1>2, <3>1, SkipReads
    <3>3. At(c2, data, 1) /\ c2.out = <<>>
      BY <1>2, <2>1, <2>3, <2>5, <3>2 DEF Outcome
    <3> QED
      BY <1>4, <2>5, <3>3
  <2> QED
    BY <2>4, <2>5
<1> QED
  BY <1>3, <1>4

\* A step that reads the k-th item moves the cursor behind it.
LEMMA AlignedStep ==
    ASSUME TextsFit, NEW kind \in Kinds, NEW m \in Nat, m =< Len(Packet[kind].write), NEW w, NEW v,
           Chain(w, v, kind, m), NEW k \in 1 .. m, NEW s, ReadsItem(s, kind, k),
           NEW data \in Seq(Byte), Agrees(data, w[k].bytes),
           NEW c, At(c, data, Len(w[k - 1].bytes)), c.out = w[k - 1].args,
           Len(w[k - 1].bytes) =< Len(data)
    PROVE  Outcome(ReadStep(c, s), data, Len(w[k].bytes), w[k].args)
<1>1. PICK item, arg, p, b : /\ item = Packet[kind].write[k] /\ arg = v[k]
                             /\ p = Len(w[k - 1].bytes) /\ b = ItemBytes(item, arg, p)
  OBVIOUS
<1>2. item \in Items
  BY <1>1, EncoderItems, ElementOfSeq, LenProperties
<1>3. arg \in Values(item) /\ w[k] = WriteItem(w[k - 1], item, arg)
  BY <1>1 DEF Chain
<1>4. w[k - 1].bytes \in Seq(Byte) /\ p \in Nat /\ Len(data) \in Nat
  BY <1>1, ChainBytes, LenProperties
<1>5. Added(w[k], w[k - 1], item, arg, b)
  BY <1>1, <1>2, <1>3, <1>4, ItemAdds
<1>6. /\ Len(w[k].bytes) = p + Len(b) /\ Len(b) \in Nat
      /\ \A j \in 1 .. Len(b) : w[k].bytes[p + j] = b[j]
      /\ w[k].args = IF item.op = "const" THEN c.out ELSE Append(c.out, arg)
  BY <1>1, <1>5 DEF Added
<1>7. Pairs(s, item, p)
  <2>1. PICK q : Pairs(s, item, q) /\ (s = MagicAt(q) => Place(kind, k, q))
    BY <1>1 DEF ReadsItem
  <2>2. CASE s = MagicAt(q)
    <3>1. p = q
      BY <1>1, <2>1, <2>2, PlaceIs
    <3> QED
      BY <2>1, <3>1
  <2>3. CASE s # MagicAt(q)
    BY <2>1, <2>3 DEF Pairs
  <2> QED
    BY <2>2, <2>3
<1>8. Follows(data, p, b)
  <2>1. ASSUME NEW j \in 1 .. Len(b), p + j =< Len(data) PROVE data[p + j] = b[j]
    <3>1. p + j \in 1 .. Len(w[k].bytes)
      <4>1. PICK lb : lb = Len(b)
        OBVIOUS
      <4>2. lb \in Nat /\ j \in 1 .. lb /\ Len(w[k].bytes) = p + lb
        BY <1>6, <4>1
      <4> QED
        BY <1>4, <4>2
    <3>2. data[p + j] = w[k].bytes[p + j]
      BY <2>1, <3>1 DEF Agrees
    <3> QED
      BY <1>6, <3>2
  <2> QED
    BY <2>1 DEF Follows
<1>9. p \in 0 .. Len(data) /\ At(c, data, p)
  BY <1>1, <1>4
<1>10. Outcome(ReadStep(c, s), data, p + Len(b), IF item.op = "const" THEN c.out ELSE Append(c.out, arg))
  BY <1>1, <1>3, <1>7, <1>8, <1>9, ItemReads
<1> QED
  BY <1>6, <1>10

\* The decoder's cursor after some steps: behind so many items, or failed
\* because the data end before the packet does.
Behind(c, data, packet, full) ==
    \/ c.status # "ok" /\ Len(data) < Len(full)
    \/ At(c, data, Len(packet.bytes)) /\ c.out = packet.args /\ Len(packet.bytes) =< Len(data)

\* Steps aligned with the items read them back, if they are all there.
LEMMA ReadAligned ==
    ASSUME TextsFit, NEW kind \in Kinds, NEW m \in Nat, m =< Len(Packet[kind].write), NEW w, NEW v,
           Chain(w, v, kind, m), NEW steps, NEW n, NEW k, NEW up, Aligned(steps, n, kind, m, k, up),
           NEW data \in Seq(Byte), Agrees(data, w[m].bytes),
           NEW r, r[0] = Cursor(data, 0), \A i \in 1 .. n : r[i] = ReadStep(r[i - 1], steps[i])
    PROVE  Outcome(r[n], data, Len(w[m].bytes), w[m].args)
<1>1. /\ Counts(up, kind, m) /\ up[0] = 0 /\ \A i \in 0 .. m : up[i] \in Nat
      /\ n \in Nat /\ n >= 2 /\ k \in [2 .. n -> 0 .. m] /\ k[2] = 0 /\ k[n] = m
  BY DEF Aligned, Counts
<1>2. /\ \A i \in 0 .. m : w[i].bytes \in Seq(Byte) /\ Len(w[i].bytes) \in Nat
      /\ \A i \in 0 .. m : /\ Starts(w[i].bytes, w[m].bytes)
                           /\ Len(w[i].bytes) + up[m] =< Len(w[m].bytes) + up[i]
  BY <1>1, ChainGrows
<1>3. PICK full, size : full = w[m].bytes /\ size = Len(full)
  OBVIOUS
<1>4. Len(data) \in Nat /\ size \in Nat
  BY <1>2, <1>3, LenProperties
<1>5. w[0].bytes = <<Packet[kind].id>> /\ w[0].args = <<>>
  <2>1. PICK a, b : a = <<>> /\ b = <<Packet[kind].id>>
    OBVIOUS
  <2>2. w[0] = [args |-> a, bytes |-> b]
    BY <2>1 DEF Chain
  <2> QED
    BY <2>1, <2>2
<1>6. Len(w[0].bytes) = 1 /\ w[0].bytes[1] = Packet[kind].id
  BY <1>5
<1>7. full[1] = Packet[kind].id /\ 1 =< size /\ 1 + up[m] =< size
  <2>1. 0 \in 0 .. m /\ m \in 0 .. m
    OBVIOUS
  <2>2. 1 + up[m] =< size + 0 /\ Starts(w[0].bytes, full)
    BY <1>1, <1>2, <1>3, <1>6, <2>1
  <2>3. 1 + up[m] =< size /\ 1 =< size
    BY <1>1, <1>4, <2>1, <2>2
  <2>4. full[1] = w[0].bytes[1]
    BY <1>6, <2>2 DEF Starts
  <2> QED
    BY <1>6, <2>3, <2>4
<1> DEFINE Good(i) == Behind(r[i], data, w[k[i]], full)
<1>8. Good(2)
  <2>1. PICK x \in Nat : steps[1] = Need(x) /\ 1 =< x /\ x =< 1 + up[m]
    BY DEF Aligned
  <2>2. steps[2] = Id(Packet[kind].id)
    BY DEF Aligned
  <2>3. r[1] = ReadStep(Cursor(data, 0), Need(x)) /\ r[2] = ReadStep(r[1], Id(Packet[kind].id))
    <3>1. 1 \in 1 .. n /\ 2 \in 1 .. n /\ 1 - 1 = 0 /\ 2 - 1 = 1
      BY <1>1
    <3> QED
      BY <2>1, <2>2, <3>1
  <2>4. /\ Len(data) < x => r[2].status # "ok"
        /\ x =< Len(data) /\ data[1] # Packet[kind].id => r[2].status # "ok"
        /\ x =< Len(data) /\ data[1] = Packet[kind].id => At(r[2], data, 1) /\ r[2].out = <<>>
    BY <2>1, <2>3, IdReads
  <2>5. CASE Len(data) < x
    <3>1. Len(data) < size
      <4>1. up[m] \in Nat
        BY <1>1
      <4> QED
        BY <1>4, <1>7, <2>1, <2>5, <4>1
    <3> QED
      BY <1>3, <2>4, <2>5, <3>1 DEF Behind
  <2>6. CASE ~ (Len(data) < x)
    <3>1. x =< Len(data) /\ 1 =< Len(data) /\ 1 \in 1 .. size
      BY <1>4, <1>7, <2>1, <2>6
    <3>2. data[1] = Packet[kind].id
      BY <1>3, <1>7, <3>1 DEF Agrees
    <3> QED
      BY <1>1, <1>5, <1>6, <2>4, <3>1, <3>2 DEF Behind
  <2> QED
    BY <2>5, <2>6
<1>9. ASSUME NEW i \in 3 .. n, Good(i - 1) PROVE Good(i)
  <2>1. i \in 1 .. n /\ i - 1 \in 2 .. n /\ i \in 2 .. n
    BY <1>1
  <2>2. r[i] = ReadStep(r[i - 1], steps[i]) /\ k[i] \in 0 .. m /\ k[i - 1] \in 0 .. m
    BY <1>1, <2>1
  <2>3. CASE r[i - 1].status # "ok"
    <3>1. Len(data) < Len(full)
      BY <1>9, <2>3 DEF Behind, At
    <3>2. r[i] = r[i - 1]
      BY <2>2, <2>3, Failed
    <3> QED
      BY <2>3, <3>1, <3>2 DEF Behind
  <2>4. CASE r[i - 1].status = "ok"
    <3>1. PICK c, q, prev : c = r[i - 1] /\ q = k[i - 1] /\ prev = w[q]
      OBVIOUS
    <3>2. At(c, data, Len(prev.bytes)) /\ c.out = prev.args /\ Len(prev.bytes) =< Len(data)
      BY <1>9, <2>4, <3>1 DEF Behind
    <3>3. Len(prev.bytes) \in Nat /\ q \in 0 .. m
      BY <1>2, <2>2, <3>1
    <3>4. CASE \E x \in Nat : steps[i] = Need(x) /\ k[i] = k[i - 1] /\ x + up[k[i]] =< up[m]
      <4>1. PICK x \in Nat : steps[i] = Need(x) /\ k[i] = q /\ x + up[q] =< up[m]
        BY <3>1, <3>4
      <4>2. PICK at : at = Len(prev.bytes)
        OBVIOUS
      <4>3. at \in 0 .. Len(data)
        BY <1>4, <3>2, <3>3, <4>2
      <4>4. at + x =< size
        <5>1. at + up[m] =< size + up[q] /\ up[m] \in Nat /\ up[q] \in Nat
          BY <1>1, <1>2, <1>3, <3>1, <3>3, <4>2
        <5> QED
          BY <1>4, <3>3, <4>1, <4>2, <5>1
      <4>5. CASE at + x =< Len(data)
        <5>1. ReadStep(c, Need(x)) = c
          BY <3>2, <4>2, <4>3, <4>5, Field
        <5>2. r[i] = c
          BY <2>2, <3>1, <4>1, <5>1
        <5> QED
          BY <1>9, <3>1, <4>1, <5>2
      <4>6. CASE ~ (at + x =< Len(data))
        <5>1. at + x > Len(data) /\ Len(data) < size
          BY <1>4, <4>3, <4>4, <4>6
        <5>2. ReadStep(c, Need(x)).status = "error"
          BY <3>2, <4>2, <4>3, <5>1, Field
        <5>3. r[i].status # "ok"
          BY <2>2, <3>1, <4>1, <5>2
        <5> QED
          BY <1>3, <5>1, <5>3 DEF Behind
      <4> QED
        BY <4>5, <4>6
    <3>5. CASE k[i] = k[i - 1] + 1 /\ ReadsItem(steps[i], kind, k[i])
      <4>1. PICK j : j = k[i]
        OBVIOUS
      <4>2. j \in 1 .. m /\ j - 1 = q /\ j \in 0 .. m
        BY <2>2, <3>1, <3>3, <3>5, <4>1
      <4>3. /\ At(c, data, Len(w[j - 1].bytes)) /\ c.out = w[j - 1].args
            /\ Len(w[j - 1].bytes) =< Len(data)
        BY <3>1, <3>2, <4>2
      <4>4. Agrees(data, w[j].bytes)
        <5>1. Starts(w[j].bytes, full) /\ Len(w[j].bytes) \in Nat
          BY <1>2, <1>3, <4>2
        <5>2. \A x \in 1 .. Len(w[j].bytes) : x \in 1 .. Len(full)
          BY <1>3, <1>4, <5>1 DEF Starts
        <5> QED
          BY <1>3, <5>1, <5>2 DEF Starts, Agrees
      <4>5. Outcome(ReadStep(c, steps[i]), data, Len(w[j].bytes), w[j].args)
        BY <3>5, <4>1, <4>2, <4>3, <4>4, AlignedStep
      <4>6. Outcome(r[i], data, Len(w[j].bytes), w[j].args)
        BY <2>2, <3>1, <4>5
      <4>7. CASE Len(w[j].bytes) =< Len(data)
        BY <4>1, <4>6, <4>7 DEF Outcome, Behind
      <4>8. CASE ~ (Len(w[j].bytes) =< Len(data))
        <5>1. Len(w[j].bytes) > Len(data) /\ Len(data) < size
          <6>1. Len(w[j].bytes) \in Nat /\ Len(w[j].bytes) =< size
            BY <1>2, <1>3, <4>2 DEF Starts
          <6> QED
            BY <1>4, <4>8, <6>1
        <5> QED
          BY <1>3, <4>6, <5>1 DEF Outcome, Behind
      <4> QED
        BY <4>7, <4>8
    <3> QED
      BY <3>4, <3>5 DEF Aligned
  <2> QED
    BY <2>3, <2>4
<1> HIDE DEF Good
<1> DEFINE E == {i \in 0 .. n - 2 : Good(i + 2)}
<1>10. n - 2 \in Nat
  BY <1>1
<1>11. 0 \in E
  <2>1. 0 + 2 = 2 /\ 0 \in 0 .. n - 2
    BY <1>10
  <2> QED
    BY <1>8, <2>1
<1>12. ASSUME NEW i \in 0 .. (n - 2) - 1, i \in E PROVE i + 1 \in E
  <2>1. i + 1 \in 0 .. n - 2 /\ (i + 1) + 2 \in 3 .. n /\ ((i + 1) + 2) - 1 = i + 2
    BY <1>1
  <2>2. Good((i + 1) + 2)
    BY <1>9, <1>12, <2>1
  <2> QED
    BY <2>1, <2>2
<1> HIDE DEF E
<1>13. \A i \in 0 .. n - 2 : i \in E
  BY <1>10, <1>11, <1>12, UpTo
<1>14. Good(n)
  <2>1. n - 2 \in 0 .. n - 2 /\ (n - 2) + 2 = n
    BY <1>1
  <2> QED
    BY <1>13, <2>1 DEF E
<1>15. Behind(r[n], data, w[m], full)
  BY <1>1, <1>14 DEF Good
<1> QED
  BY <1>3, <1>4, <1>15 DEF Behind, Outcome

\* The least size of every item there is.
LEMMA LeastValues ==
    /\ Least(I64) = 8 /\ Least(U16) = 2 /\ Least(U8) = 1 /\ Least(Addr) = 7 /\ Least(Data) = 2
    /\ Least(Magic) = 16 /\ Least(NoEncryption) = 1 /\ Least(Const(Zeros(2))) = 2
    /\ Least(Const(write_address(NoAddress))) = 7
<1>1. /\ Least(I64) = 8 /\ Least(U16) = 2 /\ Least(U8) = 1 /\ Least(Addr) = 7 /\ Least(Data) = 2
  BY DEF Least, I64, U16, U8, Bytes, Addr, Data
<1>2. ASSUME NEW b PROVE Least(Const(b)) = Len(b)
  BY DEF Least, Const
<1>3. Len(MAGIC) = 16 /\ Len(<<0>>) = 1 /\ Len(Zeros(2)) = 2
  BY DEF MAGIC, Zeros
<1>4. Len(write_address(NoAddress)) = 7
  BY DEF write_address, NoAddress, Zeros, Inverted
<1> QED
  BY <1>1, <1>2, <1>3, <1>4 DEF Magic, NoEncryption

\* Which step reads which item.
LEMMA ReadsItems ==
    ASSUME NEW kind, NEW k
    PROVE  /\ Packet[kind].write[k] = I64 => ReadsItem(I64, kind, k)
           /\ Packet[kind].write[k] = U16 => ReadsItem(U16, kind, k)
           /\ Packet[kind].write[k] = U8 => ReadsItem(U8, kind, k)
           /\ Packet[kind].write[k] = Addr => ReadsItem(Addr, kind, k)
           /\ Packet[kind].write[k] = Data => ReadsItem(Data, kind, k)
           /\ Packet[kind].write[k] = NoEncryption => ReadsItem(Unused(1), kind, k)
           /\ Packet[kind].write[k] = Const(Zeros(2)) => ReadsItem(Unused(2), kind, k)
           /\ Packet[kind].write[k] = Const(write_address(NoAddress)) => ReadsItem(UnusedAddr, kind, k)
           /\ \A p : Packet[kind].write[k] = Magic /\ Place(kind, k, p) => ReadsItem(MagicAt(p), kind, k)
<1>1. \A p : /\ I64 # MagicAt(p) /\ U16 # MagicAt(p) /\ U8 # MagicAt(p) /\ Addr # MagicAt(p)
             /\ Data # MagicAt(p) /\ Unused(1) # MagicAt(p) /\ Unused(2) # MagicAt(p)
             /\ UnusedAddr # MagicAt(p)
  BY DEF MagicAt, I64, U16, U8, Bytes, Addr, Data, Unused, UnusedAddr
<1>2. \A p : /\ Pairs(I64, I64, p) /\ Pairs(U16, U16, p) /\ Pairs(U8, U8, p) /\ Pairs(Addr, Addr, p)
             /\ Pairs(Data, Data, p) /\ Pairs(UnusedAddr, Const(write_address(NoAddress)), p)
             /\ Pairs(MagicAt(p), Magic, p)
  BY DEF Pairs, I64, U16, U8
<1>3. \A p : Pairs(Unused(1), NoEncryption, p) /\ Pairs(Unused(2), Const(Zeros(2)), p)
  <2>1. <<0>> \in Seq(Byte) /\ Len(<<0>>) = 1 /\ Zeros(2) \in Seq(Byte) /\ Len(Zeros(2)) = 2
    BY DEF Byte, Zeros
  <2>2. ASSUME NEW b \in Seq(Byte), NEW p PROVE Pairs(Unused(Len(b)), Const(b), p)
    BY DEF Pairs
  <2>3. ASSUME NEW p PROVE Pairs(Unused(1), NoEncryption, p) /\ Pairs(Unused(2), Const(Zeros(2)), p)
    <3>1. PICK a, b : a = <<0>> /\ b = Zeros(2)
      OBVIOUS
    <3>2. a \in Seq(Byte) /\ Len(a) = 1 /\ b \in Seq(Byte) /\ Len(b) = 2
      BY <2>1, <3>1
    <3>3. Pairs(Unused(1), Const(a), p) /\ Pairs(Unused(2), Const(b), p)
      BY <2>2, <3>2
    <3> QED
      BY <3>1, <3>3 DEF NoEncryption
  <2> QED
    BY <2>3
<1>4. ASSUME NEW s, \A p : s # MagicAt(p) /\ Pairs(s, Packet[kind].write[k], p)
      PROVE  ReadsItem(s, kind, k)
  BY <1>4 DEF ReadsItem
<1>5. ASSUME NEW p, Packet[kind].write[k] = Magic, Place(kind, k, p) PROVE ReadsItem(MagicAt(p), kind, k)
  BY <1>2, <1>5 DEF ReadsItem
<1> QED
  BY <1>1, <1>2, <1>3, <1>4, <1>5

\* UnconnectedPing: the steps of the decoder against the items of the encoder.
LEMMA UnconnectedPingAligned ==
    \E k, up : Aligned(UnconnectedPing.read, 5, "unconnected_ping", 3, k, up)
<1> DEFINE k == [i \in 2 .. 5 |-> IF i = 2 THEN 0 ELSE IF i = 3 THEN 1 ELSE IF i = 4 THEN 2 ELSE 3]
           up == [i \in 0 .. 3 |-> IF i = 0 THEN 0 ELSE IF i = 1 THEN 8 ELSE IF i = 2 THEN 24 ELSE 32]
           kind == "unconnected_ping"
<1>1. Packet[kind] = UnconnectedPing
  BY DEF Packet
<1>2. /\ Packet[kind].id = 1
      /\ Packet[kind].write[1] = I64
      /\ Packet[kind].write[2] = Magic
      /\ Packet[kind].write[3] = I64
  BY <1>1 DEF UnconnectedPing
<1>3. /\ UnconnectedPing.read[1] = Need(33)
      /\ UnconnectedPing.read[2] = Id(1)
      /\ UnconnectedPing.read[3] = I64
      /\ UnconnectedPing.read[4] = MagicAt(9)
      /\ UnconnectedPing.read[5] = I64
  BY DEF UnconnectedPing
<1>4. Counts(up, kind, 3) /\ up[0] = 0 /\ up[3] = 32
  <2>1. up \in [0 .. 3 -> Nat]
    OBVIOUS
  <2>2. \A i \in 1 .. 3 : up[i] =< up[i - 1] + Least(Packet[kind].write[i])
    <3>1. up[0] = 0 /\ up[1] = 8 /\ Least(Packet[kind].write[1]) = 8
      BY <1>2, LeastValues
    <3>2. up[1] = 8 /\ up[2] = 24 /\ Least(Packet[kind].write[2]) = 16
      BY <1>2, LeastValues
    <3>3. up[2] = 24 /\ up[3] = 32 /\ Least(Packet[kind].write[3]) = 8
      BY <1>2, LeastValues
    <3> HIDE DEF up, kind
    <3> QED
      BY <3>1, <3>2, <3>3
  <2> QED
    BY <2>1, <2>2 DEF Counts
<1>5. k \in [2 .. 5 -> 0 .. 3] /\ k[2] = 0 /\ k[3] = 1 /\ k[4] = 2 /\ k[5] = 3
  OBVIOUS
<1>6. /\ ReadsItem(I64, kind, 1)
      /\ ReadsItem(MagicAt(9), kind, 2)
      /\ ReadsItem(I64, kind, 3)
  <2>1. Place(kind, 2, 9)
    BY <1>2 DEF Place
  <2> HIDE DEF kind
  <2> QED
    BY <1>2, <2>1, ReadsItems
<1> HIDE DEF k, up, kind
<1>7. \A i \in 3 .. 5 :
         \/ \E x \in Nat : UnconnectedPing.read[i] = Need(x) /\ k[i] = k[i - 1] /\ x + up[k[i]] =< up[3]
         \/ k[i] = k[i - 1] + 1 /\ ReadsItem(UnconnectedPing.read[i], kind, k[i])
  <2>3. k[3] = k[2] + 1 /\ ReadsItem(UnconnectedPing.read[3], kind, k[3])
    BY <1>3, <1>5, <1>6
  <2>4. k[4] = k[3] + 1 /\ ReadsItem(UnconnectedPing.read[4], kind, k[4])
    BY <1>3, <1>5, <1>6
  <2>5. k[5] = k[4] + 1 /\ ReadsItem(UnconnectedPing.read[5], kind, k[5])
    BY <1>3, <1>5, <1>6
  <2> QED
    BY <2>3, <2>4, <2>5
<1>8. \E x \in Nat : UnconnectedPing.read[1] = Need(x) /\ 1 =< x /\ x =< 1 + up[3]
  BY <1>3, <1>4
<1>9. UnconnectedPing.read[2] = Id(Packet[kind].id)
  BY <1>2, <1>3
<1>10. Aligned(UnconnectedPing.read, 5, kind, 3, k, up)
  BY <1>4, <1>5, <1>7, <1>8, <1>9 DEF Aligned
<1> QED
  BY <1>10 DEF kind

\* UnconnectedPong: the steps of the decoder against the items of the encoder.
LEMMA UnconnectedPongAligned ==
    \E k, up : Aligned(UnconnectedPong.read, 6, "unconnected_pong", 4, k, up)
<1> DEFINE k == [i \in 2 .. 6 |-> IF i = 2 THEN 0 ELSE IF i = 3 THEN 1 ELSE IF i = 4 THEN 2 ELSE IF i = 5 THEN 3 ELSE 4]
           up == [i \in 0 .. 4 |-> IF i = 0 THEN 0 ELSE IF i = 1 THEN 8 ELSE IF i = 2 THEN 16 ELSE IF i = 3 THEN 32 ELSE 34]
           kind == "unconnected_pong"
<1>1. Packet[kind] = UnconnectedPong
  BY DEF Packet
<1>2. /\ Packet[kind].id = 28
      /\ Packet[kind].write[1] = I64
      /\ Packet[kind].write[2] = I64
      /\ Packet[kind].write[3] = Magic
      /\ Packet[kind].write[4] = Data
  BY <1>1 DEF UnconnectedPong
<1>3. /\ UnconnectedPong.read[1] = Need(35)
      /\ UnconnectedPong.read[2] = Id(28)
      /\ UnconnectedPong.read[3] = I64
      /\ UnconnectedPong.read[4] = I64
      /\ UnconnectedPong.read[5] = MagicAt(17)
      /\ UnconnectedPong.read[6] = Data
  BY DEF UnconnectedPong
<1>4. Counts(up, kind, 4) /\ up[0] = 0 /\ up[4] = 34
  <2>1. up \in [0 .. 4 -> Nat]
    OBVIOUS
  <2>2. \A i \in 1 .. 4 : up[i] =< up[i - 1] + Least(Packet[kind].write[i])
    <3>1. up[0] = 0 /\ up[1] = 8 /\ Least(Packet[kind].write[1]) = 8
      BY <1>2, LeastValues
    <3>2. up[1] = 8 /\ up[2] = 16 /\ Least(Packet[kind].write[2]) = 8
      BY <1>2, LeastValues
    <3>3. up[2] = 16 /\ up[3] = 32 /\ Least(Packet[kind].write[3]) = 16
      BY <1>2, LeastValues
    <3>4. up[3] = 32 /\ up[4] = 34 /\ Least(Packet[kind].write[4]) = 2
      BY <1>2, LeastValues
    <3> HIDE DEF up, kind
    <3> QED
      BY <3>1, <3>2, <3>3, <3>4
  <2> QED
    BY <2>1, <2>2 DEF Counts
<1>5. k \in [2 .. 6 -> 0 .. 4] /\ k[2] = 0 /\ k[3] = 1 /\ k[4] = 2 /\ k[5] = 3 /\ k[6] = 4
  OBVIOUS
<1>6. /\ ReadsItem(I64, kind, 1)
      /\ ReadsItem(I64, kind, 2)
      /\ ReadsItem(MagicAt(17), kind, 3)
      /\ ReadsItem(Data, kind, 4)
  <2>1. Place(kind, 3, 17)
    BY <1>2 DEF Place
  <2> HIDE DEF kind
  <2> QED
    BY <1>2, <2>1, ReadsItems
<1> HIDE DEF k, up, kind
<1>7. \A i \in 3 .. 6 :
         \/ \E x \in Nat : UnconnectedPong.read[i] = Need(x) /\ k[i] = k[i - 1] /\ x + up[k[i]] =< up[4]
         \/ k[i] = k[i - 1] + 1 /\ ReadsItem(UnconnectedPong.read[i], kind, k[i])
  <2>3. k[3] = k[2] + 1 /\ ReadsItem(UnconnectedPong.read[3], kind, k[3])
    BY <1>3, <1>5, <1>6
  <2>4. k[4] = k[3] + 1 /\ ReadsItem(UnconnectedPong.read[4], kind, k[4])
    BY <1>3, <1>5, <1>6
  <2>5. k[5] = k[4] + 1 /\ ReadsItem(UnconnectedPong.read[5], kind, k[5])
    BY <1>3, <1>5, <1>6
  <2>6. k[6] = k[5] + 1 /\ ReadsItem(UnconnectedPong.read[6], kind, k[6])
    BY <1>3, <1>5, <1>6
  <2> QED
    BY <2>3, <2>4, <2>5, <2>6
<1>8. \E x \in Nat : UnconnectedPong.read[1] = Need(x) /\ 1 =< x /\ x =< 1 + up[4]
  BY <1>3, <1>4
<1>9. UnconnectedPong.read[2] = Id(Packet[kind].id)
  BY <1>2, <1>3
<1>10. Aligned(UnconnectedPong.read, 6, kind, 4, k, up)
  BY <1>4, <1>5, <1>7, <1>8, <1>9 DEF Aligned
<1> QED
  BY <1>10 DEF kind

\* OpenConnectionRequest1: the steps of the decoder against the items of the encoder.
LEMMA OpenConnectionRequest1Aligned ==
    \E k, up : Aligned(OpenConnectionRequest1.read, 4, "open_connection_request_1", 2, k, up)
<1> DEFINE k == [i \in 2 .. 4 |-> IF i = 2 THEN 0 ELSE IF i = 3 THEN 1 ELSE 2]
           up == [i \in 0 .. 2 |-> IF i = 0 THEN 0 ELSE IF i = 1 THEN 16 ELSE 17]
           kind == "open_connection_request_1"
<1>1. Packet[kind] = OpenConnectionRequest1
  BY DEF Packet
<1>2. /\ Packet[kind].id = 5
      /\ Packet[kind].write[1] = Magic
      /\ Packet[kind].write[2] = U8
  BY <1>1 DEF OpenConnectionRequest1
<1>3. /\ OpenConnectionRequest1.read[1] = Need(18)
      /\ OpenConnectionRequest1.read[2] = Id(5)
      /\ OpenConnectionRequest1.read[3] = MagicAt(1)
      /\ OpenConnectionRequest1.read[4] = U8
  BY DEF OpenConnectionRequest1
<1>4. Counts(up, kind, 2) /\ up[0] = 0 /\ up[2] = 17
  <2>1. up \in [0 .. 2 -> Nat]
    OBVIOUS
  <2>2. \A i \in 1 .. 2 : up[i] =< up[i - 1] + Least(Packet[kind].write[i])
    <3>1. up[0] = 0 /\ up[1] = 16 /\ Least(Packet[kind].write[1]) = 16
      BY <1>2, LeastValues
    <3>2. up[1] = 16 /\ up[2] = 17 /\ Least(Packet[kind].write[2]) = 1
      BY <1>2, LeastValues
    <3> HIDE DEF up, kind
    <3> QED
      BY <3>1, <3>2
  <2> QED
    BY <2>1, <2>2 DEF Counts
<1>5. k \in [2 .. 4 -> 0 .. 2] /\ k[2] = 0 /\ k[3] = 1 /\ k[4] = 2
  OBVIOUS
<1>6. /\ ReadsItem(MagicAt(1), kind, 1)
      /\ ReadsItem(U8, kind, 2)
  <2>1. Place(kind, 1, 1)
    BY <1>2 DEF Place
  <2> HIDE DEF kind
  <2> QED
    BY <1>2, <2>1, ReadsItems
<1> HIDE DEF k, up, kind
<1>7. \A i \in 3 .. 4 :
         \/ \E x \in Nat : OpenConnectionRequest1.read[i] = Need(x) /\ k[i] = k[i - 1] /\ x + up[k[i]] =< up[2]
         \/ k[i] = k[i - 1] + 1 /\ ReadsItem(OpenConnectionRequest1.read[i], kind, k[i])
  <2>3. k[3] = k[2] + 1 /\ ReadsItem(OpenConnectionRequest1.read[3], kind, k[3])
    BY <1>3, <1>5, <1>6
  <2>4. k[4] = k[3] + 1 /\ ReadsItem(OpenConnectionRequest1.read[4], kind, k[4])
    BY <1>3, <1>5, <1>6
  <2> QED
    BY <2>3, <2>4
<1>8. \E x \in Nat : OpenConnectionRequest1.read[1] = Need(x) /\ 1 =< x /\ x =< 1 + up[2]
  BY <1>3, <1>4
<1>9. OpenConnectionRequest1.read[2] = Id(Packet[kind].id)
  BY <1>2, <1>3
<1>10. Aligned(OpenConnectionRequest1.read, 4, kind, 2, k, up)
  BY <1>4, <1>5, <1>7, <1>8, <1>9 DEF Aligned
<1> QED
  BY <1>10 DEF kind

\* OpenConnectionReply1: the steps of the decoder against the items of the encoder.
LEMMA OpenConnectionReply1Aligned ==
    \E k, up : Aligned(OpenConnectionReply1.read, 6, "open_connection_reply_1", 4, k, up)
<1> DEFINE k == [i \in 2 .. 6 |-> IF i = 2 THEN 0 ELSE IF i = 3 THEN 1 ELSE IF i = 4 THEN 2 ELSE IF i = 5 THEN 3 ELSE 4]
           up == [i \in 0 .. 4 |-> IF i = 0 THEN 0 ELSE IF i = 1 THEN 16 ELSE IF i = 2 THEN 24 ELSE IF i = 3 THEN 25 ELSE 27]
           kind == "open_connection_reply_1"
<1>1. Packet[kind] = OpenConnectionReply1
  BY DEF Packet
<1>2. /\ Packet[kind].id = 6
      /\ Packet[kind].write[1] = Magic
      /\ Packet[kind].write[2] = I64
      /\ Packet[kind].write[3] = NoEncryption
      /\ Packet[kind].write[4] = U16
  BY <1>1 DEF OpenConnectionReply1
<1>3. /\ OpenConnectionReply1.read[1] = Need(28)
      /\ OpenConnectionReply1.read[2] = Id(6)
      /\ OpenConnectionReply1.read[3] = MagicAt(1)
      /\ OpenConnectionReply1.read[4] = I64
      /\ OpenConnectionReply1.read[5] = Unused(1)
      /\ OpenConnectionReply1.read[6] = U16
  BY DEF OpenConnectionReply1
<1>4. Counts(up, kind, 4) /\ up[0] = 0 /\ up[4] = 27
  <2>1. up \in [0 .. 4 -> Nat]
    OBVIOUS
  <2>2. \A i \in 1 .. 4 : up[i] =< up[i - 1] + Least(Packet[kind].write[i])
    <3>1. up[0] = 0 /\ up[1] = 16 /\ Least(Packet[kind].write[1]) = 16
      BY <1>2, LeastValues
    <3>2. up[1] = 16 /\ up[2] = 24 /\ Least(Packet[kind].write[2]) = 8
      BY <1>2, LeastValues
    <3>3. up[2] = 24 /\ up[3] = 25 /\ Least(Packet[kind].write[3]) = 1
      BY <1>2, LeastValues
    <3>4. up[3] = 25 /\ up[4] = 27 /\ Least(Packet[kind].write[4]) = 2
      BY <1>2, LeastValues
    <3> HIDE DEF up, kind
    <3> QED
      BY <3>1, <3>2, <3>3, <3>4
  <2> QED
    BY <2>1, <2>2 DEF Counts
<1>5. k \in [2 .. 6 -> 0 .. 4] /\ k[2] = 0 /\ k[3] = 1 /\ k[4] = 2 /\ k[5] = 3 /\ k[6] = 4
  OBVIOUS
<1>6. /\ ReadsItem(MagicAt(1), kind, 1)
      /\ ReadsItem(I64, kind, 2)
      /\ ReadsItem(Unused(1), kind, 3)
      /\ ReadsItem(U16, kind, 4)
  <2>1. Place(kind, 1, 1)
    BY <1>2 DEF Place
  <2> HIDE DEF kind
  <2> QED
    BY <1>2, <2>1, ReadsItems
<1> HIDE DEF k, up, kind
<1>7. \A i \in 3 .. 6 :
         \/ \E x \in Nat : OpenConnectionReply1.read[i] = Need(x) /\ k[i] = k[i - 1] /\ x + up[k[i]] =< up[4]
         \/ k[i] = k[i - 1] + 1 /\ ReadsItem(OpenConnectionReply1.read[i], kind, k[i])
  <2>3. k[3] = k[2] + 1 /\ ReadsItem(OpenConnectionReply1.read[3], kind, k[3])
    BY <1>3, <1>5, <1>6
  <2>4. k[4] = k[3] + 1 /\ ReadsItem(OpenConnectionReply1.read[4], kind, k[4])
    BY <1>3, <1>5, <1>6
  <2>5. k[5] = k[4] + 1 /\ ReadsItem(OpenConnectionReply1.read[5], kind, k[5])
    BY <1>3, <1>5, <1>6
  <2>6. k[6] = k[5] + 1 /\ ReadsItem(OpenConnectionReply1.read[6], kind, k[6])
    BY <1>3, <1>5, <1>6
  <2> QED
    BY <2>3, <2>4, <2>5, <2>6
<1>8. \E x \in Nat : OpenConnectionReply1.read[1] = Need(x) /\ 1 =< x /\ x =< 1 + up[4]
  BY <1>3, <1>4
<1>9. OpenConnectionReply1.read[2] = Id(Packet[kind].id)
  BY <1>2, <1>3
<1>10. Aligned(OpenConnectionReply1.read, 6, kind, 4, k, up)
  BY <1>4, <1>5, <1>7, <1>8, <1>9 DEF Aligned
<1> QED
  BY <1>10 DEF kind

\* OpenConnectionRequest2: the steps of the decoder against the items of the encoder.
LEMMA OpenConnectionRequest2Aligned ==
    \E k, up : Aligned(OpenConnectionRequest2.read, 7, "open_connection_request_2", 4, k, up)
<1> DEFINE k == [i \in 2 .. 7 |-> IF i = 2 THEN 0 ELSE IF i = 3 THEN 1 ELSE IF i = 4 THEN 2 ELSE IF i = 5 THEN 2 ELSE IF i = 6 THEN 3 ELSE 4]
           up == [i \in 0 .. 4 |-> IF i = 0 THEN 0 ELSE IF i = 1 THEN 16 ELSE IF i = 2 THEN 23 ELSE IF i = 3 THEN 25 ELSE 33]
           kind == "open_connection_request_2"
<1>1. Packet[kind] = OpenConnectionRequest2
  BY DEF Packet
<1>2. /\ Packet[kind].id = 7
      /\ Packet[kind].write[1] = Magic
      /\ Packet[kind].write[2] = Addr
      /\ Packet[kind].write[3] = U16
      /\ Packet[kind].write[4] = I64
  BY <1>1 DEF OpenConnectionRequest2
<1>3. /\ OpenConnectionRequest2.read[1] = Need(17)
      /\ OpenConnectionRequest2.read[2] = Id(7)
      /\ OpenConnectionRequest2.read[3] = MagicAt(1)
      /\ OpenConnectionRequest2.read[4] = Addr
      /\ OpenConnectionRequest2.read[5] = Need(10)
      /\ OpenConnectionRequest2.read[6] = U16
      /\ OpenConnectionRequest2.read[7] = I64
  BY DEF OpenConnectionRequest2
<1>4. Counts(up, kind, 4) /\ up[0] = 0 /\ up[4] = 33
  <2>1. up \in [0 .. 4 -> Nat]
    OBVIOUS
  <2>2. \A i \in 1 .. 4 : up[i] =< up[i - 1] + Least(Packet[kind].write[i])
    <3>1. up[0] = 0 /\ up[1] = 16 /\ Least(Packet[kind].write[1]) = 16
      BY <1>2, LeastValues
    <3>2. up[1] = 16 /\ up[2] = 23 /\ Least(Packet[kind].write[2]) = 7
      BY <1>2, LeastValues
    <3>3. up[2] = 23 /\ up[3] = 25 /\ Least(Packet[kind].write[3]) = 2
      BY <1>2, LeastValues
    <3>4. up[3] = 25 /\ up[4] = 33 /\ Least(Packet[kind].write[4]) = 8
      BY <1>2, LeastValues
    <3> HIDE DEF up, kind
    <3> QED
      BY <3>1, <3>2, <3>3, <3>4
  <2> QED
    BY <2>1, <2>2 DEF Counts
<1>5. k \in [2 .. 7 -> 0 .. 4] /\ k[2] = 0 /\ k[3] = 1 /\ k[4] = 2 /\ k[5] = 2 /\ k[6] = 3 /\ k[7] = 4
  OBVIOUS
<1>6. /\ ReadsItem(MagicAt(1), kind, 1)
      /\ ReadsItem(Addr, kind, 2)
      /\ ReadsItem(U16, kind, 3)
      /\ ReadsItem(I64, kind, 4)
  <2>1. Place(kind, 1, 1)
    BY <1>2 DEF Place
  <2> HIDE DEF kind
  <2> QED
    BY <1>2, <2>1, ReadsItems
<1> HIDE DEF k, up, kind
<1>7. \A i \in 3 .. 7 :
         \/ \E x \in Nat : OpenConnectionRequest2.read[i] = Need(x) /\ k[i] = k[i - 1] /\ x + up[k[i]] =< up[4]
         \/ k[i] = k[i - 1] + 1 /\ ReadsItem(OpenConnectionRequest2.read[i], kind, k[i])
  <2>3. k[3] = k[2] + 1 /\ ReadsItem(OpenConnectionRequest2.read[3], kind, k[3])
    BY <1>3, <1>5, <1>6
  <2>4. k[4] = k[3] + 1 /\ ReadsItem(OpenConnectionRequest2.read[4], kind, k[4])
    BY <1>3, <1>5, <1>6
  <2>5. \E x \in Nat : OpenConnectionRequest2.read[5] = Need(x) /\ k[5] = k[4] /\ x + up[k[5]] =< up[4]
    <3>1. up[2] = 23
      BY DEF up
    <3> QED
      BY <1>3, <1>4, <1>5, <3>1
  <2>6. k[6] = k[5] + 1 /\ ReadsItem(OpenConnectionRequest2.read[6], kind, k[6])
    BY <1>3, <1>5, <1>6
  <2>7. k[7] = k[6] + 1 /\ ReadsItem(OpenConnectionRequest2.read[7], kind, k[7])
    BY <1>3, <1>5, <1>6
  <2> QED
    BY <2>3, <2>4, <2>5, <2>6, <2>7
<1>8. \E x \in Nat : OpenConnectionRequest2.read[1] = Need(x) /\ 1 =< x /\ x =< 1 + up[4]
  BY <1>3, <1>4
<1>9. OpenConnectionRequest2.read[2] = Id(Packet[kind].id)
  BY <1>2, <1>3
<1>10. Aligned(OpenConnectionRequest2.read, 7, kind, 4, k, up)
  BY <1>4, <1>5, <1>7, <1>8, <1>9 DEF Aligned
<1> QED
  BY <1>10 DEF kind

\* OpenConnectionReply2: the steps of the decoder against the items of the encoder.
LEMMA OpenConnectionReply2Aligned ==
    \E k, up : Aligned(OpenConnectionReply2.read, 8, "open_connection_reply_2", 5, k, up)
<1> DEFINE k == [i \in 2 .. 8 |-> IF i = 2 THEN 0 ELSE IF i = 3 THEN 1 ELSE IF i = 4 THEN 2 ELSE IF i = 5 THEN 3 ELSE IF i = 6 THEN 3 ELSE IF i = 7 THEN 4 ELSE 5]
           up == [i \in 0 .. 5 |-> IF i = 0 THEN 0 ELSE IF i = 1 THEN 16 ELSE IF i = 2 THEN 24 ELSE IF i = 3 THEN 31 ELSE IF i = 4 THEN 33 ELSE 34]
           kind == "open_connection_reply_2"
<1>1. Packet[kind] = OpenConnectionReply2
  BY DEF Packet
<1>2. /\ Packet[kind].id = 8
      /\ Packet[kind].write[1] = Magic
      /\ Packet[kind].write[2] = I64
      /\ Packet[kind].write[3] = Addr
      /\ Packet[kind].write[4] = U16
      /\ Packet[kind].write[5] = NoEncryption
  BY <1>1 DEF OpenConnectionReply2
<1>3. /\ OpenConnectionReply2.read[1] = Need(25)
      /\ OpenConnectionReply2.read[2] = Id(8)
      /\ OpenConnectionReply2.read[3] = MagicAt(1)
      /\ OpenConnectionReply2.read[4] = I64
      /\ OpenConnectionReply2.read[5] = Addr
      /\ OpenConnectionReply2.read[6] = Need(3)
      /\ OpenConnectionReply2.read[7] = U16
      /\ OpenConnectionReply2.read[8] = Unused(1)
  BY DEF OpenConnectionReply2
<1>4. Counts(up, kind, 5) /\ up[0] = 0 /\ up[5] = 34
  <2>1. up \in [0 .. 5 -> Nat]
    OBVIOUS
  <2>2. \A i \in 1 .. 5 : up[i] =< up[i - 1] + Least(Packet[kind].write[i])
    <3>1. up[0] = 0 /\ up[1] = 16 /\ Least(Packet[kind].write[1]) = 16
      BY <1>2, LeastValues
    <3>2. up[1] = 16 /\ up[2] = 24 /\ Least(Packet[kind].write[2]) = 8
      BY <1>2, LeastValues
    <3>3. up[2] = 24 /\ up[3] = 31 /\ Least(Packet[kind].write[3]) = 7
      BY <1>2, LeastValues
    <3>4. up[3] = 31 /\ up[4] = 33 /\ Least(Packet[kind].write[4]) = 2
      BY <1>2, LeastValues
    <3>5. up[4] = 33 /\ up[5] = 34 /\ Least(Packet[kind].write[5]) = 1
      BY <1>2, LeastValues
    <3> HIDE DEF up, kind
    <3> QED
      BY <3>1, <3>2, <3>3, <3>4, <3>5
  <2> QED
    BY <2>1, <2>2 DEF Counts
<1>5. k \in [2 .. 8 -> 0 .. 5] /\ k[2] = 0 /\ k[3] = 1 /\ k[4] = 2 /\ k[5] = 3 /\ k[6] = 3 /\ k[7] = 4 /\ k[8] = 5
  OBVIOUS
<1>6. /\ ReadsItem(MagicAt(1), kind, 1)
      /\ ReadsItem(I64, kind, 2)
      /\ ReadsItem(Addr, kind, 3)
      /\ ReadsItem(U16, kind, 4)
      /\ ReadsItem(Unused(1), kind, 5)
  <2>1. Place(kind, 1, 1)
    BY <1>2 DEF Place
  <2> HIDE DEF kind
  <2> QED
    BY <1>2, <2>1, ReadsItems
<1> HIDE DEF k, up, kind
<1>7. \A i \in 3 .. 8 :
         \/ \E x \in Nat : OpenConnectionReply2.read[i] = Need(x) /\ k[i] = k[i - 1] /\ x + up[k[i]] =< up[5]
         \/ k[i] = k[i - 1] + 1 /\ ReadsItem(OpenConnectionReply2.read[i], kind, k[i])
  <2>3. k[3] = k[2] + 1 /\ ReadsItem(OpenConnectionReply2.read[3], kind, k[3])
    BY <1>3, <1>5, <1>6
  <2>4. k[4] = k[3] + 1 /\ ReadsItem(OpenConnectionReply2.read[4], kind, k[4])
    BY <1>3, <1>5, <1>6
  <2>5. k[5] = k[4] + 1 /\ ReadsItem(OpenConnectionReply2.read[5], kind, k[5])
    BY <1>3, <1>5, <1>6
  <2>6. \E x \in Nat : OpenConnectionReply2.read[6] = Need(x) /\ k[6] = k[5] /\ x + up[k[6]] =< up[5]
    <3>1. up[3] = 31
      BY DEF up
    <3> QED
      BY <1>3, <1>4, <1>5, <3>1
  <2>7. k[7] = k[6] + 1 /\ ReadsItem(OpenConnectionReply2.read[7], kind, k[7])
    BY <1>3, <1>5, <1>6
  <2>8. k[8] = k[7] + 1 /\ ReadsItem(OpenConnectionReply2.read[8], kind, k[8])
    BY <1>3, <1>5, <1>6
  <2> QED
    BY <2>3, <2>4, <2>5, <2>6, <2>7, <2>8
<1>8. \E x \in Nat : OpenConnectionReply2.read[1] = Need(x) /\ 1 =< x /\ x =< 1 + up[5]
  BY <1>3, <1>4
<1>9. OpenConnectionReply2.read[2] = Id(Packet[kind].id)
  BY <1>2, <1>3
<1>10. Aligned(OpenConnectionReply2.read, 8, kind, 5, k, up)
  BY <1>4, <1>5, <1>7, <1>8, <1>9 DEF Aligned
<1> QED
  BY <1>10 DEF kind

\* ConnectionRequest: the steps of the decoder against the items of the encoder.
LEMMA ConnectionRequestAligned ==
    \E k, up : Aligned(ConnectionRequest.read, 5, "connection_request", 3, k, up)
<1> DEFINE k == [i \in 2 .. 5 |-> IF i = 2 THEN 0 ELSE IF i = 3 THEN 1 ELSE IF i = 4 THEN 2 ELSE 3]
           up == [i \in 0 .. 3 |-> IF i = 0 THEN 0 ELSE IF i = 1 THEN 8 ELSE IF i = 2 THEN 16 ELSE 17]
           kind == "connection_request"
<1>1. Packet[kind] = ConnectionRequest
  BY DEF Packet
<1>2. /\ Packet[kind].id = 9
      /\ Packet[kind].write[1] = I64
      /\ Packet[kind].write[2] = I64
      /\ Packet[kind].write[3] = NoEncryption
  BY <1>1 DEF ConnectionRequest
<1>3. /\ ConnectionRequest.read[1] = Need(18)
      /\ ConnectionRequest.read[2] = Id(9)
      /\ ConnectionRequest.read[3] = I64
      /\ ConnectionRequest.read[4] = I64
      /\ ConnectionRequest.read[5] = Unused(1)
  BY DEF ConnectionRequest
<1>4. Counts(up, kind, 3) /\ up[0] = 0 /\ up[3] = 17
  <2>1. up \in [0 .. 3 -> Nat]
    OBVIOUS
  <2>2. \A i \in 1 .. 3 : up[i] =< up[i - 1] + Least(Packet[kind].write[i])
    <3>1. up[0] = 0 /\ up[1] = 8 /\ Least(Packet[kind].write[1]) = 8
      BY <1>2, LeastValues
    <3>2. up[1] = 8 /\ up[2] = 16 /\ Least(Packet[kind].write[2]) = 8
      BY <1>2, LeastValues
    <3>3. up[2] = 16 /\ up[3] = 17 /\ Least(Packet[kind].write[3]) = 1
      BY <1>2, LeastValues
    <3> HIDE DEF up, kind
    <3> QED
      BY <3>1, <3>2, <3>3
  <2> QED
    BY <2>1, <2>2 DEF Counts
<1>5. k \in [2 .. 5 -> 0 .. 3] /\ k[2] = 0 /\ k[3] = 1 /\ k[4] = 2 /\ k[5] = 3
  OBVIOUS
<1>6. /\ ReadsItem(I64, kind, 1)
      /\ ReadsItem(I64, kind, 2)
      /\ ReadsItem(Unused(1), kind, 3)
  <2> HIDE DEF kind
  <2> QED
    BY <1>2, ReadsItems
<1> HIDE DEF k, up, kind
<1>7. \A i \in 3 .. 5 :
         \/ \E x \in Nat : ConnectionRequest.read[i] = Need(x) /\ k[i] = k[i - 1] /\ x + up[k[i]] =< up[3]
         \/ k[i] = k[i - 1] + 1 /\ ReadsItem(ConnectionRequest.read[i], kind, k[i])
  <2>3. k[3] = k[2] + 1 /\ ReadsItem(ConnectionRequest.read[3], kind, k[3])
    BY <1>3, <1>5, <1>6
  <2>4. k[4] = k[3] + 1 /\ ReadsItem(ConnectionRequest.read[4], kind, k[4])
    BY <1>3, <1>5, <1>6
  <2>5. k[5] = k[4] + 1 /\ ReadsItem(ConnectionRequest.read[5], kind, k[5])
    BY <1>3, <1>5, <1>6
  <2> QED
    BY <2>3, <2>4, <2>5
<1>8. \E x \in Nat : ConnectionRequest.read[1] = Need(x) /\ 1 =< x /\ x =< 1 + up[3]
  BY <1>3, <1>4
<1>9. ConnectionRequest.read[2] = Id(Packet[kind].id)
  BY <1>2, <1>3
<1>10. Aligned(ConnectionRequest.read, 5, kind, 3, k, up)
  BY <1>4, <1>5, <1>7, <1>8, <1>9 DEF Aligned
<1> QED
  BY <1>10 DEF kind

\* ConnectedPing: the steps of the decoder against the items of the encoder.
LEMMA ConnectedPingAligned ==
    \E k, up : Aligned(ConnectedPing.read, 3, "connected_ping", 1, k, up)
<1> DEFINE k == [i \in 2 .. 3 |-> IF i = 2 THEN 0 ELSE 1]
           up == [i \in 0 .. 1 |-> IF i = 0 THEN 0 ELSE 8]
           kind == "connected_ping"
<1>1. Packet[kind] = ConnectedPing
  BY DEF Packet
<1>2. /\ Packet[kind].id = 0
      /\ Packet[kind].write[1] = I64
  BY <1>1 DEF ConnectedPing
<1>3. /\ ConnectedPing.read[1] = Need(9)
      /\ ConnectedPing.read[2] = Id(0)
      /\ ConnectedPing.read[3] = I64
  BY DEF ConnectedPing
<1>4. Counts(up, kind, 1) /\ up[0] = 0 /\ up[1] = 8
  <2>1. up \in [0 .. 1 -> Nat]
    OBVIOUS
  <2>2. \A i \in 1 .. 1 : up[i] =< up[i - 1] + Least(Packet[kind].write[i])
    <3>1. up[0] = 0 /\ up[1] = 8 /\ Least(Packet[kind].write[1]) = 8
      BY <1>2, LeastValues
    <3> HIDE DEF up, kind
    <3> QED
      BY <3>1
  <2> QED
    BY <2>1, <2>2 DEF Counts
<1>5. k \in [2 .. 3 -> 0 .. 1] /\ k[2] = 0 /\ k[3] = 1
  OBVIOUS
<1>6. /\ ReadsItem(I64, kind, 1)
  <2> HIDE DEF kind
  <2> QED
    BY <1>2, ReadsItems
<1> HIDE DEF k, up, kind
<1>7. \A i \in 3 .. 3 :
         \/ \E x \in Nat : ConnectedPing.read[i] = Need(x) /\ k[i] = k[i - 1] /\ x + up[k[i]] =< up[1]
         \/ k[i] = k[i - 1] + 1 /\ ReadsItem(ConnectedPing.read[i], kind, k[i])
  <2>3. k[3] = k[2] + 1 /\ ReadsItem(ConnectedPing.read[3], kind, k[3])
    BY <1>3, <1>5, <1>6
  <2> QED
    BY <2>3
<1>8. \E x \in Nat : ConnectedPing.read[1] = Need(x) /\ 1 =< x /\ x =< 1 + up[1]
  BY <1>3, <1>4
<1>9. ConnectedPing.read[2] = Id(Packet[kind].id)
  BY <1>2, <1>3
<1>10. Aligned(ConnectedPing.read, 3, kind, 1, k, up)
  BY <1>4, <1>5, <1>7, <1>8, <1>9 DEF Aligned
<1> QED
  BY <1>10 DEF kind

\* ConnectedPong: the steps of the decoder against the items of the encoder.
LEMMA ConnectedPongAligned ==
    \E k, up : Aligned(ConnectedPong.read, 4, "connected_pong", 2, k, up)
<1> DEFINE k == [i \in 2 .. 4 |-> IF i = 2 THEN 0 ELSE IF i = 3 THEN 1 ELSE 2]
           up == [i \in 0 .. 2 |-> IF i = 0 THEN 0 ELSE IF i = 1 THEN 8 ELSE 16]
           kind == "connected_pong"
<1>1. Packet[kind] = ConnectedPong
  BY DEF Packet
<1>2. /\ Packet[kind].id = 3
      /\ Packet[kind].write[1] = I64
      /\ Packet[kind].write[2] = I64
  BY <1>1 DEF ConnectedPong
<1>3. /\ ConnectedPong.read[1] = Need(17)
      /\ ConnectedPong.read[2] = Id(3)
      /\ ConnectedPong.read[3] = I64
      /\ ConnectedPong.read[4] = I64
  BY DEF ConnectedPong
<1>4. Counts(up, kind, 2) /\ up[0] = 0 /\ up[2] = 16
  <2>1. up \in [0 .. 2 -> Nat]
    OBVIOUS
  <2>2. \A i \in 1 .. 2 : up[i] =< up[i - 1] + Least(Packet[kind].write[i])
    <3>1. up[0] = 0 /\ up[1] = 8 /\ Least(Packet[kind].write[1]) = 8
      BY <1>2, LeastValues
    <3>2. up[1] = 8 /\ up[2] = 16 /\ Least(Packet[kind].write[2]) = 8
      BY <1>2, LeastValues
    <3> HIDE DEF up, kind
    <3> QED
      BY <3>1, <3>2
  <2> QED
    BY <2>1, <2>2 DEF Counts
<1>5. k \in [2 .. 4 -> 0 .. 2] /\ k[2] = 0 /\ k[3] = 1 /\ k[4] = 2
  OBVIOUS
<1>6. /\ ReadsItem(I64, kind, 1)
      /\ ReadsItem(I64, kind, 2)
  <2> HIDE DEF kind
  <2> QED
    BY <1>2, ReadsItems
<1> HIDE DEF k, up, kind
<1>7. \A i \in 3 .. 4 :
         \/ \E x \in Nat : ConnectedPong.read[i] = Need(x) /\ k[i] = k[i - 1] /\ x + up[k[i]] =< up[2]
         \/ k[i] = k[i - 1] + 1 /\ ReadsItem(ConnectedPong.read[i], kind, k[i])
  <2>3. k[3] = k[2] + 1 /\ ReadsItem(ConnectedPong.read[3], kind, k[3])
    BY <1>3, <1>5, <1>6
  <2>4. k[4] = k[3] + 1 /\ ReadsItem(ConnectedPong.read[4], kind, k[4])
    BY <1>3, <1>5, <1>6
  <2> QED
    BY <2>3, <2>4
<1>8. \E x \in Nat : ConnectedPong.read[1] = Need(x) /\ 1 =< x /\ x =< 1 + up[2]
  BY <1>3, <1>4
<1>9. ConnectedPong.read[2] = Id(Packet[kind].id)
  BY <1>2, <1>3
<1>10. Aligned(ConnectedPong.read, 4, kind, 2, k, up)
  BY <1>4, <1>5, <1>7, <1>8, <1>9 DEF Aligned
<1> QED
  BY <1>10 DEF kind

\* DisconnectNotification: the steps of the decoder against the items of the encoder.
LEMMA DisconnectNotificationAligned ==
    \E k, up : Aligned(DisconnectNotification.read, 2, "disconnect_notification", 0, k, up)
<1> DEFINE k == [i \in 2 .. 2 |-> 0]
           up == [i \in 0 .. 0 |-> 0]
           kind == "disconnect_notification"
<1>1. Packet[kind] = DisconnectNotification
  BY DEF Packet
<1>2. /\ Packet[kind].id = 21
  BY <1>1 DEF DisconnectNotification
<1>3. /\ DisconnectNotification.read[1] = Need(1)
      /\ DisconnectNotification.read[2] = Id(21)
  BY DEF DisconnectNotification
<1>4. Counts(up, kind, 0) /\ up[0] = 0 /\ up[0] = 0
  <2>1. up \in [0 .. 0 -> Nat]
    OBVIOUS
  <2>2. \A i \in 1 .. 0 : up[i] =< up[i - 1] + Least(Packet[kind].write[i])
    <3> HIDE DEF up, kind
    <3> QED
      OBVIOUS
  <2> QED
    BY <2>1, <2>2 DEF Counts
<1>5. k \in [2 .. 2 -> 0 .. 0] /\ k[2] = 0
  OBVIOUS
<1> HIDE DEF k, up, kind
<1>7. \A i \in 3 .. 2 :
         \/ \E x \in Nat : DisconnectNotification.read[i] = Need(x) /\ k[i] = k[i - 1] /\ x + up[k[i]] =< up[0]
         \/ k[i] = k[i - 1] + 1 /\ ReadsItem(DisconnectNotification.read[i], kind, k[i])
  OBVIOUS
<1>8. \E x \in Nat : DisconnectNotification.read[1] = Need(x) /\ 1 =< x /\ x =< 1 + up[0]
  BY <1>3, <1>4
<1>9. DisconnectNotification.read[2] = Id(Packet[kind].id)
  BY <1>2, <1>3
<1>10. Aligned(DisconnectNotification.read, 2, kind, 0, k, up)
  BY <1>4, <1>5, <1>7, <1>8, <1>9 DEF Aligned
<1> QED
  BY <1>10 DEF kind

\* s is a, b and d, one after the other.
Three(s, a, b, d) ==
    /\ Len(s) = Len(a) + Len(b) + Len(d)
    /\ \A j \in 1 .. Len(a) : s[j] = a[j]
    /\ \A j \in 1 .. Len(b) : s[Len(a) + j] = b[j]
    /\ \A j \in 1 .. Len(d) : s[Len(a) + Len(b) + j] = d[j]

\* That is what concatenating makes of them.
LEMMA ThreeJoined ==
    ASSUME NEW S, NEW a \in Seq(S), NEW b \in Seq(S), NEW d \in Seq(S)
    PROVE  Three((a \o b) \o d, a, b, d)
<1>1. PICK h : h = a \o b
  OBVIOUS
<1>2. /\ h \in Seq(S) /\ Len(h) = Len(a) + Len(b) /\ Len(a) \in Nat /\ Len(b) \in Nat
      /\ \A j \in 1 .. Len(a) : h[j] = a[j]
      /\ \A j \in 1 .. Len(b) : h[Len(a) + j] = b[j]
  BY <1>1, Concatenation
<1>3. h \in Seq(S)
  BY <1>2
<1>4. /\ Len(h \o d) = Len(h) + Len(d)
      /\ \A j \in 1 .. Len(h) : (h \o d)[j] = h[j]
      /\ \A j \in 1 .. Len(d) : (h \o d)[Len(h) + j] = d[j]
  BY <1>3, Concatenation
<1>5. /\ \A j \in 1 .. Len(a) : j \in 1 .. Len(h)
      /\ \A j \in 1 .. Len(b) : Len(a) + j \in 1 .. Len(h)
  BY <1>2
<1> QED
  BY <1>1, <1>2, <1>4, <1>5 DEF Three

\* The same, of known lengths.
Parted(s, a, la, b, lb, d, ld) ==
    /\ Len(s) = la + lb + ld
    /\ \A j \in 1 .. la : s[j] = a[j]
    /\ \A j \in 1 .. lb : s[la + j] = b[j]
    /\ \A j \in 1 .. ld : s[la + lb + j] = d[j]

\* Three sequences of known lengths, one after the other.
LEMMA ThreeParts ==
    ASSUME NEW S, NEW a \in Seq(S), NEW b \in Seq(S), NEW d \in Seq(S), NEW la, NEW lb, NEW ld,
           Len(a) = la, Len(b) = lb, Len(d) = ld
    PROVE  Parted((a \o b) \o d, a, la, b, lb, d, ld)
<1>1. Three((a \o b) \o d, a, b, d)
  BY ThreeJoined, Zenon
<1> QED
  BY <1>1, Zenon DEF Three, Parted

\* The ten internal addresses and the steps that skip them.
LEMMA TenAddresses ==
    /\ InternalAddresses \in Seq(Items) /\ Len(InternalAddresses) = 10
    /\ \A j \in 1 .. 10 : InternalAddresses[j] = Const(write_address(NoAddress))
    /\ SkipInternalAddresses \in Seq(Steps) /\ Len(SkipInternalAddresses) = 10
    /\ \A j \in 1 .. 10 : SkipInternalAddresses[j] = UnusedAddr
<1>1. write_address(NoAddress) \in Seq(Byte)
  BY DEF Byte, Zeros, NoAddress, write_address, Inverted
<1>2. Const(write_address(NoAddress)) \in Items
  BY <1>1 DEF Items
<1>3. UnusedAddr \in Steps
  BY DEF UnusedAddr, Steps, StepOps
<1> QED
  BY <1>2, <1>3 DEF InternalAddresses, SkipInternalAddresses

\* ConnectionRequestAccepted: the same, with the ten internal addresses.
LEMMA ConnectionRequestAcceptedAligned ==
    /\ \E k, up : Aligned(ConnectionRequestAccepted.read, 18, "connection_request_accepted", 14, k, up)
    /\ Len(ConnectionRequestAccepted.read) = 18 /\ Len(ConnectionRequestAccepted.write) = 14
<1> DEFINE k == [i \in 2 .. 18 |-> IF i =< 3 THEN i - 2 ELSE IF i =< 15 THEN i - 3 ELSE i - 4]
           up == [i \in 0 .. 14 |-> IF i = 0 THEN 0 ELSE IF i = 1 THEN 7 ELSE IF i =< 12 THEN 9 + 7 * (i - 2) ELSE IF i = 13 THEN 87 ELSE 95]
           kind == "connection_request_accepted"
           items == ConnectionRequestAccepted.write
           steps == ConnectionRequestAccepted.read
<1>1. Packet[kind] = ConnectionRequestAccepted /\ Packet[kind].id = 16
  BY DEF Packet, ConnectionRequestAccepted
<1>2. /\ items[1] = Addr
      /\ items[2] = Const(Zeros(2))
      /\ \A j \in 1 .. 10 : items[2 + j] = Const(write_address(NoAddress))
      /\ items[13] = I64 /\ items[14] = I64 /\ Len(items) = 14
  <2>1. PICK x, y : x = <<Addr, Const(Zeros(2))>> /\ y = <<I64, I64>>
    OBVIOUS
  <2>2. x \in Seq(Items) /\ Len(x) = 2 /\ y \in Seq(Items) /\ Len(y) = 2
    <3>1. Addr \in Items /\ I64 \in Items
      BY DEF Items, I64
    <3>2. Zeros(2) \in Seq(Byte)
      BY DEF Zeros, Byte
    <3>3. Const(Zeros(2)) \in Items
      BY <3>2 DEF Items
    <3> QED
      BY <2>1, <3>1, <3>3
  <2>3. items = (x \o InternalAddresses) \o y
    BY <2>1 DEF ConnectionRequestAccepted
  <2> HIDE DEF items
  <2>4. /\ \A j \in 1 .. 2 : items[j] = x[j]
        /\ \A j \in 1 .. 10 : items[2 + j] = InternalAddresses[j]
        /\ \A j \in 1 .. 2 : items[2 + 10 + j] = y[j]
        /\ Len(items) = 2 + 10 + 2
    <3>1. Parted((x \o InternalAddresses) \o y, x, 2, InternalAddresses, 10, y, 2)
      BY <2>2, TenAddresses, ThreeParts
    <3>2. Parted(items, x, 2, InternalAddresses, 10, y, 2)
      BY <2>3, <3>1
    <3> QED
      BY <3>2 DEF Parted
  <2>5. items[13] = y[1] /\ items[14] = y[2]
    BY <2>4
  <2> QED
    BY <2>1, <2>4, <2>5, TenAddresses
<1>3. /\ steps[1] = Need(8)
      /\ steps[2] = Id(16)
      /\ steps[3] = Addr
      /\ steps[4] = Need(2)
      /\ steps[5] = Unused(2)
      /\ \A j \in 1 .. 10 : steps[5 + j] = UnusedAddr
      /\ steps[16] = Need(16) /\ steps[17] = I64 /\ steps[18] = I64 /\ Len(steps) = 18
  <2>1. PICK x, y : x = <<Need(1 + 7), Id(16), Addr, Need(2), Unused(2)>> /\ y = <<Need(8 + 8), I64, I64>>
    OBVIOUS
  <2>2. x \in Seq(Steps) /\ Len(x) = 5 /\ y \in Seq(Steps) /\ Len(y) = 3
    BY <2>1 DEF Steps, StepOps, Need, Id, Addr, Unused, I64, Bytes
  <2>3. steps = (x \o SkipInternalAddresses) \o y
    BY <2>1 DEF ConnectionRequestAccepted
  <2> HIDE DEF steps
  <2>4. /\ \A j \in 1 .. 5 : steps[j] = x[j]
        /\ \A j \in 1 .. 10 : steps[5 + j] = SkipInternalAddresses[j]
        /\ \A j \in 1 .. 3 : steps[5 + 10 + j] = y[j]
        /\ Len(steps) = 5 + 10 + 3
    <3>1. Parted((x \o SkipInternalAddresses) \o y, x, 5, SkipInternalAddresses, 10, y, 3)
      BY <2>2, TenAddresses, ThreeParts
    <3>2. Parted(steps, x, 5, SkipInternalAddresses, 10, y, 3)
      BY <2>3, <3>1
    <3> QED
      BY <3>2 DEF Parted
  <2>5. steps[16] = y[1] /\ steps[17] = y[2] /\ steps[18] = y[3]
    BY <2>4
  <2> QED
    BY <2>1, <2>4, <2>5, TenAddresses
<1> HIDE DEF items, steps
<1>4. \A i \in 3 .. 12 : items[i] = Const(write_address(NoAddress))
  <2>1. \A i \in 3 .. 12 : i - 2 \in 1 .. 10 /\ 2 + (i - 2) = i
    OBVIOUS
  <2> QED
    BY <1>2, <2>1
<1>5. \A i \in 6 .. 15 : steps[i] = UnusedAddr
  <2>1. \A i \in 6 .. 15 : i - 5 \in 1 .. 10 /\ 5 + (i - 5) = i
    OBVIOUS
  <2> QED
    BY <1>3, <2>1
<1>6. Counts(up, kind, 14) /\ up[0] = 0 /\ up[14] = 95
  <2>1. up \in [0 .. 14 -> Nat]
    OBVIOUS
  <2>2. ASSUME NEW i \in 1 .. 14 PROVE up[i] =< up[i - 1] + Least(items[i])
    <3>1. CASE i = 1
      <4>1. Least(items[i]) = 7
        BY <1>2, <1>4, <3>1, LeastValues
      <4> QED
        BY <3>1, <4>1
    <3>2. CASE i = 2
      <4>1. Least(items[i]) = 2
        BY <1>2, <1>4, <3>2, LeastValues
      <4> QED
        BY <3>2, <4>1
    <3>3. CASE i \in 3 .. 12
      <4>1. Least(items[i]) = 7
        BY <1>2, <1>4, <3>3, LeastValues
      <4> QED
        BY <3>3, <4>1
    <3>4. CASE i = 13
      <4>1. Least(items[i]) = 8
        BY <1>2, <1>4, <3>4, LeastValues
      <4> QED
        BY <3>4, <4>1
    <3>5. CASE i = 14
      <4>1. Least(items[i]) = 8
        BY <1>2, <1>4, <3>5, LeastValues
      <4> QED
        BY <3>5, <4>1
    <3> QED
      BY <3>1, <3>2, <3>3, <3>4, <3>5
  <2>3. Packet[kind].write = items
    BY <1>1 DEF items
  <2>4. up[0] = 0 /\ up[14] = 95
    OBVIOUS
  <2> HIDE DEF up, kind
  <2> QED
    BY <2>1, <2>2, <2>3, <2>4 DEF Counts
<1>7. k \in [2 .. 18 -> 0 .. 14] /\ k[2] = 0 /\ k[18] = 14
  OBVIOUS
<1>8. ASSUME NEW i \in 1 .. 14
      PROVE  /\ items[i] = I64 => ReadsItem(I64, kind, i)
             /\ items[i] = Addr => ReadsItem(Addr, kind, i)
             /\ items[i] = Const(Zeros(2)) => ReadsItem(Unused(2), kind, i)
             /\ items[i] = Const(write_address(NoAddress)) => ReadsItem(UnusedAddr, kind, i)
  <2>1. Packet[kind].write = items
    BY <1>1 DEF items
  <2> HIDE DEF kind
  <2> QED
    BY <2>1, ReadsItems
<1> HIDE DEF kind
<1>9. ASSUME NEW i \in 3 .. 18
      PROVE  \/ \E x \in Nat : steps[i] = Need(x) /\ k[i] = k[i - 1] /\ x + up[k[i]] =< up[14]
             \/ k[i] = k[i - 1] + 1 /\ ReadsItem(steps[i], kind, k[i])
  <2>1. CASE i = 3
    <3>1. k[i] = k[i - 1] + 1 /\ k[i] = 1
      BY <2>1
    <3> HIDE DEF k
    <3> QED
      BY <1>2, <1>3, <1>8, <2>1, <3>1
  <2>2. CASE i = 4
    BY <1>3, <1>6, <2>2
  <2>3. CASE i = 5
    <3>1. k[i] = k[i - 1] + 1 /\ k[i] = 2
      BY <2>3
    <3> HIDE DEF k
    <3> QED
      BY <1>2, <1>3, <1>8, <2>3, <3>1
  <2>4. CASE i \in 6 .. 15
    <3>1. k[i] = k[i - 1] + 1 /\ k[i] \in 3 .. 12
      BY <2>4
    <3> HIDE DEF k
    <3>2. k[i] \in 1 .. 14
      BY <3>1
    <3> QED
      BY <1>4, <1>5, <1>8, <2>4, <3>1, <3>2
  <2>5. CASE i = 16
    BY <1>3, <1>6, <2>5
  <2>6. CASE i = 17
    <3>1. k[i] = k[i - 1] + 1 /\ k[i] = 13
      BY <2>6
    <3> HIDE DEF k
    <3> QED
      BY <1>2, <1>3, <1>8, <2>6, <3>1
  <2>7. CASE i = 18
    <3>1. k[i] = k[i - 1] + 1 /\ k[i] = 14
      BY <2>7
    <3> HIDE DEF k
    <3> QED
      BY <1>2, <1>3, <1>8, <2>7, <3>1
  <2> QED
    BY <2>1, <2>2, <2>3, <2>4, <2>5, <2>6, <2>7
<1> HIDE DEF k, up
<1>10. \E x \in Nat : steps[1] = Need(x) /\ 1 =< x /\ x =< 1 + up[14]
  BY <1>3, <1>6
<1>11. steps[2] = Id(Packet[kind].id)
  BY <1>1, <1>3
<1>12. Aligned(steps, 18, kind, 14, k, up)
  BY <1>6, <1>7, <1>9, <1>10, <1>11 DEF Aligned
<1> QED
  BY <1>2, <1>3, <1>12 DEF kind, steps, items

\* NewIncomingConnection: the same, with the ten internal addresses.
LEMMA NewIncomingConnectionAligned ==
    /\ \E k, up : Aligned(NewIncomingConnection.read, 16, "new_incoming_connection", 13, k, up)
    /\ Len(NewIncomingConnection.read) = 16 /\ Len(NewIncomingConnection.write) = 13
<1> DEFINE k == [i \in 2 .. 16 |-> IF i =< 13 THEN i - 2 ELSE i - 3]
           up == [i \in 0 .. 13 |-> IF i =< 11 THEN 7 * i ELSE IF i = 12 THEN 85 ELSE 93]
           kind == "new_incoming_connection"
           items == NewIncomingConnection.write
           steps == NewIncomingConnection.read
<1>1. Packet[kind] = NewIncomingConnection /\ Packet[kind].id = 19
  BY DEF Packet, NewIncomingConnection
<1>2. /\ items[1] = Addr
      /\ \A j \in 1 .. 10 : items[1 + j] = Const(write_address(NoAddress))
      /\ items[12] = I64 /\ items[13] = I64 /\ Len(items) = 13
  <2>1. PICK x, y : x = <<Addr>> /\ y = <<I64, I64>>
    OBVIOUS
  <2>2. x \in Seq(Items) /\ Len(x) = 1 /\ y \in Seq(Items) /\ Len(y) = 2
    <3>1. Addr \in Items /\ I64 \in Items
      BY DEF Items, I64
    <3> QED
      BY <2>1, <3>1
  <2>3. items = (x \o InternalAddresses) \o y
    BY <2>1 DEF NewIncomingConnection
  <2> HIDE DEF items
  <2>4. /\ \A j \in 1 .. 1 : items[j] = x[j]
        /\ \A j \in 1 .. 10 : items[1 + j] = InternalAddresses[j]
        /\ \A j \in 1 .. 2 : items[1 + 10 + j] = y[j]
        /\ Len(items) = 1 + 10 + 2
    <3>1. Parted((x \o InternalAddresses) \o y, x, 1, InternalAddresses, 10, y, 2)
      BY <2>2, TenAddresses, ThreeParts
    <3>2. Parted(items, x, 1, InternalAddresses, 10, y, 2)
      BY <2>3, <3>1
    <3> QED
      BY <3>2 DEF Parted
  <2>5. items[12] = y[1] /\ items[13] = y[2]
    BY <2>4
  <2> QED
    BY <2>1, <2>4, <2>5, TenAddresses
<1>3. /\ steps[1] = Need(8)
      /\ steps[2] = Id(19)
      /\ steps[3] = Addr
      /\ \A j \in 1 .. 10 : steps[3 + j] = UnusedAddr
      /\ steps[14] = Need(16) /\ steps[15] = I64 /\ steps[16] = I64 /\ Len(steps) = 16
  <2>1. PICK x, y : x = <<Need(1 + 7), Id(19), Addr>> /\ y = <<Need(8 + 8), I64, I64>>
    OBVIOUS
  <2>2. x \in Seq(Steps) /\ Len(x) = 3 /\ y \in Seq(Steps) /\ Len(y) = 3
    BY <2>1 DEF Steps, StepOps, Need, Id, Addr, Unused, I64, Bytes
  <2>3. steps = (x \o SkipInternalAddresses) \o y
    BY <2>1 DEF NewIncomingConnection
  <2> HIDE DEF steps
  <2>4. /\ \A j \in 1 .. 3 : steps[j] = x[j]
        /\ \A j \in 1 .. 10 : steps[3 + j] = SkipInternalAddresses[j]
        /\ \A j \in 1 .. 3 : steps[3 + 10 + j] = y[j]
        /\ Len(steps) = 3 + 10 + 3
    <3>1. Parted((x \o SkipInternalAddresses) \o y, x, 3, SkipInternalAddresses, 10, y, 3)
      BY <2>2, TenAddresses, ThreeParts
    <3>2. Parted(steps, x, 3, SkipInternalAddresses, 10, y, 3)
      BY <2>3, <3>1
    <3> QED
      BY <3>2 DEF Parted
  <2>5. steps[14] = y[1] /\ steps[15] = y[2] /\ steps[16] = y[3]
    BY <2>4
  <2> QED
    BY <2>1, <2>4, <2>5, TenAddresses
<1> HIDE DEF items, steps
<1>4. \A i \in 2 .. 11 : items[i] = Const(write_address(NoAddress))
  <2>1. \A i \in 2 .. 11 : i - 1 \in 1 .. 10 /\ 1 + (i - 1) = i
    OBVIOUS
  <2> QED
    BY <1>2, <2>1
<1>5. \A i \in 4 .. 13 : steps[i] = UnusedAddr
  <2>1. \A i \in 4 .. 13 : i - 3 \in 1 .. 10 /\ 3 + (i - 3) = i
    OBVIOUS
  <2> QED
    BY <1>3, <2>1
<1>6. Counts(up, kind, 13) /\ up[0] = 0 /\ up[13] = 93
  <2>1. up \in [0 .. 13 -> Nat]
    OBVIOUS
  <2>2. ASSUME NEW i \in 1 .. 13 PROVE up[i] =< up[i - 1] + Least(items[i])
    <3>1. CASE i = 1
      <4>1. Least(items[i]) = 7
        BY <1>2, <1>4, <3>1, LeastValues
      <4> QED
        BY <3>1, <4>1
    <3>2. CASE i \in 2 .. 11
      <4>1. Least(items[i]) = 7
        BY <1>2, <1>4, <3>2, LeastValues
      <4> QED
        BY <3>2, <4>1
    <3>3. CASE i = 12
      <4>1. Least(items[i]) = 8
        BY <1>2, <1>4, <3>3, LeastValues
      <4> QED
        BY <3>3, <4>1
    <3>4. CASE i = 13
      <4>1. Least(items[i]) = 8
        BY <1>2, <1>4, <3>4, LeastValues
      <4> QED
        BY <3>4, <4>1
    <3> QED
      BY <3>1, <3>2, <3>3, <3>4
  <2>3. Packet[kind].write = items
    BY <1>1 DEF items
  <2>4. up[0] = 0 /\ up[13] = 93
    OBVIOUS
  <2> HIDE DEF up, kind
  <2> QED
    BY <2>1, <2>2, <2>3, <2>4 DEF Counts
<1>7. k \in [2 .. 16 -> 0 .. 13] /\ k[2] = 0 /\ k[16] = 13
  OBVIOUS
<1>8. ASSUME NEW i \in 1 .. 13
      PROVE  /\ items[i] = I64 => ReadsItem(I64, kind, i)
             /\ items[i] = Addr => ReadsItem(Addr, kind, i)
             /\ items[i] = Const(Zeros(2)) => ReadsItem(Unused(2), kind, i)
             /\ items[i] = Const(write_address(NoAddress)) => ReadsItem(UnusedAddr, kind, i)
  <2>1. Packet[kind].write = items
    BY <1>1 DEF items
  <2> HIDE DEF kind
  <2> QED
    BY <2>1, ReadsItems
<1> HIDE DEF kind
<1>9. ASSUME NEW i \in 3 .. 16
      PROVE  \/ \E x \in Nat : steps[i] = Need(x) /\ k[i] = k[i - 1] /\ x + up[k[i]] =< up[13]
             \/ k[i] = k[i - 1] + 1 /\ ReadsItem(steps[i], kind, k[i])
  <2>1. CASE i = 3
    <3>1. k[i] = k[i - 1] + 1 /\ k[i] = 1
      BY <2>1
    <3> HIDE DEF k
    <3> QED
      BY <1>2, <1>3, <1>8, <2>1, <3>1
  <2>2. CASE i \in 4 .. 13
    <3>1. k[i] = k[i - 1] + 1 /\ k[i] \in 2 .. 11
      BY <2>2
    <3> HIDE DEF k
    <3>2. k[i] \in 1 .. 13
      BY <3>1
    <3> QED
      BY <1>4, <1>5, <1>8, <2>2, <3>1, <3>2
  <2>3. CASE i = 14
    BY <1>3, <1>6, <2>3
  <2>4. CASE i = 15
    <3>1. k[i] = k[i - 1] + 1 /\ k[i] = 12
      BY <2>4
    <3> HIDE DEF k
    <3> QED
      BY <1>2, <1>3, <1>8, <2>4, <3>1
  <2>5. CASE i = 16
    <3>1. k[i] = k[i - 1] + 1 /\ k[i] = 13
      BY <2>5
    <3> HIDE DEF k
    <3> QED
      BY <1>2, <1>3, <1>8, <2>5, <3>1
  <2> QED
    BY <2>1, <2>2, <2>3, <2>4, <2>5
<1> HIDE DEF k, up
<1>10. \E x \in Nat : steps[1] = Need(x) /\ 1 =< x /\ x =< 1 + up[13]
  BY <1>3, <1>6
<1>11. steps[2] = Id(Packet[kind].id)
  BY <1>1, <1>3
<1>12. Aligned(steps, 16, kind, 13, k, up)
  BY <1>6, <1>7, <1>9, <1>10, <1>11 DEF Aligned
<1> QED
  BY <1>2, <1>3, <1>12 DEF kind, steps, items

\* Every decoder is aligned with its encoder: with all of it, or, for
\* OpenConnectionRequest1, with what comes before the padding.
LEMMA DecodersAligned ==
    ASSUME NEW kind \in Kinds
    PROVE  \E n, m, k, up :
              /\ Aligned(Packet[kind].read, n, kind, m, k, up)
              /\ kind # "open_connection_request_1" =>
                    n = Len(Packet[kind].read) /\ m = Len(Packet[kind].write)
              /\ kind = "open_connection_request_1" =>
                    n = 4 /\ m = 2 /\ Len(Packet[kind].read) = 5 /\ Len(Packet[kind].write) = 3
<1> DEFINE Good(kd, n, m) ==
              /\ \E k, up : Aligned(Packet[kd].read, n, kd, m, k, up)
              /\ kd # "open_connection_request_1" =>
                    n = Len(Packet[kd].read) /\ m = Len(Packet[kd].write)
              /\ kd = "open_connection_request_1" =>
                    n = 4 /\ m = 2 /\ Len(Packet[kd].read) = 5 /\ Len(Packet[kd].write) = 3
<1>1. Good("unconnected_ping", 5, 3)
  <2>1. Packet["unconnected_ping"] = UnconnectedPing
    BY DEF Packet
  <2>2. Len(UnconnectedPing.read) = 5 /\ Len(UnconnectedPing.write) = 3
    BY DEF UnconnectedPing
  <2> QED
    BY <2>1, <2>2, UnconnectedPingAligned
<1>2. Good("unconnected_pong", 6, 4)
  <2>1. Packet["unconnected_pong"] = UnconnectedPong
    BY DEF Packet
  <2>2. Len(UnconnectedPong.read) = 6 /\ Len(UnconnectedPong.write) = 4
    BY DEF UnconnectedPong
  <2> QED
    BY <2>1, <2>2, UnconnectedPongAligned
<1>3. Good("open_connection_request_1", 4, 2)
  <2>1. Packet["open_connection_request_1"] = OpenConnectionRequest1
    BY DEF Packet
  <2>2. Len(OpenConnectionRequest1.read) = 5 /\ Len(OpenConnectionRequest1.write) = 3
    BY DEF OpenConnectionRequest1
  <2> QED
    BY <2>1, <2>2, OpenConnectionRequest1Aligned
<1>4. Good("open_connection_reply_1", 6, 4)
  <2>1. Packet["open_connection_reply_1"] = OpenConnectionReply1
    BY DEF Packet
  <2>2. Len(OpenConnectionReply1.read) = 6 /\ Len(OpenConnectionReply1.write) = 4
    BY DEF OpenConnectionReply1
  <2> QED
    BY <2>1, <2>2, OpenConnectionReply1Aligned
<1>5. Good("open_connection_request_2", 7, 4)
  <2>1. Packet["open_connection_request_2"] = OpenConnectionRequest2
    BY DEF Packet
  <2>2. Len(OpenConnectionRequest2.read) = 7 /\ Len(OpenConnectionRequest2.write) = 4
    BY DEF OpenConnectionRequest2
  <2> QED
    BY <2>1, <2>2, OpenConnectionRequest2Aligned
<1>6. Good("open_connection_reply_2", 8, 5)
  <2>1. Packet["open_connection_reply_2"] = OpenConnectionReply2
    BY DEF Packet
  <2>2. Len(OpenConnectionReply2.read) = 8 /\ Len(OpenConnectionReply2.write) = 5
    BY DEF OpenConnectionReply2
  <2> QED
    BY <2>1, <2>2, OpenConnectionReply2Aligned
<1>7. Good("connection_request", 5, 3)
  <2>1. Packet["connection_request"] = ConnectionRequest
    BY DEF Packet
  <2>2. Len(ConnectionRequest.read) = 5 /\ Len(ConnectionRequest.write) = 3
    BY DEF ConnectionRequest
  <2> QED
    BY <2>1, <2>2, ConnectionRequestAligned
<1>8. Good("connection_request_accepted", 18, 14)
  <2>1. Packet["connection_request_accepted"] = ConnectionRequestAccepted
    BY DEF Packet
  <2>2. Len(ConnectionRequestAccepted.read) = 18 /\ Len(ConnectionRequestAccepted.write) = 14
    BY ConnectionRequestAcceptedAligned
  <2> QED
    BY <2>1, <2>2, ConnectionRequestAcceptedAligned
<1>9. Good("new_incoming_connection", 16, 13)
  <2>1. Packet["new_incoming_connection"] = NewIncomingConnection
    BY DEF Packet
  <2>2. Len(NewIncomingConnection.read) = 16 /\ Len(NewIncomingConnection.write) = 13
    BY NewIncomingConnectionAligned
  <2> QED
    BY <2>1, <2>2, NewIncomingConnectionAligned
<1>10. Good("connected_ping", 3, 1)
  <2>1. Packet["connected_ping"] = ConnectedPing
    BY DEF Packet
  <2>2. Len(ConnectedPing.read) = 3 /\ Len(ConnectedPing.write) = 1
    BY DEF ConnectedPing
  <2> QED
    BY <2>1, <2>2, ConnectedPingAligned
<1>11. Good("connected_pong", 4, 2)
  <2>1. Packet["connected_pong"] = ConnectedPong
    BY DEF Packet
  <2>2. Len(ConnectedPong.read) = 4 /\ Len(ConnectedPong.write) = 2
    BY DEF ConnectedPong
  <2> QED
    BY <2>1, <2>2, ConnectedPongAligned
<1>12. Good("disconnect_notification", 2, 0)
  <2>1. Packet["disconnect_notification"] = DisconnectNotification
    BY DEF Packet
  <2>2. Len(DisconnectNotification.read) = 2 /\ Len(DisconnectNotification.write) = 0
    BY DEF DisconnectNotification
  <2> QED
    BY <2>1, <2>2, DisconnectNotificationAligned
<1> HIDE DEF Good
<1>13. \E n, m : Good(kind, n, m)
  BY KindsAre, <1>1, <1>2, <1>3, <1>4, <1>5, <1>6, <1>7, <1>8, <1>9, <1>10, <1>11, <1>12
<1> QED
  BY <1>13 DEF Good

\* No two kinds have the same id.
LEMMA IdsDiffer ==
    ASSUME NEW kind \in Kinds, NEW other \in Kinds, other # kind
    PROVE  Packet[other].id # Packet[kind].id
<1>1. /\ Packet["unconnected_ping"].id = 1 /\ Packet["unconnected_pong"].id = 28
      /\ Packet["open_connection_request_1"].id = 5 /\ Packet["open_connection_reply_1"].id = 6
      /\ Packet["open_connection_request_2"].id = 7 /\ Packet["open_connection_reply_2"].id = 8
      /\ Packet["connection_request"].id = 9 /\ Packet["connection_request_accepted"].id = 16
      /\ Packet["new_incoming_connection"].id = 19 /\ Packet["connected_ping"].id = 0
      /\ Packet["connected_pong"].id = 3 /\ Packet["disconnect_notification"].id = 21
  BY DEF Packet, UnconnectedPing, UnconnectedPong, OpenConnectionRequest1, OpenConnectionReply1,
         OpenConnectionRequest2, OpenConnectionReply2, ConnectionRequest, ConnectionRequestAccepted,
         NewIncomingConnection, ConnectedPing, ConnectedPong, DisconnectNotification
<1> QED
  BY <1>1, KindsAre

\* A decoder ends well or with an error.
LEMMA DecodeEnds ==
    ASSUME NEW kind \in Kinds, NEW data \in Seq(Byte)
    PROVE  /\ Decode(kind, data).status \in {"ok", "error"}
           /\ Len(Packet[kind].read) \in Nat
           /\ \E r : /\ r[0] = Cursor(data, 0)
                     /\ \A i \in 1 .. Len(Packet[kind].read) : r[i] = ReadStep(r[i - 1], Packet[kind].read[i])
                     /\ Decode(kind, data) = r[Len(Packet[kind].read)]
<1>1. PICK c, steps : c = Cursor(data, 0) /\ steps = Packet[kind].read
  OBVIOUS
<1>2. Safe(steps)
  BY <1>1, DecodersSafe
<1>3. Len(steps) \in Nat
  BY <1>2, LenProperties DEF Safe
<1>4. Sound(c, data, 0)
  <2>1. At(c, data, 0) /\ Len(data) \in Nat
    BY <1>1, CursorAt, LenProperties
  <2> QED
    BY <2>1 DEF At, Sound
<1>5. Sound(Read(c, steps), data, 0)
  BY <1>2, <1>4, ReadSound
<1>6. Decode(kind, data) = Read(c, steps)
  BY <1>1 DEF Decode
<1>7. \E r : /\ r[0] = c
             /\ \A i \in 1 .. Len(steps) : r[i] = ReadStep(r[i - 1], steps[i])
             /\ Read(c, steps) = r[Len(steps)]
  BY <1>3, ReadTurns
<1>8. Decode(kind, data).status \in {"ok", "error"}
  BY <1>5, <1>6 DEF Sound
<1> QED
  BY <1>1, <1>3, <1>6, <1>7, <1>8

\* A cursor that has failed along the way has failed in the end.
LEMMA StaysFailed ==
    ASSUME NEW n \in Nat, NEW r, NEW steps, \A i \in 1 .. n : r[i] = ReadStep(r[i - 1], steps[i]),
           NEW first \in 0 .. n, r[first].status # "ok"
    PROVE  r[n].status # "ok"
<1> DEFINE E == {i \in 0 .. n : i >= first => r[i].status # "ok"}
<1>1. 0 \in E
  OBVIOUS
<1>2. ASSUME NEW i \in 0 .. n - 1, i \in E PROVE i + 1 \in E
  <2>1. i + 1 \in 1 .. n /\ i + 1 \in 0 .. n /\ (i + 1) - 1 = i
    OBVIOUS
  <2>2. r[i + 1] = ReadStep(r[i], steps[i + 1])
    BY <2>1
  <2>3. CASE i >= first
    BY <1>2, <2>1, <2>2, <2>3, Failed
  <2>4. CASE ~ (i >= first)
    <3>1. i + 1 >= first => i + 1 = first
      BY <2>4
    <3> QED
      BY <2>1, <3>1
  <2> QED
    BY <2>3, <2>4
<1> HIDE DEF E
<1>3. \A i \in 0 .. n : i \in E
  BY <1>1, <1>2, UpTo
<1> QED
  BY <1>3 DEF E

\* No decoder takes a packet of another kind for its own.
LEMMA OtherRefuses ==
    ASSUME NEW kind \in Kinds, NEW other \in Kinds, other # kind, NEW data \in Seq(Byte),
           1 =< Len(data) => data[1] = Packet[kind].id
    PROVE  Decode(other, data).status = "error"
<1>1. PICK steps, len : steps = Packet[other].read /\ len = Len(steps)
  OBVIOUS
<1>2. PICK r : /\ r[0] = Cursor(data, 0)
               /\ \A i \in 1 .. len : r[i] = ReadStep(r[i - 1], steps[i])
               /\ Decode(other, data) = r[len]
  BY <1>1, DecodeEnds
<1>3. len \in Nat /\ Decode(other, data).status \in {"ok", "error"}
  BY <1>1, DecodeEnds
<1>4. PICK n, m, k, up : /\ Aligned(steps, n, other, m, k, up) /\ len >= 2
  <2>1. PICK n, m, k, up : /\ Aligned(steps, n, other, m, k, up)
                           /\ other # "open_connection_request_1" => n = len
                           /\ other = "open_connection_request_1" => len = 5
    BY <1>1, DecodersAligned
  <2>2. n >= 2
    BY <2>1 DEF Aligned
  <2> QED
    BY <2>1, <2>2
<1>5. PICK x \in Nat : steps[1] = Need(x) /\ 1 =< x
  BY <1>4 DEF Aligned
<1>6. PICK id : steps[2] = Id(id) /\ id = Packet[other].id
  BY <1>4 DEF Aligned
<1>7. r[1] = ReadStep(Cursor(data, 0), Need(x)) /\ r[2] = ReadStep(r[1], Id(id)) /\ 2 \in 0 .. len
  <2>1. 1 \in 1 .. len /\ 2 \in 1 .. len /\ 1 - 1 = 0 /\ 2 - 1 = 1
    BY <1>3, <1>4
  <2> QED
    BY <1>2, <1>3, <1>4, <1>5, <1>6, <2>1
<1>8. /\ Len(data) < x => r[2].status # "ok"
      /\ x =< Len(data) /\ data[1] # id => r[2].status # "ok"
  BY <1>5, <1>7, IdReads
<1>9. x =< Len(data) => data[1] # id
  <2>1. id # Packet[kind].id
    BY <1>6, IdsDiffer
  <2>2. x =< Len(data) => 1 =< Len(data)
    BY <1>5, LenProperties
  <2> QED
    BY <2>1, <2>2
<1>10. r[2].status # "ok"
  <2>1. Len(data) < x \/ x =< Len(data)
    BY LenProperties
  <2> QED
    BY <1>8, <1>9, <2>1
<1>11. r[len].status # "ok"
  BY <1>2, <1>3, <1>7, <1>10, StaysFailed
<1> QED
  BY <1>2, <1>3, <1>11

\* OpenConnectionRequest1 is never padded to more than its reader can report.
PaddingsFit == \A n \in Paddings : n + 28 =< u16_MAX

\* Short sequences, element by element.
LEMMA AppendValues ==
    ASSUME NEW a, NEW b
    PROVE  Append(<<>>, a) = <<a>> /\ Append(<<a>>, b) = <<a, b>>
<1>1. Append(<<>>, a) = <<a>>
  OBVIOUS
<1>2. PICK s, t : s = <<a>> /\ t = <<a, b>>
  OBVIOUS
<1>3. s \in Seq({a, b}) /\ Len(s) = 1 /\ s[1] = a
  BY <1>2
<1>4. t \in Seq({a, b}) /\ Len(t) = 2 /\ t[1] = a /\ t[2] = b
  BY <1>2
<1>5. Append(s, b) \in Seq({a, b}) /\ Len(Append(s, b)) = 2 /\ Append(s, b)[1] = a /\ Append(s, b)[2] = b
  <2>1. IsSequence(s)
    BY <1>3 DEF IsSequence
  <2>2. /\ Len(Append(s, b)) = Len(s) + 1 /\ Append(s, b)[Len(s) + 1] = b
        /\ \A i \in 1 .. Len(s) : Append(s, b)[i] = s[i]
    BY <2>1, AppendSequence
  <2>3. PICK V : V = {a, b}
    OBVIOUS
  <2>4. Append(s, b) \in Seq(V)
    <3>1. s \in Seq(V) /\ b \in V
      BY <1>3, <2>3
    <3> QED
      BY <3>1, AppendProperties
  <2> QED
    BY <1>3, <2>2, <2>3, <2>4
<1>6. Append(s, b) = t
  BY <1>4, <1>5, SeqEqual
<1> QED
  BY <1>1, <1>2, <1>6

\* What OpenConnectionRequest1 looks like: 18 bytes and the padding.
LEMMA RequestLayout ==
    ASSUME PaddingsFit, NEW w, NEW v, Chain(w, v, "open_connection_request_1", 3)
    PROVE  /\ Len(w[2].bytes) = 18 /\ w[2].args = <<v[2]>> /\ w[3].args = <<v[2], v[3]>>
           /\ Len(w[3].bytes) \in Nat /\ 18 =< Len(w[3].bytes) /\ Len(w[3].bytes) + 28 < 65536
<1> DEFINE kind == "open_connection_request_1"
<1>1. /\ Packet[kind].write[1] = Magic /\ Packet[kind].write[2] = U8 /\ Packet[kind].write[3] = Padding
      /\ Len(Packet[kind].write) = 3 /\ kind \in Kinds
  BY KindsAre DEF Packet, OpenConnectionRequest1
<1> HIDE DEF kind
<1>c. Chain(w, v, kind, 3)
  BY DEF kind
<1>2. Magic \in Items /\ U8 \in Items /\ Padding \in Items
  BY MagicBytes DEF Items, Magic, U8, IsBytes
<1>3. /\ v[1] \in Values(Magic) /\ w[1] = WriteItem(w[0], Magic, v[1])
      /\ v[2] \in Values(U8) /\ w[2] = WriteItem(w[1], U8, v[2])
      /\ v[3] \in Values(Padding) /\ w[3] = WriteItem(w[2], Padding, v[3])
  <2>1. 1 \in 1 .. 3 /\ 2 \in 1 .. 3 /\ 3 \in 1 .. 3 /\ 1 - 1 = 0 /\ 2 - 1 = 1 /\ 3 - 1 = 2
    OBVIOUS
  <2>2. \A i \in 1 .. 3 : /\ v[i] \in Values(Packet[kind].write[i])
                          /\ w[i] = WriteItem(w[i - 1], Packet[kind].write[i], v[i])
    BY <1>c DEF Chain
  <2> QED
    BY <1>1, <2>1, <2>2
<1>4. w[0].bytes \in Seq(Byte) /\ w[1].bytes \in Seq(Byte) /\ w[2].bytes \in Seq(Byte)
  <2>1. 3 \in Nat /\ 3 =< Len(Packet[kind].write) /\ 0 \in 0 .. 3 /\ 1 \in 0 .. 3 /\ 2 \in 0 .. 3
    BY <1>1
  <2>2. \A i \in 0 .. 3 : w[i].bytes \in Seq(Byte)
    BY <1>1, <1>c, <2>1, ChainBytes
  <2> QED
    BY <2>1, <2>2
<1>5. Len(w[0].bytes) = 1 /\ w[0].args = <<>>
  <2>1. PICK a, b : a = <<>> /\ b = <<Packet[kind].id>>
    OBVIOUS
  <2>2. Len(b) = 1
    BY <2>1
  <2>3. w[0] = [args |-> a, bytes |-> b]
    BY <1>c, <2>1 DEF Chain
  <2> QED
    BY <2>1, <2>2, <2>3
<1>6. Len(w[1].bytes) = 17 /\ w[1].args = <<>>
  <2>1. Magic.op = "const" /\ \A n : ItemBytes(Magic, v[1], n) = MAGIC
    BY DEF Magic, Const, ItemBytes
  <2>2. Added(w[1], w[0], Magic, v[1], MAGIC)
    BY <1>2, <1>3, <1>4, <2>1, ItemAdds
  <2>3. Len(MAGIC) = 16
    BY MagicBytes DEF IsBytes
  <2> QED
    BY <1>5, <2>1, <2>2, <2>3 DEF Added
<1>7. Len(w[2].bytes) = 18 /\ w[2].args = <<v[2]>>
  <2>1. U8.op = "take" /\ U8.n = 1
    BY DEF U8, Bytes
  <2>2. v[2] \in Integers1
    BY <1>3, <2>1 DEF Values
  <2>3. Len(v[2]) = 1 /\ \A n : ItemBytes(U8, v[2], n) = v[2]
    BY <2>1, <2>2, PacketAssumption DEF IsBytes, ItemBytes
  <2>4. Added(w[2], w[1], U8, v[2], v[2])
    BY <1>2, <1>3, <1>4, <2>3, ItemAdds
  <2>5. w[2].args = Append(<<>>, v[2])
    BY <1>6, <2>1, <2>4 DEF Added
  <2>6. w[2].args = <<v[2]>>
    BY <2>5, AppendValues
  <2>7. Len(w[2].bytes) = Len(w[1].bytes) + Len(v[2])
    BY <2>4 DEF Added
  <2>8. Len(w[2].bytes) = 18
    BY <1>6, <2>3, <2>7
  <2> QED
    BY <2>6, <2>8
<1>8. PICK z, b : z = (IF v[3] > 18 THEN v[3] - 18 ELSE 0) /\ b = Zeros(z)
  OBVIOUS
<1>9. Padding.op = "padding" /\ ItemBytes(Padding, v[3], Len(w[2].bytes)) = b
  BY <1>7, <1>8 DEF Padding, ItemBytes
<1>10. v[3] \in Paddings
  BY <1>3, <1>9 DEF Values
<1>11. v[3] \in Nat /\ v[3] + 28 =< u16_MAX
  BY <1>10, PacketAssumption DEF PaddingsFit
<1>12. z \in Nat /\ 18 + z + 28 < 65536
  BY <1>8, <1>11 DEF u16_MAX
<1>13. Len(b) = z
  BY <1>8, <1>12 DEF Zeros
<1>14. Added(w[3], w[2], Padding, v[3], b)
  BY <1>2, <1>3, <1>4, <1>9, ItemAdds
<1>15. Len(w[3].bytes) = 18 + z /\ w[3].args = Append(<<v[2]>>, v[3])
  BY <1>7, <1>9, <1>13, <1>14 DEF Added
<1>16. Append(<<v[2]>>, v[3]) = <<v[2], v[3]>>
  BY AppendValues
<1> QED
  BY <1>7, <1>12, <1>15, <1>16

\* A control packet is read back by its decoder.
LEMMA ControlReads ==
    ASSUME TextsFit, PaddingsFit, NEW kind \in Kinds, NEW packet \in Encode(kind),
           NEW data, Begins(data, packet.bytes), NEW whole \in BOOLEAN,
           whole => data = packet.bytes, ~ whole => Len(data) < Len(packet.bytes)
    PROVE  /\ IsReadBack(kind, packet.args, data, whole, Decode(kind, data))
           /\ \A other \in Kinds \ {kind} : Decode(other, data).status = "error"
<1>1. PICK len, steps, total : /\ steps = Packet[kind].read /\ len = Len(steps)
                               /\ total = Len(Packet[kind].write)
  OBVIOUS
<1>2. data \in Seq(Byte) /\ Len(data) \in Nat /\ Len(data) =< Len(packet.bytes)
      /\ \A j \in 1 .. Len(data) : data[j] = packet.bytes[j]
  BY LenProperties DEF Begins
<1>3. total \in Nat
  BY <1>1, EncoderItems, LenProperties
<1>4. PICK w, v : Chain(w, v, kind, total) /\ w[total] = packet
  BY <1>1, EncodeChain
<1>5. PICK r : /\ r[0] = Cursor(data, 0)
               /\ \A i \in 1 .. len : r[i] = ReadStep(r[i - 1], steps[i])
               /\ Decode(kind, data) = r[len]
  BY <1>1, <1>2, DecodeEnds
<1>6. len \in Nat /\ Decode(kind, data).status \in {"ok", "error"}
  BY <1>1, <1>2, DecodeEnds
<1>7. PICK n, m, k, up :
              /\ Aligned(steps, n, kind, m, k, up)
              /\ kind # "open_connection_request_1" => n = len /\ m = total
              /\ kind = "open_connection_request_1" => n = 4 /\ m = 2 /\ len = 5 /\ total = 3
  BY <1>1, DecodersAligned
<1>8. m \in Nat /\ m =< total /\ n \in Nat /\ n =< len /\ Counts(up, kind, m)
  BY <1>3, <1>6, <1>7 DEF Aligned
<1>9. packet.bytes \in Seq(Byte) /\ Len(packet.bytes) \in Nat
  BY EncodeBytes, LenProperties
<1>10. Starts(w[m].bytes, packet.bytes) /\ Starts(w[0].bytes, packet.bytes) /\ Len(w[m].bytes) \in Nat
  <2> DEFINE zero == [i \in 0 .. total |-> 0]
  <2>1. Counts(zero, kind, total)
    <3>1. \A i \in 1 .. total : Packet[kind].write[i] \in Items
      BY <1>1, EncoderItems, ElementOfSeq
    <3>2. \A i \in 1 .. total : Least(Packet[kind].write[i]) \in Nat
      <4>1. ASSUME NEW i \in 1 .. total PROVE Least(Packet[kind].write[i]) \in Nat
        <5>1. v[i] \in Values(Packet[kind].write[i])
          BY <1>4 DEF Chain
        <5>2. 0 \in Nat
          OBVIOUS
        <5> QED
          BY <3>1, <5>1, <5>2, ItemLeast
      <4> QED
        BY <4>1
    <3>3. zero \in [0 .. total -> Nat] /\ \A i \in 1 .. total : zero[i] = 0 /\ zero[i - 1] = 0
      BY <1>3
    <3> HIDE DEF zero
    <3> QED
      BY <3>2, <3>3 DEF Counts
  <2> HIDE DEF zero
  <2>2. total =< Len(Packet[kind].write)
    BY <1>1, <1>3
  <2>3. /\ \A i \in 0 .. total : w[i].bytes \in Seq(Byte) /\ Len(w[i].bytes) \in Nat
        /\ \A i \in 0 .. total : Starts(w[i].bytes, w[total].bytes)
    BY <1>3, <1>4, <2>1, <2>2, ChainGrows
  <2>4. m \in 0 .. total /\ 0 \in 0 .. total
    BY <1>3, <1>8
  <2> QED
    BY <1>4, <2>3, <2>4
<1>11. Chain(w, v, kind, m)
  <2>1. \A i \in 1 .. m : i \in 1 .. total
    BY <1>3, <1>8
  <2> QED
    BY <1>4, <2>1 DEF Chain
<1>12. Agrees(data, w[m].bytes)
  <2>1. ASSUME NEW j \in 1 .. Len(w[m].bytes), j =< Len(data) PROVE data[j] = w[m].bytes[j]
    <3>1. j \in 1 .. Len(data)
      BY <1>2, <1>10, <2>1
    <3> QED
      BY <1>2, <1>10, <3>1 DEF Starts
  <2> QED
    BY <2>1 DEF Agrees
<1>13. Outcome(r[n], data, Len(w[m].bytes), w[m].args)
  <2>1. \A i \in 1 .. n : i \in 1 .. len
    BY <1>6, <1>8
  <2>2. m =< Len(Packet[kind].write)
    BY <1>1, <1>8
  <2>3. \A i \in 1 .. n : r[i] = ReadStep(r[i - 1], steps[i])
    BY <1>5, <2>1
  <2> QED
    BY <1>2, <1>5, <1>7, <1>8, <1>11, <1>12, <2>2, <2>3, ReadAligned
<1>14. ASSUME NEW other \in Kinds \ {kind} PROVE Decode(other, data).status = "error"
  <2>1. 1 =< Len(data) => data[1] = Packet[kind].id
    <3>1. PICK a, b : a = <<>> /\ b = <<Packet[kind].id>>
      OBVIOUS
    <3>2. Len(b) = 1 /\ b[1] = Packet[kind].id
      BY <3>1
    <3>3. w[0] = [args |-> a, bytes |-> b]
      BY <1>4, <3>1 DEF Chain
    <3>4. packet.bytes[1] = Packet[kind].id
      <4>1. w[0].bytes = b
        BY <3>3
      <4>2. \A j \in 1 .. Len(b) : b[j] = packet.bytes[j]
        BY <1>10, <4>1 DEF Starts
      <4> QED
        BY <3>2, <4>2
    <3>5. 1 =< Len(data) => 1 \in 1 .. Len(data)
      BY <1>2
    <3> QED
      BY <1>2, <3>4, <3>5
  <2> QED
    BY <1>2, <2>1, OtherRefuses
<1>15. CASE kind # "open_connection_request_1"
  <2>1. Outcome(Decode(kind, data), data, Len(packet.bytes), packet.args)
    BY <1>4, <1>5, <1>7, <1>13, <1>15
  <2>2. CASE whole
    <3>1. Len(packet.bytes) =< Len(data)
      BY <1>9, <2>2
    <3>2. Decode(kind, data).status = "ok" /\ Decode(kind, data).out = packet.args
      BY <2>1, <3>1 DEF Outcome, At
    <3> QED
      BY <1>14, <1>15, <2>2, <3>2 DEF IsReadBack
  <2>3. CASE ~ whole
    <3>1. Len(packet.bytes) > Len(data)
      BY <1>2, <1>9, <2>3
    <3>2. Decode(kind, data).status = "error"
      BY <1>6, <2>1, <3>1 DEF Outcome
    <3> QED
      BY <1>14, <1>15, <2>3, <3>2 DEF IsReadBack
  <2> QED
    BY <2>2, <2>3
<1>16. CASE kind = "open_connection_request_1"
  <2>1. n = 4 /\ m = 2 /\ len = 5 /\ total = 3
    BY <1>7, <1>16
  <2>2. /\ Len(w[2].bytes) = 18 /\ w[2].args = <<v[2]>> /\ w[3].args = <<v[2], v[3]>>
        /\ 18 =< Len(w[3].bytes) /\ Len(w[3].bytes) + 28 < 65536
    BY <1>4, <1>16, <2>1, RequestLayout
  <2>3. /\ packet.args = <<v[2], v[3]>> /\ packet.args[1] = v[2]
        /\ 18 =< Len(packet.bytes) /\ Len(packet.bytes) + 28 < 65536
    BY <1>4, <2>1, <2>2
  <2>4. Outcome(r[4], data, 18, <<v[2]>>)
    BY <1>13, <2>1, <2>2
  <2>5. steps[5] = Length
    BY <1>1, <1>16 DEF Packet, OpenConnectionRequest1
  <2>6. r[5] = ReadStep(r[4], Length) /\ Decode(kind, data) = r[5]
    <3>1. 5 \in 1 .. len /\ 5 - 1 = 4
      BY <2>1
    <3> QED
      BY <1>5, <2>1, <2>5, <3>1
  <2>7. CASE 18 =< Len(data)
    <3>1. At(r[4], data, 18) /\ r[4].out = <<v[2]>>
      BY <2>4, <2>7 DEF Outcome
    <3>2. PICK q : q = Len(data) + 28
      OBVIOUS
    <3>3. q % 65536 = q
      <4>1. q \in Nat /\ q < 65536
        BY <1>2, <1>9, <2>3, <3>2
      <4> QED
        BY <4>1
    <3>4. r[5] = Advance(r[4], 0, Append(r[4].out, q % 65536))
      BY <2>6, <3>1, <3>2 DEF ReadStep, At, Length
    <3>5. r[5].status = "ok" /\ r[5].out = Append(<<v[2]>>, q)
      BY <3>1, <3>3, <3>4 DEF Advance, At
    <3>6. Append(<<v[2]>>, q) = <<v[2], q>>
      BY AppendValues
    <3>7. Decode(kind, data).status = "ok" /\ Decode(kind, data).out = <<packet.args[1], Len(data) + 28>>
      BY <2>3, <2>6, <3>2, <3>5, <3>6
    <3>8. Len(data) >= 1 + 16 + 1
      BY <1>2, <2>7
    <3> QED
      BY <1>14, <1>16, <3>7, <3>8 DEF IsReadBack
  <2>8. CASE ~ (18 =< Len(data))
    <3>1. 18 > Len(data) /\ ~ (Len(data) >= 1 + 16 + 1) /\ ~ whole
      BY <1>2, <1>9, <2>3, <2>8
    <3>2. r[4].status # "ok"
      BY <2>4, <3>1 DEF Outcome
    <3>3. Decode(kind, data).status = "error"
      BY <1>6, <2>6, <3>2, Failed
    <3> QED
      BY <1>14, <3>1, <3>3 DEF IsReadBack
  <2> QED
    BY <2>7, <2>8
<1> QED
  BY <1>15, <1>16

\* What the endpoints say to each other outside the datagrams arrives: every
\* control packet is decoded to what was encoded, cut short anywhere it is
\* refused, and no decoder takes a packet of another kind for its own, for all
\* values of the fields, all addresses, and pong data and padding of any size
\* their 16-bit lengths can tell.
THEOREM PacketsRead ==
    ASSUME TextsFit, PaddingsFit
    PROVE  Spec => []PacketsReadBack
<1>1. Inv => PacketsReadBack
  <2> SUFFICES ASSUME Inv, NEW i \in InFlight(Kinds)
               PROVE  /\ IsReadBack(wire[i].kind, wire[i].args, wire[i].bytes, wire[i].whole,
                                    Decode(wire[i].kind, wire[i].bytes))
                      /\ \A other \in Kinds \ {wire[i].kind} : Decode(other, wire[i].bytes).status = "error"
    BY DEF PacketsReadBack
  <2>1. i \in DOMAIN wire /\ wire[i].kind \in Kinds /\ wire # <<>> /\ i = 1
    BY WireBytes DEF InFlight, Inv
  <2>2. PICK kind, args, full, bytes, whole :
          /\ Origin(kind, args, full)
          /\ Arrived(full, bytes, whole)
          /\ wire = <<[kind |-> kind, args |-> args, bytes |-> bytes, whole |-> whole]>>
    BY <2>1 DEF Inv, WireInv
  <2>3. /\ wire[i].kind = kind /\ wire[i].args = args /\ wire[i].bytes = bytes
        /\ wire[i].whole = whole
    BY <2>1, <2>2
  <2>4. PICK packet \in Encode(kind) : args = packet.args /\ full = packet.bytes
    <3>1. kind \in Kinds /\ kind # "ack" /\ kind # "datagram"
      BY <2>1, <2>3, KindsAre
    <3> QED
      BY <2>2, <3>1 DEF Origin
  <2>5. full \in Seq(Byte)
    BY <2>2, OriginBytes
  <2>6. /\ Begins(bytes, full) /\ whole \in BOOLEAN
        /\ whole => bytes = full
        /\ ~ whole => Len(bytes) < Len(full)
    BY <2>2, <2>5, ArrivedBegins
  <2>7. /\ IsReadBack(kind, args, bytes, whole, Decode(kind, bytes))
        /\ \A other \in Kinds \ {kind} : Decode(other, bytes).status = "error"
    BY <2>1, <2>3, <2>4, <2>6, ControlReads
  <2> QED
    BY <2>3, <2>7
<1> QED
  BY <1>1, Invariance, PTL

(***************************************************************************)
(* Frames and datagrams.                                                   *)
(*                                                                         *)
(* Reads pairs the steps of a decoder with the parts they read.  A frame is *)
(* read back from any place in the data that holds it (FrameReads), the    *)
(* frame loop reads one frame after the other (Reached), and the sequence  *)
(* number in front of the first is a frame with an empty payload.          *)
(***************************************************************************)

\* Flattening one list behind another.
LEMMA FlattenConcat ==
    ASSUME NEW S, NEW a \in Seq(Seq(S)), NEW b \in Seq(Seq(S))
    PROVE  FlattenSeq(a \o b) = FlattenSeq(a) \o FlattenSeq(b)
<1>1. PICK s, m, n : s = a \o b /\ m = Len(a) /\ n = Len(b)
  OBVIOUS
<1>2. /\ s \in Seq(Seq(S)) /\ Len(s) = m + n /\ m \in Nat /\ n \in Nat
      /\ \A j \in 1 .. m : s[j] = a[j]
      /\ \A j \in 1 .. n : s[m + j] = b[j]
  BY <1>1, Concatenation
<1>3. PICK h : /\ h[0] = << >>
               /\ \A i \in 1 .. m : h[i] = h[i - 1] \o a[i]
               /\ FlattenSeq(a) = h[m]
  BY <1>1, FlattenSeqLoop
<1>4. PICK k : /\ k[0] = << >>
               /\ \A i \in 1 .. n : k[i] = k[i - 1] \o b[i]
               /\ FlattenSeq(b) = k[n]
  BY <1>1, FlattenSeqLoop
<1>5. PICK g : /\ g[0] = << >>
               /\ \A i \in 1 .. m + n : g[i] = g[i - 1] \o s[i]
               /\ FlattenSeq(s) = g[m + n]
  <2>1. \E g : /\ g[0] = << >>
               /\ \A i \in 1 .. Len(s) : g[i] = g[i - 1] \o s[i]
               /\ FlattenSeq(s) = g[Len(s)]
    BY <1>2, FlattenSeqLoop
  <2> QED
    BY <1>2, <2>1
<1>6. g[m] = h[m] /\ h[m] \in Seq(S)
  <2> DEFINE E == {i \in 0 .. m : g[i] = h[i]}
  <2>1. 0 \in E
    BY <1>2, <1>3, <1>5
  <2>2. ASSUME NEW i \in 0 .. m - 1, i \in E PROVE i + 1 \in E
    <3>1. i + 1 \in 1 .. m /\ i + 1 \in 1 .. m + n /\ (i + 1) - 1 = i
      BY <1>2
    <3>2. g[i + 1] = g[i] \o s[i + 1] /\ h[i + 1] = h[i] \o a[i + 1] /\ s[i + 1] = a[i + 1]
      BY <1>2, <1>3, <1>5, <3>1
    <3>3. g[i] = h[i]
      BY <2>2
    <3>4. g[i + 1] = h[i + 1]
      BY <3>2, <3>3, Zenon
    <3> QED
      BY <3>1, <3>4
  <2> HIDE DEF E
  <2>3. \A i \in 0 .. m : i \in E
    BY <1>2, <2>1, <2>2, UpTo
  <2>4. m \in 0 .. m /\ g[m] = h[m]
    <3>1. m \in 0 .. m
      BY <1>2
    <3> QED
      BY <2>3, <3>1, Zenon DEF E
  <2>5. h[m] \in Seq(S)
    BY <1>3, FlattenSeqProperty
  <2> QED
    BY <2>4, <2>5
<1>7. g[m + n] = h[m] \o k[n]
  <2> DEFINE E == {i \in 0 .. n : k[i] \in Seq(S) /\ g[m + i] = h[m] \o k[i]}
  <2>1. 0 \in E
    <3>1. <<>> \in Seq(S) /\ h[m] \o <<>> = h[m]
      BY <1>6, EmptySeq, ConcatEmptySeq
    <3>2. m + 0 = m /\ 0 \in 0 .. n
      BY <1>2
    <3> QED
      BY <1>4, <1>6, <3>1, <3>2
  <2>2. ASSUME NEW i \in 0 .. n - 1, i \in E PROVE i + 1 \in E
    <3>0. m \in Nat /\ n \in Nat
      BY <1>2
    <3>1. /\ i + 1 \in 1 .. n /\ m + (i + 1) \in 1 .. m + n /\ (i + 1) - 1 = i
          /\ (m + (i + 1)) - 1 = m + i
      BY <3>0
    <3>2. /\ g[m + (i + 1)] = g[m + i] \o s[m + (i + 1)]
          /\ k[i + 1] = k[i] \o b[i + 1] /\ s[m + (i + 1)] = b[i + 1]
      BY <1>2, <1>4, <1>5, <3>1
    <3>3. b[i + 1] \in Seq(S)
      BY <1>1, <3>1, ElementOfSeq
    <3>4. k[i] \in Seq(S) /\ g[m + i] = h[m] \o k[i]
      BY <2>2
    <3>5. k[i + 1] \in Seq(S)
      BY <3>2, <3>3, <3>4, Concatenation
    <3>6. (h[m] \o k[i]) \o b[i + 1] = h[m] \o (k[i] \o b[i + 1])
      <4>1. PICK x, y, z : x = h[m] /\ y = k[i] /\ z = b[i + 1]
        OBVIOUS
      <4>2. x \in Seq(S) /\ y \in Seq(S) /\ z \in Seq(S)
        BY <1>6, <3>3, <3>4, <4>1
      <4>3. (x \o y) \o z = x \o (y \o z)
        BY <4>2, ConcatAssociative
      <4> QED
        BY <4>1, <4>3, Zenon
    <3>7. g[m + (i + 1)] = h[m] \o k[i + 1]
      BY <3>2, <3>4, <3>6, Zenon
    <3>8. i + 1 \in 0 .. n
      BY <3>1
    <3> QED
      BY <3>5, <3>7, <3>8, Zenon
  <2> HIDE DEF E
  <2>3. \A i \in 0 .. n : i \in E
    BY <1>2, <2>1, <2>2, UpTo
  <2>4. n \in 0 .. n
    BY <1>2
  <2> QED
    BY <2>3, <2>4, Zenon DEF E
<1> QED
  BY <1>1, <1>3, <1>4, <1>5, <1>7

\* Flattening no list, and one.
LEMMA FlattenOne ==
    ASSUME NEW S, NEW x \in Seq(S)
    PROVE  FlattenSeq(<<>>) = <<>> /\ FlattenSeq(<<x>>) = x
<1>1. FlattenSeq(<<>>) = <<>>
  BY DEF FlattenSeq
<1>2. FlattenSeq(<<x>>) = x
  <2>1. PICK s : s = <<x>>
    OBVIOUS
  <2>2. s \in Seq(Seq(S)) /\ Len(s) = 1 /\ s[1] = x
    <3>1. PICK T : T = Seq(S)
      OBVIOUS
    <3>2. s \in Seq(T)
      BY <2>1, <3>1
    <3> QED
      BY <2>1, <3>1, <3>2
  <2>3. PICK h : /\ h[0] = << >>
                 /\ \A i \in 1 .. Len(s) : h[i] = h[i - 1] \o s[i]
                 /\ FlattenSeq(s) = h[Len(s)]
    BY <2>2, FlattenSeqLoop
  <2>4. FlattenSeq(s) = <<>> \o x
    <3>1. 1 \in 1 .. 1 /\ 1 - 1 = 0
      OBVIOUS
    <3> QED
      BY <2>2, <2>3, <3>1, Zenon
  <2> QED
    BY <2>1, <2>4, ConcatEmptySeq
<1> QED
  BY <1>1, <1>2

\* Reading one list of steps behind another.
LEMMA ReadConcat ==
    ASSUME NEW c, NEW S, NEW s \in Seq(S), NEW t \in Seq(S)
    PROVE  Read(c, s \o t) = Read(Read(c, s), t)
<1>1. PICK u, m, n : u = s \o t /\ m = Len(s) /\ n = Len(t)
  OBVIOUS
<1>2. /\ u \in Seq(S) /\ Len(u) = m + n /\ m \in Nat /\ n \in Nat
      /\ \A j \in 1 .. m : u[j] = s[j]
      /\ \A j \in 1 .. n : u[m + j] = t[j]
  BY <1>1, Concatenation
<1>3. PICK h : /\ h[0] = c
               /\ \A i \in 1 .. m : h[i] = ReadStep(h[i - 1], s[i])
               /\ Read(c, s) = h[m]
  BY <1>1, <1>2, ReadTurns
<1>4. PICK k : /\ k[0] = h[m]
               /\ \A i \in 1 .. n : k[i] = ReadStep(k[i - 1], t[i])
               /\ Read(h[m], t) = k[n]
  <2>1. PICK d : d = h[m]
    OBVIOUS
  <2>2. \E k : /\ k[0] = d
               /\ \A i \in 1 .. n : k[i] = ReadStep(k[i - 1], t[i])
               /\ Read(d, t) = k[n]
    <3>1. Len(t) \in Nat
      BY <1>1, <1>2
    <3>2. \E k : /\ k[0] = d
                 /\ \A i \in 1 .. Len(t) : k[i] = ReadStep(k[i - 1], t[i])
                 /\ Read(d, t) = k[Len(t)]
      BY <3>1, ReadTurns
    <3> QED
      BY <1>1, <3>2
  <2> QED
    BY <2>1, <2>2
<1>5. PICK g : /\ g[0] = c
               /\ \A i \in 1 .. m + n : g[i] = ReadStep(g[i - 1], u[i])
               /\ Read(c, u) = g[m + n]
  <2>1. Len(u) \in Nat
    BY <1>2
  <2>2. \E g : /\ g[0] = c
               /\ \A i \in 1 .. Len(u) : g[i] = ReadStep(g[i - 1], u[i])
               /\ Read(c, u) = g[Len(u)]
    BY <2>1, ReadTurns
  <2> QED
    BY <1>2, <2>2
<1>6. g[m] = h[m]
  <2> DEFINE E == {i \in 0 .. m : g[i] = h[i]}
  <2>1. 0 \in E
    BY <1>2, <1>3, <1>5
  <2>2. ASSUME NEW i \in 0 .. m - 1, i \in E PROVE i + 1 \in E
    <3>1. i + 1 \in 1 .. m /\ i + 1 \in 1 .. m + n /\ (i + 1) - 1 = i
      BY <1>2
    <3>2. g[i + 1] = ReadStep(g[i], u[i + 1]) /\ h[i + 1] = ReadStep(h[i], s[i + 1]) /\ u[i + 1] = s[i + 1]
      BY <1>2, <1>3, <1>5, <3>1
    <3> QED
      BY <2>2, <3>1, <3>2
  <2> HIDE DEF E
  <2>3. \A i \in 0 .. m : i \in E
    BY <1>2, <2>1, <2>2, UpTo
  <2> QED
    BY <1>2, <2>3 DEF E
<1>7. g[m + n] = k[n]
  <2> DEFINE E == {i \in 0 .. n : g[m + i] = k[i]}
  <2>1. 0 \in E
    <3>2. m + 0 = m /\ 0 \in 0 .. n
      BY <1>2
    <3> QED
      BY <1>4, <1>6, <3>2
  <2>2. ASSUME NEW i \in 0 .. n - 1, i \in E PROVE i + 1 \in E
    <3>0. m \in Nat /\ n \in Nat
      BY <1>2
    <3>1. /\ i + 1 \in 1 .. n /\ m + (i + 1) \in 1 .. m + n /\ (i + 1) - 1 = i
          /\ (m + (i + 1)) - 1 = m + i
      BY <3>0
    <3>2. /\ g[m + (i + 1)] = ReadStep(g[m + i], u[m + (i + 1)])
          /\ k[i + 1] = ReadStep(k[i], t[i + 1]) /\ u[m + (i + 1)] = t[i + 1]
      BY <1>2, <1>4, <1>5, <3>1
    <3> QED
      BY <2>2, <3>1, <3>2
  <2> HIDE DEF E
  <2>3. \A i \in 0 .. n : i \in E
    BY <1>2, <2>1, <2>2, UpTo
  <2>4. n \in 0 .. n
    BY <1>2
  <2> QED
    BY <2>3, <2>4, Zenon DEF E
<1> QED
  BY <1>1, <1>3, <1>4, <1>5, <1>7

\* The steps read the parts back, from wherever they stand.
Reads(steps, parts) ==
    /\ steps \in Seq(Steps)
    /\ parts \in Seq(Seq(Byte))
    /\ \A data \in Seq(Byte) : \A p \in 0 .. Len(data) : \A c :
          At(c, data, p) /\ c.out \in Seq(Seq(Byte)) /\ Follows(data, p, FlattenSeq(parts)) =>
             Outcome(Read(c, steps), data, p + Len(FlattenSeq(parts)), c.out \o parts)

\* Reading on from a cursor that has failed.
LEMMA ReadFailed ==
    ASSUME NEW c, c.status # "ok", NEW S, NEW steps \in Seq(S)
    PROVE  Read(c, steps).status # "ok"
<1>1. Len(steps) \in Nat
  BY LenProperties
<1>2. PICK r : /\ r[0] = c
               /\ \A i \in 1 .. Len(steps) : r[i] = ReadStep(r[i - 1], steps[i])
               /\ Read(c, steps) = r[Len(steps)]
  BY <1>1, ReadTurns
<1>3. PICK n : n = Len(steps)
  OBVIOUS
<1>4. 0 \in 0 .. n /\ n \in Nat
  BY <1>1, <1>3
<1>5. r[0].status # "ok"
  BY <1>2
<1>6. r[n].status # "ok"
  BY <1>2, <1>3, <1>4, <1>5, StaysFailed, Zenon
<1> QED
  BY <1>2, <1>3, <1>6

\* No steps and no parts.
LEMMA ReadsNone == Reads(<<>>, <<>>)
<1>1. FlattenSeq(<<>>) = <<>> /\ Len(<<>>) = 0
  <2>1. FlattenSeq(<<>>) = <<>>
    BY DEF FlattenSeq
  <2> QED
    BY <2>1
<1>2. <<>> \in Seq(Steps) /\ <<>> \in Seq(Seq(Byte))
  BY EmptySeq
<1>3. ASSUME NEW c PROVE Read(c, <<>>) = c
  <2>1. PICK s : s = <<>>
    OBVIOUS
  <2>2. Len(s) = 0 /\ Len(s) \in Nat
    BY <2>1
  <2>3. PICK r : r[0] = c /\ Read(c, s) = r[Len(s)]
    BY <2>2, ReadTurns
  <2> QED
    BY <2>1, <2>2, <2>3
<1>4. ASSUME NEW data \in Seq(Byte), NEW p \in 0 .. Len(data), NEW c,
             At(c, data, p), c.out \in Seq(Seq(Byte))
      PROVE  Outcome(Read(c, <<>>), data, p + Len(FlattenSeq(<<>>)), c.out \o <<>>)
  <2>1. c.out \o <<>> = c.out
    BY <1>4, ConcatEmptySeq
  <2>2. Len(data) \in Nat /\ p \in Nat /\ p =< Len(data)
    BY LenProperties
  <2>3. p + Len(FlattenSeq(<<>>)) = p /\ ~ (p > Len(data))
    BY <1>1, <2>2
  <2>4. Outcome(c, data, p, c.out)
    BY <1>4, <2>2, <2>3 DEF Outcome
  <2> QED
    BY <1>3, <2>1, <2>3, <2>4
<1> QED
  BY <1>2, <1>4 DEF Reads

\* One byte string.
LEMMA ReadsBytes ==
    ASSUME NEW n \in Nat, NEW b, IsBytes(b, n)
    PROVE  Reads(<<Bytes(n)>>, <<b>>)
<1>1. b \in Seq(Byte) /\ Len(b) = n
  BY DEF IsBytes
<1>2. FlattenSeq(<<b>>) = b
  BY <1>1, FlattenOne
<1>3. PICK s : s = Bytes(n)
  OBVIOUS
<1>4. s \in Steps
  BY <1>3 DEF Bytes, Steps, StepOps
<1>5. <<s>> \in Seq(Steps)
  BY <1>4
<1>6. <<b>> \in Seq(Seq(Byte))
  <2>1. PICK T : T = Seq(Byte)
    OBVIOUS
  <2>2. <<b>> \in Seq(T)
    BY <1>1, <2>1
  <2> QED
    BY <2>1, <2>2
<1>7. ASSUME NEW c PROVE Read(c, <<s>>) = ReadStep(c, s)
  <2>1. PICK t : t = <<s>>
    OBVIOUS
  <2>2. Len(t) = 1 /\ t[1] = s /\ Len(t) \in Nat
    BY <2>1
  <2>3. PICK r : /\ r[0] = c
                 /\ \A i \in 1 .. Len(t) : r[i] = ReadStep(r[i - 1], t[i])
                 /\ Read(c, t) = r[Len(t)]
    BY <2>2, ReadTurns
  <2>4. r[1] = ReadStep(r[0], t[1])
    BY <2>2, <2>3
  <2> QED
    BY <2>1, <2>2, <2>3, <2>4
<1>8. ASSUME NEW data \in Seq(Byte), NEW p \in 0 .. Len(data), NEW c,
             At(c, data, p), c.out \in Seq(Seq(Byte)), Follows(data, p, b)
      PROVE  Outcome(Read(c, <<s>>), data, p + Len(b), c.out \o <<b>>)
  <2>1. Outcome(ReadStep(c, Bytes(n)), data, p + n, Append(c.out, b))
    BY <1>8, TakeReads
  <2>2. Append(c.out, b) = c.out \o <<b>>
    <3>1. PICK T : T = Seq(Byte)
      OBVIOUS
    <3>2. PICK o : o = c.out
      OBVIOUS
    <3>3. o \in Seq(T) /\ b \in T
      BY <1>1, <1>8, <3>1, <3>2
    <3>4. Append(o, b) = o \o <<b>>
      BY <3>3, AppendIsConcat
    <3> QED
      BY <3>2, <3>4
  <2> QED
    BY <1>1, <1>3, <1>7, <2>1, <2>2
<1> QED
  BY <1>2, <1>3, <1>5, <1>6, <1>8 DEF Reads

\* What follows in two pieces.
LEMMA FollowsBoth ==
    ASSUME NEW data \in Seq(Byte), NEW p \in Nat, NEW a \in Seq(Byte), NEW b \in Seq(Byte),
           Follows(data, p, a \o b)
    PROVE  Follows(data, p, a) /\ Follows(data, p + Len(a), b)
<1>1. PICK m, n, s : m = Len(a) /\ n = Len(b) /\ s = a \o b
  OBVIOUS
<1>2. /\ Len(s) = m + n /\ m \in Nat /\ n \in Nat
      /\ \A j \in 1 .. m : s[j] = a[j]
      /\ \A j \in 1 .. n : s[m + j] = b[j]
  BY <1>1, Concatenation
<1>3. \A j \in 1 .. m + n : p + j =< Len(data) => data[p + j] = s[j]
  BY <1>1, <1>2 DEF Follows
<1>4. ASSUME NEW j \in 1 .. m, p + j =< Len(data) PROVE data[p + j] = a[j]
  BY <1>2, <1>3, <1>4
<1>5. ASSUME NEW j \in 1 .. n, (p + m) + j =< Len(data) PROVE data[(p + m) + j] = b[j]
  <2>1. m + j \in 1 .. m + n /\ p + (m + j) = (p + m) + j
    BY <1>2
  <2>2. p + (m + j) =< Len(data) => data[p + (m + j)] = s[m + j]
    BY <1>3, <2>1
  <2> QED
    BY <1>2, <1>5, <2>1, <2>2
<1> QED
  BY <1>1, <1>4, <1>5 DEF Follows

\* One list of steps behind another reads one list of parts behind another.
LEMMA ReadsBoth ==
    ASSUME NEW s, NEW a, NEW t, NEW b, Reads(s, a), Reads(t, b)
    PROVE  Reads(s \o t, a \o b)
<1>1. s \in Seq(Steps) /\ t \in Seq(Steps) /\ a \in Seq(Seq(Byte)) /\ b \in Seq(Seq(Byte))
  BY DEF Reads
<1>2. s \o t \in Seq(Steps) /\ a \o b \in Seq(Seq(Byte))
  BY <1>1, Concatenation
<1>3. FlattenSeq(a \o b) = FlattenSeq(a) \o FlattenSeq(b)
  BY <1>1, FlattenConcat
<1>4. PICK x, y, z : x = FlattenSeq(a) /\ y = FlattenSeq(b) /\ z = FlattenSeq(a \o b)
  OBVIOUS
<1>5. x \in Seq(Byte) /\ y \in Seq(Byte) /\ z = x \o y
  BY <1>1, <1>3, <1>4, FlattenSeqProperty
<1>6. Len(z) = Len(x) + Len(y) /\ Len(x) \in Nat /\ Len(y) \in Nat
  BY <1>5, Concatenation
<1>7. ASSUME NEW data \in Seq(Byte), NEW p \in 0 .. Len(data), NEW c,
             At(c, data, p), c.out \in Seq(Seq(Byte)), Follows(data, p, z)
      PROVE  Outcome(Read(c, s \o t), data, p + Len(z), c.out \o (a \o b))
  <2>1. PICK d, q, o : d = Read(c, s) /\ q = p + Len(x) /\ o = c.out \o a
    OBVIOUS
  <2>2. Read(c, s \o t) = Read(d, t)
    BY <1>1, <2>1, ReadConcat
  <2>3. Len(data) \in Nat /\ p \in Nat /\ p =< Len(data)
    BY LenProperties
  <2>4. Follows(data, p, x) /\ Follows(data, q, y)
    BY <1>5, <1>7, <2>1, <2>3, FollowsBoth
  <2>5. Outcome(d, data, q, o)
    BY <1>4, <1>7, <2>1, <2>4 DEF Reads
  <2>6. p + Len(z) = q + Len(y) /\ q \in Nat
    BY <1>6, <2>1, <2>3
  <2>7. c.out \o (a \o b) = o \o b /\ o \in Seq(Seq(Byte))
    <3>1. PICK T, u : T = Seq(Byte) /\ u = c.out
      OBVIOUS
    <3>2. u \in Seq(T) /\ a \in Seq(T) /\ b \in Seq(T)
      BY <1>1, <1>7, <3>1
    <3>3. (u \o a) \o b = u \o (a \o b) /\ u \o a \in Seq(T)
      BY <3>2, ConcatAssociative, Concatenation
    <3> QED
      BY <2>1, <3>1, <3>3, Zenon
  <2>8. CASE q =< Len(data)
    <3>1. At(d, data, q) /\ d.out = o
      BY <2>5, <2>8 DEF Outcome
    <3>2. q \in 0 .. Len(data)
      BY <2>3, <2>6, <2>8
    <3>3. Outcome(Read(d, t), data, q + Len(y), d.out \o b)
      <4>1. d.out \in Seq(Seq(Byte))
        BY <2>7, <3>1
      <4> QED
        BY <1>4, <2>4, <3>1, <3>2, <4>1 DEF Reads
    <3> QED
      BY <2>2, <2>6, <2>7, <3>1, <3>3
  <2>9. CASE q > Len(data)
    <3>1. d.status # "ok"
      BY <2>5, <2>9 DEF Outcome
    <3>2. Read(d, t).status # "ok"
      BY <1>1, <3>1, ReadFailed
    <3>3. p + Len(z) > Len(data) /\ ~ (p + Len(z) =< Len(data))
      BY <1>6, <2>3, <2>6, <2>9
    <3> QED
      BY <2>2, <3>2, <3>3 DEF Outcome
  <2> QED
    BY <2>3, <2>6, <2>8, <2>9
<1> QED
  BY <1>2, <1>4, <1>7 DEF Reads

\* The length check in front of the steps asks for what they read.
LEMMA ReadsNeeded ==
    ASSUME NEW s, NEW a, Reads(s, a), NEW n \in Nat, n = Len(FlattenSeq(a))
    PROVE  Reads(<<Need(n)>> \o s, a)
<1>1. s \in Seq(Steps) /\ a \in Seq(Seq(Byte))
  BY DEF Reads
<1>2. PICK need : need = Need(n)
  OBVIOUS
<1>3. need \in Steps
  BY <1>2 DEF Need, Steps, StepOps
<1>4. <<need>> \in Seq(Steps)
  BY <1>3
<1>5. <<need>> \o s \in Seq(Steps)
  BY <1>1, <1>4, Concatenation
<1>6. ASSUME NEW c PROVE Read(c, <<need>> \o s) = Read(ReadStep(c, need), s)
  <2>1. PICK t : t = <<need>>
    OBVIOUS
  <2>2. Len(t) = 1 /\ t[1] = need /\ Len(t) \in Nat
    BY <2>1
  <2>3. PICK r : /\ r[0] = c
                 /\ \A i \in 1 .. Len(t) : r[i] = ReadStep(r[i - 1], t[i])
                 /\ Read(c, t) = r[Len(t)]
    BY <2>2, ReadTurns
  <2>4. r[1] = ReadStep(r[0], t[1])
    BY <2>2, <2>3
  <2>5. Read(c, <<need>>) = ReadStep(c, need)
    BY <2>1, <2>2, <2>3, <2>4
  <2>6. Read(c, <<need>> \o s) = Read(Read(c, <<need>>), s)
    <3>1. t \in Seq(Steps)
      BY <1>4, <2>1
    <3>2. Read(c, t \o s) = Read(Read(c, t), s)
      BY <1>1, <3>1, ReadConcat
    <3> QED
      BY <2>1, <3>2
  <2> QED
    BY <2>5, <2>6, Zenon
<1>7. ASSUME NEW data \in Seq(Byte), NEW p \in 0 .. Len(data), NEW c,
             At(c, data, p), c.out \in Seq(Seq(Byte)), Follows(data, p, FlattenSeq(a))
      PROVE  Outcome(Read(c, <<need>> \o s), data, p + Len(FlattenSeq(a)), c.out \o a)
  <2>1. PICK d : d = ReadStep(c, need)
    OBVIOUS
  <2>2. /\ p + n =< Len(data) => d = c
        /\ p + n > Len(data) => d.status = "error"
    BY <1>2, <1>7, <2>1, Field, Zenon
  <2>3. Outcome(Read(c, s), data, p + n, c.out \o a)
    BY <1>7 DEF Reads
  <2>4. Len(data) \in Nat /\ p \in Nat
    BY LenProperties
  <2>5. CASE p + n =< Len(data)
    BY <1>6, <2>1, <2>2, <2>3, <2>5
  <2>6. CASE p + n > Len(data)
    <3>1. Read(d, s).status # "ok"
      BY <1>1, <2>2, <2>6, ReadFailed
    <3>2. ~ (p + n =< Len(data))
      BY <2>4, <2>6
    <3> QED
      BY <1>6, <2>1, <2>6, <3>1, <3>2 DEF Outcome
  <2> QED
    BY <2>4, <2>5, <2>6
<1> QED
  BY <1>1, <1>2, <1>5, <1>7 DEF Reads

\* Parts that may be left out, with the steps that read them.
LEMMA ReadsOptional ==
    ASSUME NEW condition, NEW s, NEW a, Reads(s, a)
    PROVE  Reads(Optional(condition, s), Optional(condition, a))
BY ReadsNone DEF Optional

\* Short tuples, one behind the other.
Prepended(a, b, c, d) ==
    /\ <<a>> \o <<b>> = <<a, b>>
    /\ <<a>> \o <<b, c>> = <<a, b, c>>
    /\ <<a>> \o <<b, c, d>> = <<a, b, c, d>>

\* These are the tuples.
LEMMA Tuples ==
    ASSUME NEW a, NEW b, NEW c, NEW d
    PROVE  Prepended(a, b, c, d)
<1>1. PICK S : S = {a, b, c, d}
  OBVIOUS
<1>2. a \in S /\ b \in S /\ c \in S /\ d \in S
  BY <1>1
<1>3. <<a>> \in Seq(S) /\ Len(<<a>>) = 1 /\ <<a>>[1] = a
  BY <1>2
<1>4. ASSUME NEW t \in Seq(S), NEW u \in Seq(S), Len(u) = Len(t) + 1, u[1] = a,
             \A i \in 1 .. Len(t) : u[1 + i] = t[i]
      PROVE  <<a>> \o t = u
  <2>1. PICK s, v, n : s = <<a>> /\ v = s \o t /\ n = Len(t)
    OBVIOUS
  <2>2. s \in Seq(S) /\ Len(s) = 1 /\ s[1] = a
    BY <1>3, <2>1
  <2>3. /\ v \in Seq(S) /\ Len(v) = Len(s) + n /\ n \in Nat
        /\ \A j \in 1 .. Len(s) : v[j] = s[j]
        /\ \A j \in 1 .. n : v[Len(s) + j] = t[j]
    BY <2>1, <2>2, Concatenation
  <2>4. Len(v) = Len(u) /\ Len(u) = n + 1
    BY <1>4, <2>1, <2>2, <2>3
  <2>5. ASSUME NEW i \in 1 .. Len(u) PROVE v[i] = u[i]
    <3>1. CASE i = 1
      BY <1>4, <2>2, <2>3, <3>1
    <3>2. CASE i # 1
      <4>1. i - 1 \in 1 .. n /\ 1 + (i - 1) = i
        BY <2>3, <2>4, <3>2
      <4>2. v[1 + (i - 1)] = t[i - 1] /\ u[1 + (i - 1)] = t[i - 1]
        BY <1>4, <2>1, <2>2, <2>3, <4>1
      <4> QED
        BY <4>1, <4>2
    <3> QED
      BY <3>1, <3>2
  <2>6. v = u
    BY <2>3, <2>4, <2>5, SeqEqual
  <2> QED
    BY <2>1, <2>6
<1>5. <<a>> \o <<b>> = <<a, b>>
  <2>1. PICK t, u : t = <<b>> /\ u = <<a, b>>
    OBVIOUS
  <2>2. t \in Seq(S) /\ u \in Seq(S) /\ Len(t) = 1 /\ Len(u) = 2 /\ t[1] = b /\ u[1] = a /\ u[2] = b
    BY <1>2, <2>1
  <2>3. Len(u) = Len(t) + 1 /\ \A i \in 1 .. Len(t) : u[1 + i] = t[i]
    BY <2>2
  <2> QED
    BY <1>4, <2>1, <2>2, <2>3
<1>6. <<a>> \o <<b, c>> = <<a, b, c>>
  <2>1. PICK t, u : t = <<b, c>> /\ u = <<a, b, c>>
    OBVIOUS
  <2>2. /\ t \in Seq(S) /\ u \in Seq(S) /\ Len(t) = 2 /\ Len(u) = 3
        /\ t[1] = b /\ t[2] = c /\ u[1] = a /\ u[2] = b /\ u[3] = c
    BY <1>2, <2>1
  <2>3. Len(u) = Len(t) + 1 /\ \A i \in 1 .. Len(t) : u[1 + i] = t[i]
    BY <2>2
  <2> QED
    BY <1>4, <2>1, <2>2, <2>3
<1>7. <<a>> \o <<b, c, d>> = <<a, b, c, d>>
  <2>1. PICK t, u : t = <<b, c, d>> /\ u = <<a, b, c, d>>
    OBVIOUS
  <2>2. /\ t \in Seq(S) /\ u \in Seq(S) /\ Len(t) = 3 /\ Len(u) = 4
        /\ t[1] = b /\ t[2] = c /\ t[3] = d /\ u[1] = a /\ u[2] = b /\ u[3] = c /\ u[4] = d
    BY <1>2, <2>1
  <2>3. Len(u) = Len(t) + 1 /\ \A i \in 1 .. Len(t) : u[1 + i] = t[i]
    BY <2>2
  <2> QED
    BY <1>4, <2>1, <2>2, <2>3
<1> QED
  BY <1>5, <1>6, <1>7, Zenon DEF Prepended

\* A byte string behind its length check.
LEMMA ReadsField ==
    ASSUME NEW n \in Nat, NEW b, IsBytes(b, n)
    PROVE  Reads(<<Need(n), Bytes(n)>>, <<b>>)
<1>1. b \in Seq(Byte) /\ Len(b) = n
  BY DEF IsBytes
<1>2. n = Len(FlattenSeq(<<b>>))
  BY <1>1, FlattenOne
<1>3. PICK s, t, p : s = Need(n) /\ t = Bytes(n) /\ p = <<b>>
  OBVIOUS
<1>4. Reads(<<t>>, p)
  BY <1>3, ReadsBytes
<1>5. Reads(<<s>> \o <<t>>, p)
  BY <1>2, <1>3, <1>4, ReadsNeeded
<1>6. <<s>> \o <<t>> = <<s, t>>
  BY Tuples, Zenon DEF Prepended
<1> QED
  BY <1>3, <1>5, <1>6, Zenon

\* Two byte strings, with a length check for both and without.
ReadsPair(m, n, k, a, b) ==
    /\ Reads(<<Need(k), Bytes(m), Bytes(n)>>, <<a, b>>)
    /\ Reads(<<Bytes(m), Bytes(n)>>, <<a, b>>)
    /\ Len(FlattenSeq(<<a, b>>)) = k

\* Two byte strings behind the length check for both.
LEMMA ReadsTwo ==
    ASSUME NEW m \in Nat, NEW n \in Nat, NEW k \in Nat, k = m + n, NEW a, NEW b,
           IsBytes(a, m), IsBytes(b, n)
    PROVE  ReadsPair(m, n, k, a, b)
<1>1. a \in Seq(Byte) /\ Len(a) = m /\ b \in Seq(Byte) /\ Len(b) = n
  BY DEF IsBytes
<1>2. PICK s, t, u, p, q : /\ s = Need(k) /\ t = Bytes(m) /\ u = Bytes(n)
                           /\ p = <<a>> /\ q = <<b>>
  OBVIOUS
<1>3. Reads(<<t>>, p) /\ Reads(<<u>>, q)
  BY <1>2, ReadsBytes
<1>4. Reads(<<t>> \o <<u>>, p \o q)
  BY <1>3, ReadsBoth
<1>5. <<t>> \o <<u>> = <<t, u>> /\ <<s>> \o <<t, u>> = <<s, t, u>> /\ p \o q = <<a, b>>
  <2>1. Prepended(t, u, u, u) /\ Prepended(s, t, u, u) /\ Prepended(a, b, b, b)
    BY Tuples, Zenon
  <2> QED
    BY <1>2, <2>1, Zenon DEF Prepended
<1>6. Reads(<<t, u>>, <<a, b>>)
  BY <1>4, <1>5, Zenon
<1>7. FlattenSeq(p \o q) = a \o b
  <2>1. p \in Seq(Seq(Byte)) /\ q \in Seq(Seq(Byte))
    BY <1>3 DEF Reads
  <2>2. FlattenSeq(p) = a /\ FlattenSeq(q) = b
    BY <1>1, <1>2, FlattenOne
  <2> QED
    BY <2>1, <2>2, FlattenConcat
<1>8. Len(a \o b) = m + n
  BY <1>1, Concatenation
<1>9. Len(FlattenSeq(<<a, b>>)) = k
  BY <1>5, <1>7, <1>8
<1>10. PICK v, w : v = <<t, u>> /\ w = <<a, b>>
  OBVIOUS
<1>11. Reads(<<Need(k)>> \o v, w)
  BY <1>6, <1>9, <1>10, ReadsNeeded
<1> QED
  BY <1>2, <1>5, <1>6, <1>9, <1>10, <1>11, Zenon DEF ReadsPair

\* Three byte strings.
ReadsTriple(l, m, n, k, a, b, c) ==
    /\ Reads(<<Need(k), Bytes(l), Bytes(m), Bytes(n)>>, <<a, b, c>>)
    /\ Len(FlattenSeq(<<a, b, c>>)) = k

\* Three byte strings behind the length check for all of them.
LEMMA ReadsThree ==
    ASSUME NEW l \in Nat, NEW m \in Nat, NEW n \in Nat, NEW k \in Nat, k = l + (m + n),
           NEW a, NEW b, NEW c, IsBytes(a, l), IsBytes(b, m), IsBytes(c, n)
    PROVE  ReadsTriple(l, m, n, k, a, b, c)
<1>1. a \in Seq(Byte) /\ Len(a) = l
  BY DEF IsBytes
<1>2. PICK s, t, u, v, p, q, j :
         /\ s = Need(k) /\ t = Bytes(l) /\ u = Bytes(m) /\ v = Bytes(n)
         /\ p = <<a>> /\ q = <<b, c>> /\ j = m + n
  OBVIOUS
<1>3. j \in Nat
  BY <1>2
<1>4. Reads(<<t>>, p)
  BY <1>2, ReadsBytes
<1>5. Reads(<<u, v>>, q) /\ Len(FlattenSeq(q)) = j
  <2>1. ReadsPair(m, n, j, b, c)
    <3>1. j = m + n
      BY <1>2
    <3> QED
      BY <1>3, <3>1, ReadsTwo, Zenon
  <2> QED
    BY <1>2, <2>1, Zenon DEF ReadsPair
<1>6. Reads(<<t>> \o <<u, v>>, p \o q)
  BY <1>4, <1>5, ReadsBoth
<1>7. <<t>> \o <<u, v>> = <<t, u, v>> /\ <<s>> \o <<t, u, v>> = <<s, t, u, v>> /\ p \o q = <<a, b, c>>
  <2>1. Prepended(t, u, v, v) /\ Prepended(s, t, u, v) /\ Prepended(a, b, c, c)
    BY Tuples, Zenon
  <2> QED
    BY <1>2, <2>1, Zenon DEF Prepended
<1>8. Reads(<<t, u, v>>, <<a, b, c>>)
  BY <1>6, <1>7, Zenon
<1>9. Len(FlattenSeq(p \o q)) = k
  <2>1. p \in Seq(Seq(Byte)) /\ q \in Seq(Seq(Byte))
    BY <1>4, <1>5 DEF Reads
  <2>2. FlattenSeq(p) = a /\ FlattenSeq(q) \in Seq(Byte)
    BY <1>1, <1>2, <2>1, FlattenOne, FlattenSeqProperty
  <2>3. FlattenSeq(p \o q) = a \o FlattenSeq(q)
    BY <2>1, <2>2, FlattenConcat
  <2>4. Len(a \o FlattenSeq(q)) = Len(a) + Len(FlattenSeq(q))
    BY <1>1, <2>2, Concatenation
  <2> QED
    BY <1>1, <1>2, <1>5, <2>3, <2>4
<1>10. PICK x, y : x = <<t, u, v>> /\ y = <<a, b, c>>
  OBVIOUS
<1>11. Len(FlattenSeq(y)) = k
  BY <1>7, <1>9, <1>10
<1>12. Reads(<<Need(k)>> \o x, y)
  BY <1>8, <1>10, <1>11, ReadsNeeded
<1> QED
  BY <1>2, <1>7, <1>10, <1>11, <1>12, Zenon DEF ReadsTriple

\* The fields between the length of a frame and its payload, and the steps
\* that read them.
IndexParts(flags, m, s, o, channel, split) ==
    Optional(is_reliable(flags \div 32), <<m>>)
    \o Optional(is_sequenced(flags \div 32), <<s>>)
    \o Optional(is_ordered(flags \div 32), <<o, channel>>)
    \o split

\* Fields of the right sizes, the split information only if the flag says so.
Fields(flags, m, s, o, channel, split) ==
    /\ IsBytes(m, 3) /\ IsBytes(s, 3) /\ IsBytes(o, 3) /\ IsBytes(channel, 1)
    /\ \/ (flags \div 16) % 2 = 1 /\ IsSplit(split)
       \/ (flags \div 16) % 2 # 1 /\ split = <<>>

\* Whatever the flags are, the fields they announce are read back.
LEMMA ReadsIndices ==
    ASSUME NEW flags, NEW m, NEW s, NEW o, NEW channel, NEW split,
           Fields(flags, m, s, o, channel, split)
    PROVE  Reads(IndexSteps(flags), IndexParts(flags, m, s, o, channel, split))
<1>1. IsBytes(m, 3) /\ IsBytes(s, 3) /\ IsBytes(o, 3) /\ IsBytes(channel, 1)
  BY DEF Fields
<1>2. PICK level : level = flags \div 32
  OBVIOUS
<1>3. PICK s1, s2, s3, s4 :
         /\ s1 = <<Need(3), Bytes(3)>> /\ s2 = <<Need(4), Bytes(3), Bytes(1)>>
         /\ s3 = <<Need(10), Bytes(4), Bytes(2), Bytes(4)>>
         /\ s4 = Optional((flags \div 16) % 2 = 1, s3)
  OBVIOUS
<1>4. PICK p1, p2, p3 : p1 = <<m>> /\ p2 = <<s>> /\ p3 = <<o, channel>>
  OBVIOUS
<1>5. Reads(s1, p1) /\ Reads(s1, p2)
  <2>1. 3 \in Nat
    OBVIOUS
  <2> QED
    BY <1>1, <1>3, <1>4, <2>1, ReadsField, Zenon
<1>6. Reads(s2, p3)
  <2>1. 3 \in Nat /\ 1 \in Nat /\ 4 \in Nat /\ 4 = 3 + 1
    OBVIOUS
  <2>2. ReadsPair(3, 1, 4, o, channel)
    BY <1>1, <2>1, ReadsTwo, Zenon
  <2> QED
    BY <1>3, <1>4, <2>2, Zenon DEF ReadsPair
<1>7. Reads(s4, split)
  <2>1. CASE (flags \div 16) % 2 = 1
    <3>1. PICK x, y, z : split = <<x, y, z>> /\ IsBytes(x, 4) /\ IsBytes(y, 2) /\ IsBytes(z, 4)
      BY <2>1 DEF Fields, IsSplit
    <3>2. 4 \in Nat /\ 2 \in Nat /\ 10 \in Nat /\ 10 = 4 + (2 + 4)
      OBVIOUS
    <3>3. Reads(<<Need(10), Bytes(4), Bytes(2), Bytes(4)>>, <<x, y, z>>)
      <4>1. ReadsTriple(4, 2, 4, 10, x, y, z)
        BY <3>1, <3>2, ReadsThree, Zenon
      <4> QED
        BY <4>1, Zenon DEF ReadsTriple
    <3>4. s4 = s3
      BY <1>3, <2>1, Zenon DEF Optional
    <3> QED
      BY <1>3, <3>1, <3>3, <3>4, Zenon
  <2>2. CASE (flags \div 16) % 2 # 1
    <3>1. split = <<>> /\ s4 = <<>>
      BY <1>3, <2>2, Zenon DEF Fields, Optional
    <3> QED
      BY <3>1, ReadsNone, Zenon
  <2> QED
    BY <2>1, <2>2
<1>8. PICK a1, a2, a3, b1, b2, b3 :
         /\ a1 = Optional(is_reliable(level), s1) /\ b1 = Optional(is_reliable(level), p1)
         /\ a2 = Optional(is_sequenced(level), s1) /\ b2 = Optional(is_sequenced(level), p2)
         /\ a3 = Optional(is_ordered(level), s2) /\ b3 = Optional(is_ordered(level), p3)
  OBVIOUS
<1>9. Reads(a1, b1) /\ Reads(a2, b2) /\ Reads(a3, b3)
  BY <1>5, <1>6, <1>8, ReadsOptional, Zenon
<1>10. Reads(a1 \o a2, b1 \o b2)
  BY <1>9, ReadsBoth, Zenon
<1>11. Reads((a1 \o a2) \o a3, (b1 \o b2) \o b3)
  BY <1>9, <1>10, ReadsBoth, Zenon
<1>12. Reads(((a1 \o a2) \o a3) \o s4, ((b1 \o b2) \o b3) \o split)
  BY <1>7, <1>11, ReadsBoth, Zenon
<1>13. IndexSteps(flags) = ((a1 \o a2) \o a3) \o s4
  BY <1>2, <1>3, <1>8, Zenon DEF IndexSteps
<1>14. IndexParts(flags, m, s, o, channel, split) = ((b1 \o b2) \o b3) \o split
  BY <1>2, <1>4, <1>8, Zenon DEF IndexParts
<1> QED
  BY <1>12, <1>13, <1>14, Zenon

\* Parts a frame is read from: the flags, the length, the fields the flags
\* announce, and a payload of that length.
IsLayout(parts) ==
    \E flags \in Byte : \E length, m, s, o, channel, split, payload :
       /\ flags \div 32 \in Reliability
       /\ IsBytes(length, 2)
       /\ Fields(flags, m, s, o, channel, split)
       /\ payload \in Seq(Byte)
       /\ payload_length(get_u16(length)) = Len(payload)
       /\ parts = <<<<flags>>, length>>
                  \o (IndexParts(flags, m, s, o, channel, split) \o <<payload>>)

\* Frame::decode reads such parts back.
LEMMA FrameReads ==
    ASSUME NEW data \in Seq(Byte), NEW p \in 0 .. Len(data), NEW parts, IsLayout(parts),
           Follows(data, p, FlattenSeq(parts))
    PROVE  /\ parts \in Seq(Seq(Byte)) /\ Len(FlattenSeq(parts)) >= 3
           /\ Outcome(DecodeFrame(data, p), data, p + Len(FlattenSeq(parts)), parts)
<1>0. PICK flags \in Byte : \E length, m, s, o, channel, split, payload :
         /\ flags \div 32 \in Reliability
         /\ IsBytes(length, 2)
         /\ Fields(flags, m, s, o, channel, split)
         /\ payload \in Seq(Byte)
         /\ payload_length(get_u16(length)) = Len(payload)
         /\ parts = <<<<flags>>, length>>
                    \o (IndexParts(flags, m, s, o, channel, split) \o <<payload>>)
  BY Zenon DEF IsLayout
<1>1. PICK length, m, s, o, channel, split, payload :
         /\ flags \div 32 \in Reliability
         /\ IsBytes(length, 2)
         /\ Fields(flags, m, s, o, channel, split)
         /\ payload \in Seq(Byte)
         /\ payload_length(get_u16(length)) = Len(payload)
         /\ parts = <<<<flags>>, length>>
                    \o (IndexParts(flags, m, s, o, channel, split) \o <<payload>>)
  BY <1>0, Zenon
<1>2. PICK f, n, index, head, tail, steps, body :
         /\ f = <<flags>> /\ n = Len(payload)
         /\ head = <<f, length>>
         /\ index = IndexParts(flags, m, s, o, channel, split)
         /\ tail = index \o <<payload>>
         /\ steps = <<Need(3), Bytes(1), Bytes(2)>>
         /\ body = IndexSteps(flags) \o <<Need(n), Bytes(n)>>
  OBVIOUS
<1>3. IsBytes(f, 1) /\ f[1] = flags
  BY <1>2 DEF IsBytes
<1>4. Reads(steps, head) /\ Len(FlattenSeq(head)) = 3
  <2>1. 3 \in Nat /\ 1 \in Nat /\ 2 \in Nat /\ 3 = 1 + 2
    OBVIOUS
  <2>2. ReadsPair(1, 2, 3, f, length)
    BY <1>1, <1>3, <2>1, ReadsTwo, Zenon
  <2> QED
    BY <1>2, <2>2, Zenon DEF ReadsPair
<1>5. Reads(body, tail)
  <2>1. Reads(IndexSteps(flags), index)
    BY <1>1, <1>2, ReadsIndices, Zenon
  <2>2. n \in Nat /\ IsBytes(payload, n)
    BY <1>1, <1>2, LenProperties DEF IsBytes
  <2>3. Reads(<<Need(n), Bytes(n)>>, <<payload>>)
    BY <2>2, ReadsField, Zenon
  <2> QED
    BY <1>2, <2>1, <2>3, ReadsBoth, Zenon
<1>6. parts = head \o tail
  BY <1>1, <1>2, Zenon
<1>7. head \in Seq(Seq(Byte)) /\ tail \in Seq(Seq(Byte))
  BY <1>4, <1>5 DEF Reads
<1>8. parts \in Seq(Seq(Byte))
  BY <1>6, <1>7, Concatenation
<1>9. PICK x, y, z : x = FlattenSeq(head) /\ y = FlattenSeq(tail) /\ z = FlattenSeq(parts)
  OBVIOUS
<1>10. x \in Seq(Byte) /\ y \in Seq(Byte) /\ z = x \o y
  BY <1>6, <1>7, <1>9, FlattenSeqProperty, FlattenConcat
<1>11. Len(x) = 3 /\ Len(z) = 3 + Len(y) /\ Len(y) \in Nat
  <2>1. Len(x \o y) = Len(x) + Len(y) /\ Len(y) \in Nat
    BY <1>10, Concatenation
  <2>2. Len(x) = 3
    BY <1>4, <1>9
  <2> QED
    BY <1>10, <2>1, <2>2
<1>12. Len(data) \in Nat /\ p \in Nat /\ p =< Len(data)
  BY LenProperties
<1>13. Follows(data, p, x) /\ Follows(data, p + 3, y)
  BY <1>9, <1>10, <1>11, <1>12, FollowsBoth
<1>14. PICK header, c : header = Read(c, steps) /\ c = Cursor(data, p)
  OBVIOUS
<1>15. At(c, data, p) /\ c.out = <<>>
  BY <1>14, CursorAt
<1>16. Outcome(header, data, p + 3, head)
  <2>1. <<>> \in Seq(Seq(Byte)) /\ <<>> \o head = head
    BY <1>7, EmptySeq, ConcatEmptySeq
  <2>2. Outcome(header, data, p + 3, <<>> \o head)
    BY <1>4, <1>9, <1>11, <1>13, <1>14, <1>15, <2>1 DEF Reads
  <2> QED
    BY <2>1, <2>2
<1>17. DecodeFrame(data, p) =
          IF header.status # "ok" THEN header
          ELSE IF header.out[1][1] \div 32 \notin Reliability THEN Refuse(header)
          ELSE Read(header, IndexSteps(header.out[1][1])
                            \o <<Need(payload_length(get_u16(header.out[2]))),
                                 Bytes(payload_length(get_u16(header.out[2])))>>)
  <2> DEFINE h == Read(Cursor(data, p), <<Need(3), Bytes(1), Bytes(2)>>)
             bits == get_u16(h.out[2])
             k == payload_length(bits)
             rest == IndexSteps(h.out[1][1]) \o <<Need(k), Bytes(k)>>
  <2>1. DecodeFrame(data, p) =
           IF h.status # "ok" THEN h
           ELSE IF h.out[1][1] \div 32 \notin Reliability THEN Refuse(h)
           ELSE Read(h, rest)
    BY DEF DecodeFrame, payload_length
  <2>2. h = header
    BY <1>2, <1>14
  <2> HIDE DEF h
  <2> QED
    BY <2>1, <2>2, Zenon
<1>18. CASE p + 3 =< Len(data)
  <2>1. At(header, data, p + 3) /\ header.out = head
    BY <1>16, <1>18 DEF Outcome
  <2>2. header.status = "ok" /\ header.out[1] = f /\ header.out[2] = length
    BY <1>2, <2>1 DEF At
  <2>3. DecodeFrame(data, p) = Read(header, body)
    BY <1>1, <1>2, <1>3, <1>17, <2>2, Zenon
  <2>4. p + 3 \in 0 .. Len(data) /\ (p + 3) + Len(y) = p + Len(z)
    BY <1>11, <1>12, <1>18
  <2>5. Outcome(Read(header, body), data, (p + 3) + Len(y), head \o tail)
    <3>1. header.out \in Seq(Seq(Byte))
      BY <1>7, <2>1
    <3>2. Outcome(Read(header, body), data, (p + 3) + Len(y), header.out \o tail)
      BY <1>5, <1>9, <1>13, <2>1, <2>4, <3>1 DEF Reads
    <3> QED
      BY <2>1, <3>2
  <2> QED
    BY <1>6, <1>8, <1>9, <1>11, <2>3, <2>4, <2>5
<1>19. CASE p + 3 > Len(data)
  <2>1. header.status # "ok"
    BY <1>16, <1>19 DEF Outcome
  <2>2. DecodeFrame(data, p).status # "ok"
    BY <1>17, <2>1
  <2>3. p + Len(z) > Len(data) /\ ~ (p + Len(z) =< Len(data))
    BY <1>11, <1>12, <1>19
  <2>4. Outcome(DecodeFrame(data, p), data, p + Len(z), parts)
    BY <2>2, <2>3 DEF Outcome
  <2> QED
    BY <1>8, <1>9, <1>11, <2>4
<1> QED
  BY <1>12, <1>18, <1>19

\* Three lists in either grouping.
Associative(a, b, c) == (a \o b) \o c = a \o (b \o c)

\* The grouping does not matter.
LEMMA Associates ==
    ASSUME NEW S, NEW a, NEW b, NEW c, a \in Seq(S), b \in Seq(S), c \in Seq(S)
    PROVE  Associative(a, b, c) /\ a \o b \in Seq(S)
BY ConcatAssociative, Concatenation DEF Associative

\* A list in six pieces, the first one apart.
Apart(h, a, b, c, d, e) ==
    ((((h \o a) \o b) \o c) \o d) \o e = h \o ((((a \o b) \o c) \o d) \o e)

\* It can be taken apart.
LEMMA FirstApart ==
    ASSUME NEW S, NEW h, NEW a, NEW b, NEW c, NEW d, NEW e,
           h \in Seq(S), a \in Seq(S), b \in Seq(S), c \in Seq(S), d \in Seq(S), e \in Seq(S)
    PROVE  Apart(h, a, b, c, d, e)
<1>1. PICK x, y, z : x = a \o b /\ y = x \o c /\ z = y \o d
  OBVIOUS
<1>2. Associative(h, a, b) /\ x \in Seq(S)
  BY <1>1, Associates, Zenon
<1>3. Associative(h, x, c) /\ y \in Seq(S)
  BY <1>1, <1>2, Associates, Zenon
<1>4. Associative(h, y, d) /\ z \in Seq(S)
  BY <1>1, <1>3, Associates, Zenon
<1>5. Associative(h, z, e)
  BY <1>4, Associates, Zenon
<1>6. (h \o a) \o b = h \o x
  BY <1>1, <1>2, Zenon DEF Associative
<1>7. (h \o x) \o c = h \o y
  BY <1>1, <1>3, Zenon DEF Associative
<1>8. (h \o y) \o d = h \o z
  BY <1>1, <1>4, Zenon DEF Associative
<1>9. (h \o z) \o e = h \o (z \o e)
  BY <1>5, Zenon DEF Associative
<1> QED
  BY <1>1, <1>6, <1>7, <1>8, <1>9, Zenon DEF Apart

\* Payloads whose length in bits, rounded up, fits the u16 of the header.
PayloadsFit == \A f \in FramesSent : 8 * Len(f.payload) + 7 =< u16_MAX

\* The length field gives the length of the payload.
LEMMA LengthReads ==
    ASSUME NEW b \in Seq(Byte), 8 * Len(b) + 7 =< u16_MAX
    PROVE  /\ IsBytes(put_u16(length_bits(b)), 2)
           /\ payload_length(get_u16(put_u16(length_bits(b)))) = Len(b)
<1>1. PICK n : n = Len(b)
  OBVIOUS
<1>2. n \in Nat /\ 8 * n + 7 =< 65535
  BY <1>1, LenProperties DEF u16_MAX
<1>3. length_bits(b) = n * 8
  <2>1. length_bits(b) = (n * 8) % 65536
    BY <1>1 DEF length_bits
  <2>2. PICK m : m = n * 8
    OBVIOUS
  <2>3. m \in Nat /\ m < 65536
    BY <1>2, <2>2
  <2>4. m % 65536 = m
    BY <2>3
  <2> QED
    BY <2>1, <2>2, <2>4
<1>4. PICK m : m = n * 8
  OBVIOUS
<1>5. m \in Nat /\ m + 7 < 65536 /\ m =< 65535
  BY <1>2, <1>4
<1>6. get_u16(put_u16(m)) = m
  <2>1. m < 65536
    BY <1>5
  <2> QED
    BY <1>5, <2>1, RoundTrip16
<1>7. payload_length(m) = n
  <2>1. (m + 7) % 65536 = m + 7
    BY <1>5
  <2>2. (m + 7) \div 8 = n
    BY <1>2, <1>4
  <2> QED
    BY <2>1, <2>2 DEF payload_length
<1>8. IsBytes(put_u16(m), 2)
  BY <1>5, IntegerBytes
<1> QED
  BY <1>1, <1>3, <1>4, <1>6, <1>7, <1>8

\* The flags give the level of the frame, and whether it is split.
LEMMA FlagsRead ==
    ASSUME NEW level \in Reliability, NEW d \in {0, 16}, NEW flags, flags = level * 32 + d
    PROVE  /\ flags \in Byte /\ flags \div 32 = level
           /\ (flags \div 16) % 2 = 1 <=> d = 16
<1>1. level \in {0, 1, 2, 3, 4}
  BY DEF Reliability
<1> QED
  BY <1>1 DEF Byte

\* A frame is written the way its decoder reads it.
LEMMA PartsLayout ==
    ASSUME PayloadsFit, NEW f \in FramesSent
    PROVE  IsLayout(Parts(f))
<1>1. IsFrame(f) /\ 8 * Len(f.payload) + 7 =< u16_MAX
  BY PacketAssumption DEF PayloadsFit
<1>2. PICK level, d, flags, length, m, s, o, channel, split, payload :
         /\ level = f.reliability /\ d = (IF f.split = <<>> THEN 0 ELSE 16)
         /\ flags = level * 32 + d
         /\ length = put_u16(length_bits(payload))
         /\ m = write_u24_le(f.message_index)
         /\ s = write_u24_le(f.sequence_index)
         /\ o = write_u24_le(f.order_index)
         /\ channel = <<f.order_channel>>
         /\ split = f.split /\ payload = f.payload
  OBVIOUS
<1>3. level \in Reliability /\ d \in {0, 16} /\ (d = 16 <=> split # <<>>)
  BY <1>1, <1>2 DEF IsFrame
<1>4. /\ flags \in Byte /\ flags \div 32 = level
      /\ (flags \div 16) % 2 = 1 <=> d = 16
  BY <1>2, <1>3, FlagsRead
<1>5. payload \in Seq(Byte) /\ IsBytes(length, 2) /\ payload_length(get_u16(length)) = Len(payload)
  BY <1>1, <1>2, LengthReads DEF IsFrame
<1>6. IsBytes(m, 3) /\ IsBytes(s, 3) /\ IsBytes(o, 3) /\ IsBytes(channel, 1)
  <2>1. f.message_index \in Nat /\ f.sequence_index \in Nat /\ f.order_index \in Nat
    BY <1>1, ThreeBytesNat DEF IsFrame
  <2>2. IsBytes(m, 3) /\ IsBytes(s, 3) /\ IsBytes(o, 3)
    BY <1>2, <2>1, IntegerBytes
  <2>3. IsBytes(channel, 1)
    BY <1>1, <1>2 DEF IsFrame, IsBytes
  <2> QED
    BY <2>2, <2>3
<1>7. Fields(flags, m, s, o, channel, split)
  <2>1. split = <<>> \/ IsSplit(split)
    BY <1>1, <1>2 DEF IsFrame
  <2> QED
    BY <1>3, <1>4, <1>6, <2>1, Zenon DEF Fields
<1>8. Parts(f) = <<<<flags>>, length>> \o (IndexParts(flags, m, s, o, channel, split) \o <<payload>>)
  <2>1. PICK h, a, b, c, e :
           /\ h = <<<<flags>>, length>> /\ a = Optional(is_reliable(level), <<m>>)
           /\ b = Optional(is_sequenced(level), <<s>>)
           /\ c = Optional(is_ordered(level), <<o, channel>>)
           /\ e = <<payload>>
    OBVIOUS
  <2>2. Parts(f) = ((((h \o a) \o b) \o c) \o split) \o e
    BY <1>2, <2>1, Zenon DEF Parts
  <2>3. IndexParts(flags, m, s, o, channel, split) = ((a \o b) \o c) \o split
    BY <1>4, <2>1, Zenon DEF IndexParts
  <2>4. /\ h \in Seq(Seq(Byte)) /\ a \in Seq(Seq(Byte)) /\ b \in Seq(Seq(Byte))
        /\ c \in Seq(Seq(Byte)) /\ split \in Seq(Seq(Byte)) /\ e \in Seq(Seq(Byte))
    <3>1. PICK T, g : T = Seq(Byte) /\ g = <<flags>>
      OBVIOUS
    <3>2. g \in T /\ length \in T /\ m \in T /\ s \in T /\ o \in T /\ channel \in T /\ payload \in T
      BY <1>4, <1>5, <1>6, <3>1 DEF IsBytes
    <3>3. /\ <<g, length>> \in Seq(T) /\ <<m>> \in Seq(T) /\ <<s>> \in Seq(T)
          /\ <<o, channel>> \in Seq(T) /\ <<payload>> \in Seq(T) /\ <<>> \in Seq(T)
      BY <3>2
    <3>4. split \in Seq(T)
      <4>1. CASE split = <<>>
        BY <3>3, <4>1
      <4>2. CASE IsSplit(split)
        <5>1. PICK x, y, z : split = <<x, y, z>> /\ x \in T /\ y \in T /\ z \in T
          BY <3>1, <4>2 DEF IsSplit, IsBytes
        <5> QED
          BY <5>1
      <4> QED
        BY <1>1, <1>2, <4>1, <4>2 DEF IsFrame
    <3> QED
      BY <2>1, <3>1, <3>3, <3>4, Zenon DEF Optional
  <2>5. ((((h \o a) \o b) \o c) \o split) \o e = h \o ((((a \o b) \o c) \o split) \o e)
    <3>1. PICK T : T = Seq(Byte)
      OBVIOUS
    <3>2. /\ h \in Seq(T) /\ a \in Seq(T) /\ b \in Seq(T)
          /\ c \in Seq(T) /\ split \in Seq(T) /\ e \in Seq(T)
      BY <2>4, <3>1
    <3>3. Apart(h, a, b, c, split, e)
      BY <3>2, FirstApart, Zenon
    <3> QED
      BY <3>3, Zenon DEF Apart
  <2> QED
    BY <2>1, <2>2, <2>3, <2>5, Zenon
<1>9. flags \div 32 \in Reliability
  BY <1>3, <1>4
<1> QED
  BY <1>4, <1>5, <1>7, <1>8, <1>9, Zenon DEF IsLayout

\* The bytes of one list behind another.
LEMMA FlattenLength ==
    ASSUME NEW a, NEW b, a \in Seq(Seq(Byte)), b \in Seq(Seq(Byte))
    PROVE  /\ a \o b \in Seq(Seq(Byte))
           /\ Len(FlattenSeq(a)) \in Nat /\ Len(FlattenSeq(b)) \in Nat
           /\ Len(FlattenSeq(a \o b)) = Len(FlattenSeq(a)) + Len(FlattenSeq(b))
<1>1. a \o b \in Seq(Seq(Byte)) /\ FlattenSeq(a \o b) = FlattenSeq(a) \o FlattenSeq(b)
  BY Concatenation, FlattenConcat
<1>2. PICK x, y : x = FlattenSeq(a) /\ y = FlattenSeq(b)
  OBVIOUS
<1>3. x \in Seq(Byte) /\ y \in Seq(Byte)
  BY <1>2, FlattenSeqProperty
<1>4. Len(x \o y) = Len(x) + Len(y) /\ Len(x) \in Nat /\ Len(y) \in Nat
  BY <1>3, Concatenation
<1> QED
  BY <1>1, <1>2, <1>4

\* A frame is as long as encoded_size says.
LEMMA FrameSize ==
    ASSUME NEW f \in FramesSent
    PROVE  Len(EncodeFrame(f)) = encoded_size(f)
<1>1. IsFrame(f)
  BY PacketAssumption
<1>2. PICK level, flags, length, m, s, o, channel, split, payload :
         /\ level = f.reliability
         /\ flags = <<level * 32 + (IF f.split = <<>> THEN 0 ELSE 16)>>
         /\ length = put_u16(length_bits(f.payload))
         /\ m = write_u24_le(f.message_index)
         /\ s = write_u24_le(f.sequence_index)
         /\ o = write_u24_le(f.order_index)
         /\ channel = <<f.order_channel>>
         /\ split = f.split /\ payload = f.payload
  OBVIOUS
<1>3. level \in Reliability /\ payload \in Seq(Byte) /\ (split = <<>> \/ IsSplit(split))
  BY <1>1, <1>2 DEF IsFrame
<1>4. IsBytes(flags, 1)
  <2>1. PICK d : d = IF f.split = <<>> THEN 0 ELSE 16
    OBVIOUS
  <2>2. d \in {0, 16}
    BY <2>1
  <2>3. level * 32 + d \in Byte
    BY <1>3, <2>2, FlagsRead
  <2> QED
    BY <1>2, <2>1, <2>3 DEF IsBytes
<1>5. IsBytes(length, 2)
  <2>1. length_bits(payload) \in Nat
    <3>1. PICK k : k = Len(payload)
      OBVIOUS
    <3>2. k \in Nat
      BY <1>3, <3>1, LenProperties
    <3>3. (k * 8) % 65536 \in Nat
      BY <3>2
    <3> QED
      BY <3>1, <3>3 DEF length_bits
  <2> QED
    BY <1>2, <2>1, IntegerBytes
<1>6. IsBytes(m, 3) /\ IsBytes(s, 3) /\ IsBytes(o, 3) /\ IsBytes(channel, 1)
  <2>1. f.message_index \in Nat /\ f.sequence_index \in Nat /\ f.order_index \in Nat
    BY <1>1, ThreeBytesNat DEF IsFrame
  <2>2. IsBytes(m, 3) /\ IsBytes(s, 3) /\ IsBytes(o, 3)
    BY <1>2, <2>1, IntegerBytes
  <2>3. IsBytes(channel, 1)
    BY <1>1, <1>2 DEF IsFrame, IsBytes
  <2> QED
    BY <2>2, <2>3
<1> DEFINE Sized(parts, n) == parts \in Seq(Seq(Byte)) /\ Len(FlattenSeq(parts)) = n /\ n \in Nat
<1>7. ASSUME NEW n \in Nat, NEW b, IsBytes(b, n) PROVE Sized(<<b>>, n)
  <2>1. Reads(<<Bytes(n)>>, <<b>>)
    BY <1>7, ReadsBytes
  <2>2. FlattenSeq(<<b>>) = b
    BY <1>7, FlattenOne DEF IsBytes
  <2> QED
    BY <1>7, <2>1, <2>2 DEF Reads, IsBytes
<1>8. ASSUME NEW j \in Nat, NEW k \in Nat, NEW n \in Nat, n = j + k, NEW a, NEW b,
             IsBytes(a, j), IsBytes(b, k)
      PROVE  Sized(<<a, b>>, n)
  <2>1. ReadsPair(j, k, n, a, b)
    BY <1>8, ReadsTwo, Zenon
  <2> QED
    BY <2>1 DEF ReadsPair, Reads
<1>9. Sized(<<>>, 0)
  BY FlattenOne, ReadsNone DEF Reads, FlattenSeq
<1>10. ASSUME NEW a, NEW b, NEW j, NEW k, Sized(a, j), Sized(b, k) PROVE Sized(a \o b, j + k)
  BY <1>10, FlattenLength
<1> HIDE DEF Sized
<1>11. PICK n1, n2, n3, n4, n5 :
          /\ n1 = (IF is_reliable(level) THEN 3 ELSE 0)
          /\ n2 = (IF is_sequenced(level) THEN 3 ELSE 0)
          /\ n3 = (IF is_ordered(level) THEN 4 ELSE 0)
          /\ n4 = (IF split = <<>> THEN 0 ELSE 10)
          /\ n5 = Len(payload)
  OBVIOUS
<1>12. PICK p0, p1, p2, p3, p5 :
          /\ p0 = <<flags, length>>
          /\ p1 = Optional(is_reliable(level), <<m>>)
          /\ p2 = Optional(is_sequenced(level), <<s>>)
          /\ p3 = Optional(is_ordered(level), <<o, channel>>)
          /\ p5 = <<payload>>
  OBVIOUS
<1>13. Sized(p0, 3)
  <2>1. 1 \in Nat /\ 2 \in Nat /\ 3 \in Nat /\ 3 = 1 + 2
    OBVIOUS
  <2> QED
    BY <1>4, <1>5, <1>8, <1>12, <2>1, Zenon
<1>14. Sized(p1, n1) /\ Sized(p2, n2)
  <2>1. 3 \in Nat
    OBVIOUS
  <2>2. Sized(<<m>>, 3) /\ Sized(<<s>>, 3)
    BY <1>6, <1>7, <2>1, Zenon
  <2> QED
    BY <1>9, <1>11, <1>12, <2>2, Zenon DEF Optional
<1>15. Sized(p3, n3)
  <2>1. 1 \in Nat /\ 3 \in Nat /\ 4 \in Nat /\ 4 = 3 + 1
    OBVIOUS
  <2>2. Sized(<<o, channel>>, 4)
    BY <1>6, <1>8, <2>1, Zenon
  <2> QED
    BY <1>9, <1>11, <1>12, <2>2, Zenon DEF Optional
<1>16. Sized(split, n4)
  <2>1. CASE split = <<>>
    BY <1>9, <1>11, <2>1, Zenon
  <2>2. CASE IsSplit(split)
    <3>1. PICK x, y, z : split = <<x, y, z>> /\ IsBytes(x, 4) /\ IsBytes(y, 2) /\ IsBytes(z, 4)
      BY <2>2 DEF IsSplit
    <3>2. 4 \in Nat /\ 2 \in Nat /\ 10 \in Nat /\ 10 = 4 + (2 + 4)
      OBVIOUS
    <3>3. ReadsTriple(4, 2, 4, 10, x, y, z)
      BY <3>1, <3>2, ReadsThree, Zenon
    <3>4. Sized(split, 10)
      BY <3>1, <3>3 DEF ReadsTriple, Reads, Sized
    <3>5. split # <<>>
      BY <2>2 DEF IsSplit
    <3> QED
      BY <1>11, <3>4, <3>5
  <2> QED
    BY <1>3, <2>1, <2>2
<1>17. Sized(p5, n5)
  <2>1. n5 \in Nat /\ IsBytes(payload, n5)
    BY <1>3, <1>11, LenProperties DEF IsBytes
  <2> QED
    BY <1>7, <1>12, <2>1, Zenon
<1>18. Sized(((((p0 \o p1) \o p2) \o p3) \o split) \o p5, ((((3 + n1) + n2) + n3) + n4) + n5)
  <2>1. Sized(p0 \o p1, 3 + n1)
    BY <1>10, <1>13, <1>14, Zenon
  <2>2. Sized((p0 \o p1) \o p2, (3 + n1) + n2)
    BY <1>10, <1>14, <2>1, Zenon
  <2>3. Sized(((p0 \o p1) \o p2) \o p3, ((3 + n1) + n2) + n3)
    BY <1>10, <1>15, <2>2, Zenon
  <2>4. Sized((((p0 \o p1) \o p2) \o p3) \o split, (((3 + n1) + n2) + n3) + n4)
    BY <1>10, <1>16, <2>3, Zenon
  <2> QED
    BY <1>10, <1>17, <2>4, Zenon
<1>19. Parts(f) = ((((p0 \o p1) \o p2) \o p3) \o split) \o p5
  BY <1>2, <1>12, Zenon DEF Parts
<1>20. encoded_size(f) = ((((3 + n1) + n2) + n3) + n4) + n5
  <2>1. encoded_size(f) = ((((3 + n1) + n2) + n3) + n4) + n5
    BY <1>2, <1>11, Zenon DEF encoded_size, header_size
  <2> QED
    BY <2>1
<1>21. Sized(Parts(f), encoded_size(f))
  BY <1>18, <1>19, <1>20, Zenon
<1> QED
  BY <1>21 DEF Sized, EncodeFrame

\* f is the loop of Handled, n frames of it.
HandledLoop(f, frames, n) ==
    f = [i \in 0 .. n |-> IF i = 0 THEN <<>> ELSE HandleFrame(f[i - 1], frames[i])]

\* There is such a function.
LEMMA HandledLoopExists ==
    ASSUME NEW frames, NEW n \in Nat
    PROVE  \E f : HandledLoop(f, frames, n)
<1> DEFINE E == {m \in 0 .. n : \E f : HandledLoop(f, frames, m)}
<1>1. 0 \in E
  <2>1. HandledLoop([k \in 0 .. 0 |-> <<>>], frames, 0)
    BY DEF HandledLoop
  <2> QED
    BY <2>1
<1>2. ASSUME NEW m \in 0 .. n - 1, m \in E PROVE m + 1 \in E
  <2>1. PICK f : HandledLoop(f, frames, m)
    BY <1>2
  <2> DEFINE g == [k \in 0 .. m + 1 |-> IF k = m + 1 THEN HandleFrame(f[m], frames[m + 1]) ELSE f[k]]
  <2>2. \A k \in 1 .. m + 1 : g[k - 1] = f[k - 1]
    OBVIOUS
  <2>3. \A k \in 0 .. m + 1 : g[k] = IF k = 0 THEN <<>> ELSE HandleFrame(g[k - 1], frames[k])
    BY <2>1, <2>2 DEF HandledLoop
  <2>4. HandledLoop(g, frames, m + 1)
    BY <2>3 DEF HandledLoop
  <2> QED
    BY <2>4
<1> HIDE DEF E
<1>3. \A m \in 0 .. n : m \in E
  BY <1>1, <1>2, UpTo
<1> QED
  BY <1>3 DEF E

\* The frames are handled one after the other.
LEMMA HandledTurns ==
    ASSUME NEW frames, NEW n \in Nat, n = Len(frames)
    PROVE  \E r : /\ r[0] = <<>>
                  /\ \A i \in 1 .. n : r[i] = HandleFrame(r[i - 1], frames[i])
                  /\ Handled(frames) = r[n]
<1> DEFINE r == CHOOSE f : HandledLoop(f, frames, n)
<1>2. HandledLoop(r, frames, n)
  BY HandledLoopExists
<1>3. Handled(frames) = r[n]
  BY DEF Handled, HandledLoop
<1> HIDE DEF r
<1>4. r[0] = <<>> /\ \A i \in 1 .. n : r[i] = HandleFrame(r[i - 1], frames[i])
  BY <1>2 DEF HandledLoop
<1> QED
  BY <1>3, <1>4

\* Of the first frames of a list the first of the handled ones are handled.
LEMMA HandledFirst ==
    ASSUME NEW V, NEW frames \in Seq(V), NEW i \in 0 .. Len(frames)
    PROVE  IsPrefix(Handled(SubSeq(frames, 1, i)), Handled(frames))
<1>1. PICK n, first : n = Len(frames) /\ first = SubSeq(frames, 1, i)
  OBVIOUS
<1>2. n \in Nat /\ i \in Nat /\ i =< n
  BY <1>1, LenProperties
<1>3. Len(first) = i /\ \A j \in 1 .. i : first[j] = frames[j]
  <2>1. \A k \in 1 .. i : frames[k] \in V
    BY <1>1, <1>2, ElementOfSeq
  <2> QED
    BY <1>1, <1>2, <2>1
<1>4. PICK r : /\ r[0] = <<>>
               /\ \A j \in 1 .. n : r[j] = HandleFrame(r[j - 1], frames[j])
               /\ Handled(frames) = r[n]
  BY <1>1, <1>2, HandledTurns
<1>5. PICK q : /\ q[0] = <<>>
               /\ \A j \in 1 .. i : q[j] = HandleFrame(q[j - 1], first[j])
               /\ Handled(first) = q[i]
  BY <1>2, <1>3, HandledTurns
<1>6. \A j \in 0 .. i : q[j] = r[j]
  <2> DEFINE E == {j \in 0 .. i : q[j] = r[j]}
  <2>1. 0 \in E
    BY <1>2, <1>4, <1>5
  <2>2. ASSUME NEW j \in 0 .. i - 1, j \in E PROVE j + 1 \in E
    <3>1. j + 1 \in 1 .. i /\ j + 1 \in 1 .. n /\ j + 1 \in 0 .. i /\ (j + 1) - 1 = j
      BY <1>2
    <3>2. /\ q[j + 1] = HandleFrame(q[j], first[j + 1]) /\ r[j + 1] = HandleFrame(r[j], frames[j + 1])
          /\ first[j + 1] = frames[j + 1]
      BY <1>3, <1>4, <1>5, <3>1
    <3>3. q[j] = r[j]
      BY <2>2
    <3>4. q[j + 1] = r[j + 1]
      BY <3>2, <3>3, Zenon
    <3> QED
      BY <3>1, <3>4
  <2> HIDE DEF E
  <2>3. \A j \in 0 .. i : j \in E
    BY <1>2, <2>1, <2>2, UpTo
  <2> QED
    BY <2>3 DEF E
<1>7. \A j \in 0 .. n : r[j] \in Seq(V)
  <2> DEFINE E == {j \in 0 .. n : r[j] \in Seq(V)}
  <2>1. 0 \in E
    <3>1. r[0] \in Seq(V)
      BY <1>4, EmptySeq
    <3> QED
      BY <1>2, <3>1
  <2>2. ASSUME NEW j \in 0 .. n - 1, j \in E PROVE j + 1 \in E
    <3>1. j + 1 \in 1 .. n /\ j + 1 \in 0 .. n /\ (j + 1) - 1 = j
      BY <1>2
    <3>2. PICK x, y, e : x = r[j] /\ y = r[j + 1] /\ e = frames[j + 1]
      OBVIOUS
    <3>3. y = HandleFrame(x, e) /\ x \in Seq(V) /\ e \in V
      BY <1>1, <1>4, <2>2, <3>1, <3>2, ElementOfSeq
    <3>4. y \in Seq(V)
      BY <3>3, AppendProperties DEF HandleFrame
    <3> QED
      BY <3>1, <3>2, <3>4
  <2> HIDE DEF E
  <2>3. \A j \in 0 .. n : j \in E
    BY <1>2, <2>1, <2>2, UpTo
  <2> QED
    BY <2>3 DEF E
<1>8. \A j \in 0 .. n : j >= i => Starts(r[i], r[j])
  <2> DEFINE E == {j \in 0 .. n : j >= i => Starts(r[i], r[j])}
  <2>0. PICK a : a = r[i]
    OBVIOUS
  <2>1. a \in Seq(V) /\ Len(a) \in Nat
    BY <1>2, <1>7, <2>0, LenProperties
  <2>2. Starts(a, a)
    BY <2>1 DEF Starts
  <2>3. 0 \in E
    <3>1. 0 >= i => i = 0
      BY <1>2
    <3> QED
      BY <1>2, <2>0, <2>2, <3>1
  <2>4. ASSUME NEW j \in 0 .. n - 1, j \in E PROVE j + 1 \in E
    <3>1. j + 1 \in 1 .. n /\ j + 1 \in 0 .. n /\ (j + 1) - 1 = j /\ j \in 0 .. n
      BY <1>2
    <3>2. CASE j + 1 = i
      BY <2>0, <2>2, <3>1, <3>2
    <3>3. CASE j + 1 # i /\ j + 1 >= i
      <4>1. j >= i
        BY <1>2, <3>3
      <4>2. PICK x, y, e : x = r[j] /\ y = r[j + 1] /\ e = frames[j + 1]
        OBVIOUS
      <4>3. y = HandleFrame(x, e) /\ x \in Seq(V) /\ e \in V /\ Starts(a, x)
        BY <1>1, <1>4, <1>7, <2>0, <2>4, <3>1, <4>1, <4>2, ElementOfSeq
      <4>4. Starts(a, y)
        <5>1. CASE Last(e) = <<>>
          BY <4>3, <5>1 DEF HandleFrame
        <5>2. CASE Last(e) # <<>>
          <6>1. y = Append(x, e)
            BY <4>3, <5>2 DEF HandleFrame
          <6>2. Len(y) = Len(x) + 1 /\ Len(x) \in Nat /\ \A k \in 1 .. Len(x) : y[k] = x[k]
            BY <4>3, <6>1
          <6> QED
            BY <2>1, <4>3, <6>2 DEF Starts
        <5> QED
          BY <5>1, <5>2
      <4> QED
        BY <2>0, <3>1, <4>2, <4>4
    <3>4. CASE ~ (j + 1 >= i)
      BY <3>1, <3>4
    <3> QED
      BY <3>2, <3>3, <3>4
  <2> HIDE DEF E
  <2>5. \A j \in 0 .. n : j \in E
    BY <1>2, <2>3, <2>4, UpTo
  <2> QED
    BY <2>5 DEF E
<1>9. PICK a, b : a = r[i] /\ b = r[n]
  OBVIOUS
<1>10. a \in Seq(V) /\ b \in Seq(V) /\ Starts(a, b)
  BY <1>2, <1>7, <1>8, <1>9
<1>11. IsPrefix(a, b)
  <2>1. Len(a) \in Nat /\ Len(b) \in Nat /\ Len(a) =< Len(b) /\ \A j \in 1 .. Len(a) : a[j] = b[j]
    BY <1>10, LenProperties DEF Starts
  <2>2. SubSeq(a, 1, Len(a)) = SubSeq(b, 1, Len(a))
    BY <2>1
  <2> QED
    BY <2>1, <2>2 DEF IsPrefix
<1>12. Handled(first) = a /\ Handled(frames) = b
  BY <1>2, <1>4, <1>5, <1>6, <1>9
<1> QED
  BY <1>1, <1>11, <1>12

\* An empty frame in front changes nothing.
LEMMA HandledBehindEmpty ==
    ASSUME NEW V, NEW empty \in V, Last(empty) = <<>>, NEW frames \in Seq(V)
    PROVE  Handled(<<empty>> \o frames) = Handled(frames)
<1>1. PICK s, n, all : s = <<empty>> /\ n = Len(frames) /\ all = s \o frames
  OBVIOUS
<1>2. s \in Seq(V) /\ Len(s) = 1 /\ s[1] = empty
  BY <1>1
<1>3. /\ Len(all) = Len(s) + n /\ n \in Nat
      /\ \A j \in 1 .. Len(s) : all[j] = s[j]
      /\ \A j \in 1 .. n : all[Len(s) + j] = frames[j]
  BY <1>1, <1>2, Concatenation
<1>4. Len(all) = n + 1 /\ n + 1 \in Nat /\ all[1] = empty /\ \A j \in 1 .. n : all[1 + j] = frames[j]
  BY <1>2, <1>3
<1>5. PICK r : /\ r[0] = <<>>
               /\ \A j \in 1 .. n : r[j] = HandleFrame(r[j - 1], frames[j])
               /\ Handled(frames) = r[n]
  BY <1>1, <1>3, HandledTurns
<1>6. PICK q : /\ q[0] = <<>>
               /\ \A j \in 1 .. n + 1 : q[j] = HandleFrame(q[j - 1], all[j])
               /\ Handled(all) = q[n + 1]
  BY <1>4, HandledTurns
<1>7. q[1] = <<>>
  <2>1. 1 \in 1 .. n + 1 /\ 1 - 1 = 0
    BY <1>3
  <2>2. q[1] = HandleFrame(<<>>, empty)
    BY <1>4, <1>6, <2>1
  <2> QED
    BY <2>2 DEF HandleFrame
<1>8. \A j \in 0 .. n : q[1 + j] = r[j]
  <2> DEFINE E == {j \in 0 .. n : q[1 + j] = r[j]}
  <2>1. 0 \in E
    BY <1>3, <1>5, <1>7
  <2>2. ASSUME NEW j \in 0 .. n - 1, j \in E PROVE j + 1 \in E
    <3>1. /\ j + 1 \in 1 .. n /\ 1 + (j + 1) \in 1 .. n + 1 /\ j + 1 \in 0 .. n /\ (j + 1) - 1 = j
          /\ (1 + (j + 1)) - 1 = 1 + j
      BY <1>3
    <3>2. /\ q[1 + (j + 1)] = HandleFrame(q[1 + j], all[1 + (j + 1)])
          /\ r[j + 1] = HandleFrame(r[j], frames[j + 1])
          /\ all[1 + (j + 1)] = frames[j + 1]
      BY <1>4, <1>5, <1>6, <3>1
    <3>3. q[1 + j] = r[j]
      BY <2>2
    <3>4. q[1 + (j + 1)] = r[j + 1]
      BY <3>2, <3>3, Zenon
    <3> QED
      BY <3>1, <3>4
  <2> HIDE DEF E
  <2>3. \A j \in 0 .. n : j \in E
    BY <1>3, <2>1, <2>2, UpTo
  <2> QED
    BY <2>3 DEF E
<1> QED
  BY <1>1, <1>3, <1>5, <1>6, <1>8

\* A frame takes three bytes at least.
LEMMA LayoutLength ==
    ASSUME NEW parts, IsLayout(parts)
    PROVE  parts \in Seq(Seq(Byte)) /\ Len(FlattenSeq(parts)) >= 3
<1>1. PICK data : data = <<>>
  OBVIOUS
<1>2. data \in Seq(Byte) /\ Len(data) = 0 /\ 0 \in 0 .. Len(data)
  BY <1>1, EmptySeq
<1>3. Follows(data, 0, FlattenSeq(parts))
  BY <1>2 DEF Follows
<1> QED
  BY <1>2, <1>3, FrameReads

\* Ends that are apart.
LEMMA EndsClimb ==
    ASSUME NEW N \in Nat, NEW e \in [0 .. N -> Nat], \A i \in 1 .. N : e[i - 1] + 1 =< e[i]
    PROVE  \A m \in 0 .. N : \A k \in 0 .. m : e[k] + (m - k) =< e[m]
<1> DEFINE E == {m \in 0 .. N : \A k \in 0 .. m : e[k] + (m - k) =< e[m]}
<1>1. 0 \in E
  OBVIOUS
<1>2. ASSUME NEW m \in 0 .. N - 1, m \in E PROVE m + 1 \in E
  <2>1. m + 1 \in 1 .. N /\ m + 1 \in 0 .. N /\ (m + 1) - 1 = m
    OBVIOUS
  <2>2. e[m] + 1 =< e[m + 1] /\ e[m] \in Nat /\ e[m + 1] \in Nat
    BY <2>1
  <2>3. ASSUME NEW k \in 0 .. m + 1 PROVE e[k] + ((m + 1) - k) =< e[m + 1]
    <3>1. CASE k = m + 1
      BY <2>2, <3>1
    <3>2. CASE k # m + 1
      <4>1. k \in 0 .. m /\ e[k] \in Nat
        BY <3>2
      <4>2. e[k] + (m - k) =< e[m]
        BY <1>2, <4>1
      <4>3. PICK u, v, w : u = e[k] /\ v = e[m] /\ w = e[m + 1]
        OBVIOUS
      <4>4. u \in Nat /\ v \in Nat /\ w \in Nat /\ u + (m - k) =< v /\ v + 1 =< w
        BY <2>2, <4>1, <4>2, <4>3
      <4>5. u + ((m + 1) - k) =< w
        BY <4>1, <4>4
      <4> QED
        BY <4>3, <4>5
    <3> QED
      BY <3>1, <3>2
  <2> QED
    BY <2>1, <2>3
<1> HIDE DEF E
<1>3. \A m \in 0 .. N : m \in E
  BY <1>1, <1>2, UpTo
<1> QED
  BY <1>3 DEF E

\* The frames P lie end to end in the data, as far as the data goes: e[i] is
\* where the i-th ends.
Laid(data, P, e) ==
    /\ P \in Seq(Seq(Seq(Byte)))
    /\ \A i \in 1 .. Len(P) : IsLayout(P[i])
    /\ e \in [0 .. Len(P) -> Nat] /\ e[0] = 0
    /\ \A i \in 1 .. Len(P) : e[i] = e[i - 1] + Len(FlattenSeq(P[i]))
    /\ \A i \in 1 .. Len(P) : Follows(data, e[i - 1], FlattenSeq(P[i]))
    /\ Len(data) =< e[Len(P)]

\* The ends of frames are apart.
LEMMA LaidClimb ==
    ASSUME NEW data, NEW P, NEW e, Laid(data, P, e)
    PROVE  \A m \in 0 .. Len(P) : \A k \in 0 .. m : e[k] + (m - k) =< e[m]
<1>1. PICK N : N = Len(P)
  OBVIOUS
<1>2. N \in Nat /\ e \in [0 .. N -> Nat]
  BY <1>1, LenProperties DEF Laid
<1>3. ASSUME NEW k \in 1 .. N PROVE e[k - 1] + 1 =< e[k]
  <2>1. IsLayout(P[k]) /\ e[k] = e[k - 1] + Len(FlattenSeq(P[k]))
    BY <1>1 DEF Laid
  <2>2. P[k] \in Seq(Seq(Byte)) /\ Len(FlattenSeq(P[k])) >= 3
    BY <2>1, LayoutLength
  <2>3. FlattenSeq(P[k]) \in Seq(Byte)
    BY <2>2, FlattenSeqProperty
  <2>4. PICK l : l = Len(FlattenSeq(P[k]))
    OBVIOUS
  <2>5. l \in Nat /\ l >= 3 /\ e[k] = e[k - 1] + l
    BY <2>1, <2>2, <2>3, <2>4, LenProperties
  <2>6. k - 1 \in 0 .. N
    BY <1>2
  <2>7. e[k - 1] \in Nat
    BY <1>2, <2>6
  <2> QED
    BY <2>5, <2>7
<1> QED
  BY <1>1, <1>2, <1>3, EndsClimb

\* The first i frames have been read: all that the data holds, or more are to
\* come; or the data broke off in the next one.
Reached(loop, data, P, e, j, i) ==
    /\ loop.frames = SubSeq(P, 1, i)
    /\ \/ /\ loop.status = "ok" /\ loop.at = e[i] /\ e[i] =< Len(data)
          /\ j =< i \/ e[i] = Len(data)
       \/ loop.status # "ok" /\ Len(data) < e[Len(P)]

\* One turn of the frame loop.
LEMMA FrameTurn ==
    ASSUME NEW data \in Seq(Byte), NEW P, NEW e, Laid(data, P, e),
           NEW j \in Nat, NEW i \in 0 .. Len(P), NEW x, Reached(x, data, P, e, j, i)
    PROVE  \E k \in 0 .. Len(P) : Reached(NextFrame(data, x), data, P, e, j + 1, k)
<1>1. PICK N : N = Len(P)
  OBVIOUS
<1>2. /\ N \in Nat /\ P \in Seq(Seq(Seq(Byte))) /\ e \in [0 .. N -> Nat] /\ i \in 0 .. N
      /\ Len(data) \in Nat /\ Len(data) =< e[N]
  BY <1>1, LenProperties DEF Laid
<1>4. \A m \in 0 .. N : \A k \in 0 .. m : e[k] + (m - k) =< e[m]
  BY <1>1, LaidClimb
<1>5. PICK y : y = NextFrame(data, x)
  OBVIOUS
<1>6. CASE x.status # "ok" \/ x.at = Len(data)
  <2>1. y = x
    BY <1>5, <1>6 DEF NextFrame
  <2>2. Reached(y, data, P, e, j + 1, i)
    BY <1>6, <2>1 DEF Reached
  <2> QED
    BY <1>5, <2>2
<1>7. CASE x.status = "ok" /\ x.at # Len(data)
  <2>1. x.at = e[i] /\ e[i] < Len(data) /\ j =< i /\ x.frames = SubSeq(P, 1, i)
    <3>1. x.at = e[i] /\ e[i] =< Len(data) /\ x.frames = SubSeq(P, 1, i)
      BY <1>7 DEF Reached
    <3>2. e[i] # Len(data) /\ j =< i
      BY <1>7, <3>1 DEF Reached
    <3> QED
      BY <1>2, <3>1, <3>2
  <2>2. i < N /\ i + 1 \in 1 .. N /\ i + 1 \in 0 .. N /\ (i + 1) - 1 = i
    <3>1. i # N
      BY <1>2, <2>1
    <3> QED
      BY <1>2, <3>1
  <2>3. PICK frame, parts, b, p, q :
          /\ frame = DecodeFrame(data, p) /\ parts = P[i + 1] /\ b = FlattenSeq(parts)
          /\ p = e[i] /\ q = e[i + 1]
    OBVIOUS
  <2>4. IsLayout(parts) /\ Follows(data, p, b) /\ q = p + Len(b)
    BY <1>1, <2>2, <2>3 DEF Laid
  <2>5. p \in 0 .. Len(data) /\ p \in Nat /\ q \in Nat
    BY <1>2, <2>1, <2>2, <2>3
  <2>6. Outcome(frame, data, q, parts)
    BY <2>3, <2>4, <2>5, FrameReads
  <2>7. y = [status |-> frame.status, at |-> frame.at,
             frames |-> IF frame.status = "ok" THEN Append(x.frames, frame.out) ELSE x.frames]
    BY <1>5, <1>7, <2>1, <2>3 DEF NextFrame
  <2>8. CASE q =< Len(data)
    <3>1. frame.status = "ok" /\ frame.at = q /\ frame.out = parts
      BY <2>6, <2>8 DEF Outcome, At
    <3>2. Append(SubSeq(P, 1, i), P[i + 1]) = SubSeq(P, 1, i + 1)
      <4>1. PICK T : T = Seq(Seq(Byte))
        OBVIOUS
      <4>2. P \in Seq(T) /\ i \in Nat /\ i + 1 =< Len(P)
        BY <1>1, <1>2, <2>2, <4>1
      <4> QED
        BY <4>2
    <3>3. y.status = "ok" /\ y.at = q /\ y.frames = SubSeq(P, 1, i + 1)
      BY <2>1, <2>3, <2>7, <3>1, <3>2
    <3>4. j + 1 =< i + 1
      BY <1>2, <2>1
    <3>5. Reached(y, data, P, e, j + 1, i + 1)
      BY <2>3, <2>8, <3>3, <3>4 DEF Reached
    <3> QED
      BY <1>1, <1>5, <2>2, <3>5
  <2>9. CASE q > Len(data)
    <3>1. frame.status # "ok"
      BY <2>6, <2>9 DEF Outcome
    <3>2. y.status # "ok" /\ y.frames = SubSeq(P, 1, i)
      BY <2>1, <2>7, <3>1
    <3>3. Len(data) < e[N]
      <4>1. e[i + 1] + (N - (i + 1)) =< e[N]
        <5>1. N \in 0 .. N /\ i + 1 \in 0 .. N
          BY <1>2, <2>2
        <5> QED
          BY <1>4, <5>1
      <4>2. e[N] \in Nat
        BY <1>2
      <4> QED
        BY <1>2, <2>2, <2>3, <2>5, <2>9, <4>1, <4>2
    <3>4. Reached(y, data, P, e, j + 1, i)
      BY <1>1, <3>2, <3>3 DEF Reached
    <3> QED
      BY <1>5, <3>4
  <2> QED
    BY <1>2, <2>5, <2>8, <2>9
<1> QED
  BY <1>6, <1>7

\* The frame loop reads the frames back, as many as the data holds.
LEMMA DecodeFramesReads ==
    ASSUME NEW data \in Seq(Byte), NEW P, NEW e, Laid(data, P, e)
    PROVE  \E i \in 0 .. Len(P) :
              /\ DecodeFrames(data).frames = SubSeq(P, 1, i)
              /\ Len(data) = e[Len(P)] => i = Len(P)
<1>1. PICK n, N : n = Len(data) /\ N = Len(P)
  OBVIOUS
<1>2. /\ n \in Nat /\ N \in Nat /\ P \in Seq(Seq(Seq(Byte))) /\ e \in [0 .. N -> Nat]
      /\ e[0] = 0 /\ n =< e[N]
  BY <1>1, LenProperties DEF Laid
<1>3. PICK r : /\ r[0] = [status |-> "ok", at |-> 0, frames |-> <<>>]
               /\ \A j \in 1 .. n : r[j] = NextFrame(data, r[j - 1])
               /\ DecodeFrames(data) = r[n]
  BY <1>1, <1>2, FrameTurns
<1> DEFINE E == {j \in 0 .. n : \E i \in 0 .. N : Reached(r[j], data, P, e, j, i)}
<1>4. 0 \in E
  <2>1. SubSeq(P, 1, 0) = <<>>
    BY <1>2
  <2>2. PICK x : x = r[0]
    OBVIOUS
  <2>3. x.status = "ok" /\ x.at = 0 /\ x.frames = <<>>
    BY <1>3, <2>2
  <2>4. Reached(x, data, P, e, 0, 0)
    BY <1>1, <1>2, <2>1, <2>3 DEF Reached
  <2>5. 0 \in 0 .. N /\ 0 \in 0 .. n
    BY <1>2
  <2> QED
    BY <2>2, <2>4, <2>5
<1>5. ASSUME NEW j \in 0 .. n - 1, j \in E PROVE j + 1 \in E
  <2>1. j + 1 \in 1 .. n /\ j + 1 \in 0 .. n /\ (j + 1) - 1 = j /\ j \in Nat
    BY <1>2
  <2>2. PICK x, y : x = r[j] /\ y = r[j + 1]
    OBVIOUS
  <2>3. y = NextFrame(data, x)
    BY <1>3, <2>1, <2>2
  <2>4. PICK i \in 0 .. N : Reached(x, data, P, e, j, i)
    BY <1>5, <2>2
  <2>5. \E k \in 0 .. Len(P) : Reached(y, data, P, e, j + 1, k)
    BY <1>1, <2>1, <2>3, <2>4, FrameTurn
  <2> QED
    BY <1>1, <2>1, <2>2, <2>5
<1> HIDE DEF E
<1>6. \A j \in 0 .. n : j \in E
  BY <1>2, <1>4, <1>5, UpTo
<1>7. PICK i \in 0 .. N : Reached(r[n], data, P, e, n, i)
  <2>1. n \in 0 .. n
    BY <1>2
  <2> QED
    BY <1>6, <2>1 DEF E
<1>8. r[n].frames = SubSeq(P, 1, i)
  BY <1>7 DEF Reached
<1>9. ASSUME n = e[N] PROVE i = N
  <2>1. e[i] =< n /\ (n =< i \/ e[i] = n)
    BY <1>1, <1>2, <1>7, <1>9 DEF Reached
  <2>2. PICK u : u = e[i]
    OBVIOUS
  <2>3. u \in Nat /\ i \in Nat /\ i =< N
    BY <1>2, <2>2
  <2>4. \A m \in 0 .. N : \A k \in 0 .. m : e[k] + (m - k) =< e[m]
    BY <1>1, LaidClimb
  <2>5. 0 + (i - 0) =< u
    <3>1. i \in 0 .. N /\ 0 \in 0 .. i
      BY <2>3
    <3> QED
      BY <1>2, <2>2, <2>4, <3>1
  <2>6. u + (N - i) =< n
    <3>1. N \in 0 .. N /\ i \in 0 .. N
      BY <1>2
    <3> QED
      BY <1>9, <2>2, <2>4, <3>1
  <2>7. u =< n /\ (n =< i \/ u = n)
    BY <2>1, <2>2
  <2> QED
    BY <1>2, <2>3, <2>5, <2>6, <2>7
<1> QED
  BY <1>1, <1>3, <1>8, <1>9

\* A sequence number below 16, in front of the frames, reads as a frame.
LEMMA SmallSeq ==
    ASSUME NEW seq \in Nat, seq < 16
    PROVE  /\ write_u24_le(seq) = <<seq, 0, 0>>
           /\ IsLayout(<<<<seq>>, <<0, 0>>, <<>>>>)
           /\ FlattenSeq(<<<<seq>>, <<0, 0>>, <<>>>>) = <<seq, 0, 0>>
<1>1. write_u24_le(seq) = <<seq, 0, 0>>
  <2>1. seq % 256 = seq /\ seq \div 256 = 0 /\ seq \div 65536 = 0 /\ 0 % 256 = 0
    OBVIOUS
  <2> QED
    BY <2>1 DEF write_u24_le
<1>2. PICK a, b, c, z, zero : a = <<seq>> /\ b = <<0, 0>> /\ c = <<>> /\ z = <<0, 0, 0>> /\ zero = <<0>>
  OBVIOUS
<1>3. /\ seq \in Byte /\ a \in Seq(Byte) /\ IsBytes(b, 2) /\ c \in Seq(Byte) /\ Len(c) = 0
      /\ IsBytes(z, 3) /\ IsBytes(zero, 1)
  BY <1>2 DEF IsBytes, Byte
<1>4. IsLayout(<<a, b, c>>)
  <2>1. PICK level : level = seq \div 32
    OBVIOUS
  <2>2. level = 0 /\ (seq \div 16) % 2 # 1
    BY <2>1
  <2>3. level \in Reliability /\ ~ is_reliable(level) /\ ~ is_sequenced(level) /\ ~ is_ordered(level)
    BY <2>2 DEF Reliability, is_reliable, is_sequenced, is_ordered, Reliable, ReliableOrdered,
                ReliableSequenced, UnreliableSequenced
  <2>4. Fields(seq, z, z, z, zero, c)
    BY <1>2, <1>3, <2>2, Zenon DEF Fields
  <2>5. IndexParts(seq, z, z, z, zero, c) = <<>>
    <3>1. IndexParts(seq, z, z, z, zero, c) = ((<<>> \o <<>>) \o <<>>) \o <<>>
      BY <1>2, <2>1, <2>3, Zenon DEF IndexParts, Optional
    <3>2. <<>> \o <<>> = <<>>
      OBVIOUS
    <3> QED
      BY <3>1, <3>2
  <2>6. payload_length(get_u16(b)) = Len(c)
    <3>1. get_u16(b) = 0
      BY <1>2 DEF get_u16
    <3>2. (0 + 7) % 65536 = 7 /\ 7 \div 8 = 0
      OBVIOUS
    <3> QED
      BY <1>3, <3>1, <3>2 DEF payload_length
  <2>7. <<a, b, c>> = <<a, b>> \o (<<>> \o <<c>>)
    <3>1. PICK T : T = Seq(Byte)
      OBVIOUS
    <3>2. a \in T /\ b \in T /\ c \in T
      BY <1>3, <3>1 DEF IsBytes
    <3>3. <<>> \o <<c>> = <<c>>
      BY <3>2, ConcatEmptySeq
    <3>4. <<a, b>> \o <<c>> = <<a, b, c>>
      <4>1. PICK u, v, w : u = <<a>> /\ v = <<b>> /\ w = <<c>>
        OBVIOUS
      <4>2. u \in Seq(T) /\ v \in Seq(T) /\ w \in Seq(T)
        BY <3>2, <4>1
      <4>3. Associative(u, v, w)
        BY <4>2, Associates, Zenon
      <4>4. Prepended(a, b, c, c) /\ Prepended(b, c, c, c)
        BY Tuples, Zenon
      <4>5. u \o v = <<a, b>> /\ v \o w = <<b, c>> /\ u \o <<b, c>> = <<a, b, c>>
        BY <4>1, <4>4, Zenon DEF Prepended
      <4>6. (u \o v) \o w = u \o (v \o w)
        BY <4>3, Zenon DEF Associative
      <4> QED
        BY <4>1, <4>5, <4>6, Zenon
    <3> QED
      BY <3>3, <3>4, Zenon
  <2>8. <<a, b, c>> = <<<<seq>>, b>> \o (IndexParts(seq, z, z, z, zero, c) \o <<c>>)
    BY <1>2, <2>5, <2>7, Zenon
  <2> QED
    BY <1>3, <2>1, <2>3, <2>4, <2>6, <2>8, Zenon DEF IsLayout
<1>5. FlattenSeq(<<a, b, c>>) = <<seq, 0, 0>>
  <2>1. PICK s : s = <<a, b, c>>
    OBVIOUS
  <2>2. s \in Seq(Seq(Byte)) /\ Len(s) = 3 /\ s[1] = a /\ s[2] = b /\ s[3] = c
    <3>1. PICK T : T = Seq(Byte)
      OBVIOUS
    <3>2. a \in T /\ b \in T /\ c \in T
      BY <1>3, <3>1 DEF IsBytes
    <3>3. s \in Seq(T) /\ Len(s) = 3 /\ s[1] = a /\ s[2] = b /\ s[3] = c
      BY <2>1, <3>2
    <3> QED
      BY <3>1, <3>3
  <2>3. PICK h : /\ h[0] = << >>
                 /\ \A i \in 1 .. Len(s) : h[i] = h[i - 1] \o s[i]
                 /\ FlattenSeq(s) = h[Len(s)]
    BY <2>2, FlattenSeqLoop
  <2>4. h[1] = <<>> \o a /\ h[2] = h[1] \o b /\ h[3] = h[2] \o c /\ FlattenSeq(s) = h[3]
    <3>1. 1 \in 1 .. 3 /\ 2 \in 1 .. 3 /\ 3 \in 1 .. 3 /\ 1 - 1 = 0 /\ 2 - 1 = 1 /\ 3 - 1 = 2
      OBVIOUS
    <3> QED
      BY <2>2, <2>3, <3>1, Zenon
  <2>5. h[1] = a
    BY <1>3, <2>4, ConcatEmptySeq
  <2>6. h[2] = <<seq, 0, 0>>
    <3>1. Prepended(seq, 0, 0, 0)
      BY Tuples
    <3> QED
      BY <1>2, <2>4, <2>5, <3>1, Zenon DEF Prepended
  <2>7. h[3] = h[2]
    <3>1. h[2] \in Seq(Byte)
      BY <1>3, <2>6 DEF Byte
    <3> QED
      BY <1>2, <2>4, <3>1, ConcatEmptySeq
  <2> QED
    BY <2>1, <2>4, <2>6, <2>7
<1> QED
  BY <1>1, <1>2, <1>4, <1>5

\* The first byte of a datagram says that it is one.
LEMMA DatagramIdIs == is_datagram(DatagramId)
<1>1. (132 \div 128) % 2 = 1 /\ (132 \div 64) % 2 = 0 /\ (132 \div 32) % 2 = 0
  OBVIOUS
<1> QED
  BY <1>1 DEF is_datagram, Bit, DatagramId

\* The beginning of frames end to end is laid out.
LEMMA LaidOut ==
    ASSUME NEW P \in Seq(Seq(Seq(Byte))), \A i \in 1 .. Len(P) : IsLayout(P[i]),
           NEW flat \in Seq(Seq(Byte)), Len(flat) = Len(P),
           \A i \in 1 .. Len(P) : flat[i] = FlattenSeq(P[i]),
           NEW data, Begins(data, FlattenSeq(flat))
    PROVE  \E e : Laid(data, P, e) /\ e[Len(P)] = Len(FlattenSeq(flat))
<1>1. PICK N, D : N = Len(flat) /\ D = FlattenSeq(flat)
  OBVIOUS
<1>2. PICK e \in [0 .. Len(flat) -> Nat] :
         /\ e[0] = 0
         /\ \A i \in 1 .. Len(flat) : e[i] = e[i - 1] + Len(flat[i])
         /\ Len(FlattenSeq(flat)) = e[Len(flat)]
         /\ \A i \in 1 .. Len(flat) : \A j \in 1 .. Len(flat[i]) :
               FlattenSeq(flat)[e[i - 1] + j] = flat[i][j]
  BY FlattenSeqProperty
<1>3. N \in Nat /\ Len(data) \in Nat /\ Len(data) =< Len(D)
  BY <1>1, LenProperties DEF Begins
<1>4. \A i \in 1 .. N : e[i] = e[i - 1] + Len(FlattenSeq(P[i]))
  BY <1>1, <1>2
<1>5. ASSUME NEW i \in 1 .. N PROVE Follows(data, e[i - 1], FlattenSeq(P[i]))
  <2>1. PICK b, p : b = FlattenSeq(P[i]) /\ p = e[i - 1]
    OBVIOUS
  <2>2. b = flat[i] /\ p \in Nat
    <3>1. i - 1 \in 0 .. N
      BY <1>3
    <3> QED
      BY <1>1, <1>2, <2>1, <3>1
  <2>3. ASSUME NEW j \in 1 .. Len(b), p + j =< Len(data) PROVE data[p + j] = b[j]
    <3>1. j \in Nat /\ j >= 1
      OBVIOUS
    <3>2. p + j \in 1 .. Len(data)
      BY <1>3, <2>2, <2>3, <3>1
    <3>3. data[p + j] = D[p + j]
      BY <1>1, <3>2 DEF Begins
    <3>4. D[p + j] = flat[i][j]
      BY <1>1, <1>2, <2>1, <2>2
    <3> QED
      BY <2>2, <3>3, <3>4
  <2> QED
    BY <2>1, <2>3 DEF Follows
<1>6. Laid(data, P, e)
  BY <1>1, <1>2, <1>3, <1>4, <1>5, Zenon DEF Laid
<1> QED
  BY <1>1, <1>2, <1>6

\* The sequence number in front of the frames of a datagram, and the frames.
SeqParts(seq) == <<<<seq>>, <<0, 0>>, <<>>>>

\* The datagram as one list of frames P, their bytes, and the ones sent.
DatagramIs(seq, frames, P, flat, sent) ==
    /\ sent = PartsSent(frames) /\ sent \in Seq(Seq(Seq(Byte)))
    /\ P = <<SeqParts(seq)>> \o sent /\ SeqParts(seq) \in Seq(Seq(Byte))
    /\ P \in Seq(Seq(Seq(Byte))) /\ \A i \in 1 .. Len(P) : IsLayout(P[i])
    /\ flat \in Seq(Seq(Byte)) /\ Len(flat) = Len(P)
    /\ \A i \in 1 .. Len(P) : flat[i] = FlattenSeq(P[i])
    /\ Len(FlattenSeq(flat)) >= 3
    /\ encode_datagram(seq, [i \in DOMAIN frames |-> EncodeFrame(frames[i])])
         = <<DatagramId>> \o FlattenSeq(flat)
    /\ \A i \in 1 .. 3 : FlattenSeq(flat)[i] = write_u24_le(seq)[i]

\* What follows the first byte of a datagram is laid out like frames: the
\* sequence number is the first of them.
LEMMA DatagramLaidOut ==
    ASSUME PayloadsFit, NEW seq \in DatagramSeqs, seq < 16, NEW n \in {1, 2},
           NEW frames \in [1 .. n -> FramesSent]
    PROVE  \E P, flat, sent : DatagramIs(seq, frames, P, flat, sent)
<1>1. PICK w, empty, sent, enc, T :
         /\ w = write_u24_le(seq) /\ empty = SeqParts(seq) /\ sent = PartsSent(frames)
         /\ enc = [i \in DOMAIN frames |-> EncodeFrame(frames[i])] /\ T = Seq(Seq(Byte))
  OBVIOUS
<1>2. seq \in Nat /\ n \in Nat
  BY PacketAssumption, ThreeBytesNat
<1>3. w = <<seq, 0, 0>> /\ IsLayout(empty) /\ FlattenSeq(empty) = w
  BY <1>1, <1>2, SmallSeq DEF SeqParts
<1>4. empty \in T
  BY <1>1, <1>3, LayoutLength
<1>5. w \in Seq(Byte) /\ Len(w) = 3
  BY <1>1, <1>2, IntegerBytes DEF IsBytes
<1>6. DOMAIN sent = 1 .. n /\ DOMAIN enc = 1 .. n
  BY <1>1 DEF PartsSent
<1>7. ASSUME NEW i \in 1 .. n
      PROVE  IsLayout(sent[i]) /\ sent[i] \in T /\ enc[i] = FlattenSeq(sent[i]) /\ enc[i] \in Seq(Byte)
  <2>1. frames[i] \in FramesSent
    OBVIOUS
  <2>2. sent[i] = Parts(frames[i]) /\ enc[i] = EncodeFrame(frames[i])
    BY <1>1 DEF PartsSent
  <2>3. IsLayout(sent[i])
    BY <2>1, <2>2, PartsLayout
  <2>4. sent[i] \in T
    BY <1>1, <2>3, LayoutLength
  <2>5. enc[i] = FlattenSeq(sent[i])
    BY <2>2, Zenon DEF EncodeFrame
  <2>6. enc[i] \in Seq(Byte)
    BY <1>1, <2>4, <2>5, FlattenSeqProperty
  <2> QED
    BY <2>3, <2>4, <2>5, <2>6
<1>8. sent \in Seq(T) /\ Len(sent) = n
  <2>1. sent \in [1 .. n -> T]
    <3>1. sent = [i \in 1 .. n |-> sent[i]]
      BY <1>1 DEF PartsSent
    <3> QED
      BY <1>7, <3>1, Zenon
  <2> QED
    BY <1>2, <2>1
<1>9. enc \in Seq(Seq(Byte)) /\ Len(enc) = n
  <2>1. enc \in [1 .. n -> Seq(Byte)]
    <3>1. enc = [i \in 1 .. n |-> enc[i]]
      BY <1>1
    <3> QED
      BY <1>7, <3>1, Zenon
  <2> QED
    BY <1>2, <2>1
<1>10. PICK a, b, P, flat : a = <<empty>> /\ b = <<w>> /\ P = a \o sent /\ flat = b \o enc
  OBVIOUS
<1>11. /\ a \in Seq(T) /\ Len(a) = 1 /\ a[1] = empty
  BY <1>4, <1>10
<1>12. b \in Seq(Seq(Byte)) /\ Len(b) = 1 /\ b[1] = w
  <2>1. PICK U : U = Seq(Byte)
    OBVIOUS
  <2>2. b \in Seq(U) /\ Len(b) = 1 /\ b[1] = w
    BY <1>5, <1>10, <2>1
  <2> QED
    BY <2>1, <2>2
<1>13. /\ P \in Seq(T) /\ Len(P) = 1 + n
       /\ P[1] = empty /\ \A j \in 1 .. n : P[1 + j] = sent[j]
  <2>1. /\ P \in Seq(T) /\ Len(P) = Len(a) + Len(sent)
        /\ \A j \in 1 .. Len(a) : P[j] = a[j]
        /\ \A j \in 1 .. Len(sent) : P[Len(a) + j] = sent[j]
    BY <1>8, <1>10, <1>11, Concatenation
  <2> QED
    BY <1>8, <1>11, <2>1
<1>14. /\ flat \in Seq(Seq(Byte)) /\ Len(flat) = 1 + n
       /\ flat[1] = w /\ \A j \in 1 .. n : flat[1 + j] = enc[j]
  <2>1. /\ flat \in Seq(Seq(Byte)) /\ Len(flat) = Len(b) + Len(enc)
        /\ \A j \in 1 .. Len(b) : flat[j] = b[j]
        /\ \A j \in 1 .. Len(enc) : flat[Len(b) + j] = enc[j]
    BY <1>9, <1>10, <1>12, Concatenation
  <2> QED
    BY <1>9, <1>12, <2>1
<1>15. ASSUME NEW i \in 1 .. 1 + n PROVE IsLayout(P[i]) /\ flat[i] = FlattenSeq(P[i])
  <2>1. CASE i = 1
    BY <1>3, <1>13, <1>14, <2>1
  <2>2. CASE i # 1
    <3>1. PICK j \in 1 .. n : i = 1 + j
      <4>1. i - 1 \in 1 .. n /\ i = 1 + (i - 1)
        BY <1>2, <2>2
      <4> QED
        BY <4>1
    <3>2. P[i] = sent[j] /\ flat[i] = enc[j]
      BY <1>13, <1>14, <3>1
    <3> QED
      BY <1>7, <3>2, Zenon
  <2> QED
    BY <2>1, <2>2
<1>16. PICK q, D, id : q = FlattenSeq(enc) /\ D = FlattenSeq(flat) /\ id = <<DatagramId>>
  OBVIOUS
<1>17. q \in Seq(Byte) /\ id \in Seq(Byte)
  <2>1. DatagramId \in Byte
    BY DEF DatagramId, Byte
  <2> QED
    BY <1>9, <1>16, <2>1, FlattenSeqProperty
<1>18. D = w \o q
  <2>1. FlattenSeq(b \o enc) = FlattenSeq(b) \o FlattenSeq(enc)
    BY <1>9, <1>12, FlattenConcat
  <2>2. FlattenSeq(b) = w
    BY <1>5, <1>10, FlattenOne
  <2> QED
    BY <1>10, <1>16, <2>1, <2>2
<1>19. Len(D) >= 3 /\ \A i \in 1 .. 3 : D[i] = w[i]
  <2>1. /\ Len(D) = Len(w) + Len(q) /\ Len(q) \in Nat
        /\ \A i \in 1 .. Len(w) : D[i] = w[i]
    BY <1>5, <1>17, <1>18, Concatenation
  <2> QED
    BY <1>5, <2>1
<1>20. encode_datagram(seq, enc) = id \o D
  <2>1. Associative(id, w, q)
    BY <1>5, <1>17, Associates, Zenon
  <2>2. (id \o w) \o q = id \o (w \o q)
    BY <2>1, Zenon DEF Associative
  <2>3. encode_datagram(seq, enc) = (id \o w) \o q
    BY <1>1, <1>16, Zenon DEF encode_datagram
  <2> QED
    BY <1>18, <2>2, <2>3, Zenon
<1>21. /\ sent \in Seq(Seq(Seq(Byte))) /\ P = <<SeqParts(seq)>> \o sent
       /\ SeqParts(seq) \in Seq(Seq(Byte)) /\ P \in Seq(Seq(Seq(Byte)))
  BY <1>1, <1>4, <1>8, <1>10, <1>13, Zenon
<1>22. /\ \A i \in 1 .. Len(P) : IsLayout(P[i])
       /\ \A i \in 1 .. Len(P) : flat[i] = FlattenSeq(P[i])
       /\ Len(flat) = Len(P)
  BY <1>13, <1>14, <1>15
<1>23. /\ encode_datagram(seq, [i \in DOMAIN frames |-> EncodeFrame(frames[i])])
            = <<DatagramId>> \o FlattenSeq(flat)
       /\ Len(FlattenSeq(flat)) >= 3
       /\ \A i \in 1 .. 3 : FlattenSeq(flat)[i] = write_u24_le(seq)[i]
  BY <1>1, <1>16, <1>19, <1>20, Zenon
<1>24. sent = PartsSent(frames) /\ flat \in Seq(Seq(Byte))
  BY <1>1, <1>14
<1>25. DatagramIs(seq, frames, P, flat, sent)
  BY <1>21, <1>22, <1>23, <1>24, Zenon DEF DatagramIs
<1> QED
  BY <1>25

\* A datagram behind its first byte.
LEMMA BehindId ==
    ASSUME NEW D \in Seq(Byte), NEW full, full = <<DatagramId>> \o D
    PROVE  /\ Len(full) = 1 + Len(D) /\ full[1] = DatagramId
           /\ \A j \in 1 .. Len(D) : full[1 + j] = D[j]
<1>1. PICK id : id = <<DatagramId>>
  OBVIOUS
<1>2. id \in Seq(Byte) /\ Len(id) = 1 /\ id[1] = DatagramId
  <2>1. DatagramId \in Byte
    BY DEF DatagramId, Byte
  <2> QED
    BY <1>1, <2>1
<1>3. full = id \o D
  BY <1>1
<1>4. /\ Len(full) = Len(id) + Len(D)
      /\ \A j \in 1 .. Len(id) : full[j] = id[j]
      /\ \A j \in 1 .. Len(D) : full[Len(id) + j] = D[j]
  BY <1>2, <1>3, Concatenation
<1> QED
  BY <1>2, <1>4

\* A datagram of these pieces.
IsDatagramOf(full, flat) == full = <<DatagramId>> \o FlattenSeq(flat)

\* What is read of the bytes of a datagram.
DatagramReadAs(bytes, full, seq, frames) ==
    /\ IsPrefix(Handled(DecodeFrames(decode_datagram(bytes).frames).frames),
                Handled(PartsSent(frames)))
    /\ bytes = full =>
          /\ decode_datagram(bytes).seq = seq
          /\ Handled(DecodeFrames(decode_datagram(bytes).frames).frames)
               = Handled(PartsSent(frames))

\* What the receiver handles of the beginning of a datagram: the first of the
\* frames sent, and all of them if it is whole.
LEMMA DatagramReads ==
    ASSUME NEW seq \in DatagramSeqs, seq < 16, NEW frames, NEW P, NEW flat, NEW sent,
           DatagramIs(seq, frames, P, flat, sent),
           NEW full, IsDatagramOf(full, flat), NEW bytes, Begins(bytes, full)
    PROVE  DatagramReadAs(bytes, full, seq, frames)
<1> SUFFICES /\ IsPrefix(Handled(DecodeFrames(decode_datagram(bytes).frames).frames),
                         Handled(PartsSent(frames)))
             /\ bytes = full =>
                   /\ decode_datagram(bytes).seq = seq
                   /\ Handled(DecodeFrames(decode_datagram(bytes).frames).frames)
                        = Handled(PartsSent(frames))
  BY Zenon DEF DatagramReadAs
<1>1. full = <<DatagramId>> \o FlattenSeq(flat)
  BY Zenon DEF IsDatagramOf
<1>2. PICK N, D, id, V, empty :
         /\ N = Len(P) /\ D = FlattenSeq(flat) /\ id = <<DatagramId>> /\ V = Seq(Seq(Byte))
         /\ empty = SeqParts(seq)
  OBVIOUS
<1>3. /\ sent = PartsSent(frames) /\ sent \in Seq(V)
      /\ P = <<empty>> \o sent /\ empty \in V
      /\ P \in Seq(V) /\ \A i \in 1 .. Len(P) : IsLayout(P[i])
      /\ flat \in Seq(Seq(Byte)) /\ Len(flat) = Len(P)
      /\ \A i \in 1 .. Len(P) : flat[i] = FlattenSeq(P[i])
      /\ Len(D) >= 3
      /\ full = id \o D
      /\ \A i \in 1 .. 3 : D[i] = write_u24_le(seq)[i]
  BY <1>1, <1>2, Zenon DEF DatagramIs
<1>4. N \in Nat /\ D \in Seq(Byte) /\ Len(D) \in Nat
  <2>1. D \in Seq(Byte)
    BY <1>2, <1>3, FlattenSeqProperty
  <2> QED
    BY <1>2, <1>3, <2>1, LenProperties
<1>5. /\ Len(full) = 1 + Len(D) /\ full[1] = DatagramId
      /\ \A j \in 1 .. Len(D) : full[1 + j] = D[j]
  BY <1>2, <1>3, <1>4, BehindId
<1>6. /\ bytes \in Seq(Byte) /\ Len(bytes) \in Nat /\ Len(bytes) =< Len(full)
      /\ \A j \in 1 .. Len(bytes) : bytes[j] = full[j]
  BY LenProperties DEF Begins
<1>7. Last(empty) = <<>>
  <2>1. empty = <<<<seq>>, <<0, 0>>, <<>>>>
    BY <1>2 DEF SeqParts
  <2>2. Len(empty) = 3 /\ empty[3] = <<>>
    BY <2>1
  <2> QED
    BY <2>2, Zenon DEF Last
<1>8. Handled(P) = Handled(sent)
  BY <1>3, <1>7, HandledBehindEmpty
<1>9. CASE Len(bytes) < 4
  <2>1. decode_datagram(bytes).frames = <<>>
    BY <1>9 DEF decode_datagram
  <2>2. PICK data : data = decode_datagram(bytes).frames
    OBVIOUS
  <2>3. Begins(data, D)
    <3>1. data \in Seq(Byte) /\ Len(data) = 0
      BY <2>1, <2>2
    <3> QED
      BY <1>4, <3>1 DEF Begins
  <2>4. PICK e : Laid(data, P, e)
    BY <1>2, <1>3, <2>3, LaidOut
  <2>5. PICK i \in 0 .. Len(P) : DecodeFrames(data).frames = SubSeq(P, 1, i)
    BY <2>3, <2>4, DecodeFramesReads DEF Begins
  <2>6. IsPrefix(Handled(SubSeq(P, 1, i)), Handled(P))
    BY <1>3, HandledFirst
  <2>7. bytes # full
    BY <1>3, <1>4, <1>5, <1>6, <1>9
  <2> QED
    BY <1>3, <1>8, <2>2, <2>5, <2>6, <2>7
<1>10. CASE Len(bytes) >= 4
  <2>1. PICK data, b : data = SubSeq(bytes, 2, Len(bytes)) /\ b = SubSeq(bytes, 2, 4)
    OBVIOUS
  <2>2. /\ data \in Seq(Byte) /\ Len(data) = Len(bytes) - 1
        /\ \A j \in 1 .. Len(data) : data[j] = bytes[1 + j]
    BY <1>6, <1>10, <2>1
  <2>3. decode_datagram(bytes).frames = data /\ decode_datagram(bytes).seq = read_u24_le(b)
    <3>1. 1 \in 1 .. Len(bytes)
      BY <1>6, <1>10
    <3>2. is_datagram(bytes[1])
      BY <1>5, <1>6, <3>1, DatagramIdIs
    <3>3. ~ (Len(bytes) < 4 \/ ~ is_datagram(bytes[1]))
      BY <1>6, <1>10, <3>2
    <3> QED
      BY <2>1, <3>3 DEF decode_datagram
  <2>4. Begins(data, D)
    <3>1. Len(data) =< Len(D)
      BY <1>4, <1>5, <1>6, <2>2
    <3>2. ASSUME NEW j \in 1 .. Len(data) PROVE data[j] = D[j]
      <4>1. 1 + j \in 1 .. Len(bytes) /\ j \in 1 .. Len(D)
        BY <1>4, <1>5, <1>6, <2>2
      <4> QED
        BY <1>5, <1>6, <2>2, <4>1
    <3> QED
      BY <2>2, <3>1, <3>2 DEF Begins
  <2>5. PICK e : Laid(data, P, e) /\ e[Len(P)] = Len(D)
    <3>1. P \in Seq(Seq(Seq(Byte))) /\ Begins(data, FlattenSeq(flat))
      BY <1>2, <1>3, <2>4
    <3>2. \E e : Laid(data, P, e) /\ e[Len(P)] = Len(FlattenSeq(flat))
      BY <1>3, <3>1, LaidOut, Zenon
    <3> QED
      BY <1>2, <3>2, Zenon
  <2>6. PICK i \in 0 .. Len(P) :
           /\ DecodeFrames(data).frames = SubSeq(P, 1, i)
           /\ Len(data) = e[Len(P)] => i = Len(P)
    BY <2>2, <2>5, DecodeFramesReads
  <2>7. IsPrefix(Handled(SubSeq(P, 1, i)), Handled(P))
    BY <1>3, HandledFirst
  <2>8. ASSUME bytes = full
        PROVE  /\ decode_datagram(bytes).seq = seq
               /\ Handled(DecodeFrames(decode_datagram(bytes).frames).frames) = Handled(sent)
    <3>1. Len(data) = e[Len(P)]
      BY <1>2, <1>4, <1>5, <2>2, <2>5, <2>8
    <3>2. SubSeq(P, 1, i) = P
      <4>1. i = Len(P)
        BY <2>6, <3>1
      <4> QED
        BY <1>3, <4>1
    <3>3. read_u24_le(b) = seq
      <4>1. b[1] = D[1] /\ b[2] = D[2] /\ b[3] = D[3]
        <5>1. b[1] = bytes[2] /\ b[2] = bytes[3] /\ b[3] = bytes[4]
          BY <1>6, <1>10, <2>1
        <5>2. full[2] = D[1] /\ full[3] = D[2] /\ full[4] = D[3]
          <6>1. 1 \in 1 .. Len(D) /\ 2 \in 1 .. Len(D) /\ 3 \in 1 .. Len(D)
            BY <1>3, <1>4
          <6>2. 1 + 1 = 2 /\ 1 + 2 = 3 /\ 1 + 3 = 4
            OBVIOUS
          <6> QED
            BY <1>5, <6>1, <6>2, Zenon
        <5> QED
          BY <2>8, <5>1, <5>2
      <4>2. PICK w : w = write_u24_le(seq)
        OBVIOUS
      <4>3. D[1] = w[1] /\ D[2] = w[2] /\ D[3] = w[3]
        BY <1>3, <4>2
      <4>4. read_u24_le(w) = seq
        <5>1. seq \in Nat
          BY PacketAssumption, ThreeBytesNat
        <5>2. seq =< u24_MAX
          BY <5>1, SMT DEF u24_MAX
        <5> QED
          BY <4>2, <5>1, <5>2, RoundTrip24
      <4> QED
        BY <4>1, <4>3, <4>4 DEF read_u24_le
    <3> QED
      BY <1>8, <2>3, <2>6, <3>2, <3>3
  <2> QED
    BY <1>3, <1>8, <2>3, <2>6, <2>7, <2>8
<1> QED
  BY <1>6, <1>9, <1>10

\* A frame is as long as encoded_size says, and of a datagram whose sequence
\* number is below 16 the frames sent are handled, as many as arrived.
THEOREM FramesRead ==
    ASSUME PayloadsFit
    PROVE  Spec => []FramesReadBack
<1>1. Inv => FramesReadBack
  <2> SUFFICES ASSUME Inv, NEW i \in InFlight({"datagram"})
               PROVE  /\ \A j \in DOMAIN wire[i].args.frames :
                            Len(EncodeFrame(wire[i].args.frames[j])) = encoded_size(wire[i].args.frames[j])
                      /\ wire[i].args.seq < 16 =>
                            IsPrefix(FramesHandled(wire[i]), Handled(PartsSent(wire[i].args.frames)))
                      /\ wire[i].args.seq < 16 /\ wire[i].whole =>
                            /\ decode_datagram(wire[i].bytes).seq = wire[i].args.seq
                            /\ FramesHandled(wire[i]) = Handled(PartsSent(wire[i].args.frames))
    BY DEF FramesReadBack
  <2>1. i \in DOMAIN wire /\ wire[i].kind = "datagram" /\ wire # <<>> /\ i = 1
    BY WireBytes DEF InFlight, Inv
  <2>2. PICK kind, args, full, bytes, whole :
          /\ Origin(kind, args, full)
          /\ Arrived(full, bytes, whole)
          /\ wire = <<[kind |-> kind, args |-> args, bytes |-> bytes, whole |-> whole]>>
    BY <2>1 DEF Inv, WireInv
  <2>3. /\ wire[i].kind = kind /\ wire[i].args = args /\ wire[i].bytes = bytes
        /\ wire[i].whole = whole
    BY <2>1, <2>2
  <2>4. PICK seq \in DatagramSeqs, n \in {1, 2} : \E frames \in [1 .. n -> FramesSent] :
           /\ args = [seq |-> seq, frames |-> frames]
           /\ full = encode_datagram(seq, [j \in DOMAIN frames |-> EncodeFrame(frames[j])])
    <3>1. kind \notin Kinds /\ kind # "ack"
      BY <2>1, <2>3, KindsAre
    <3> QED
      BY <2>2, <3>1 DEF Origin
  <2>5. PICK frames \in [1 .. n -> FramesSent] :
           /\ args = [seq |-> seq, frames |-> frames]
           /\ full = encode_datagram(seq, [j \in DOMAIN frames |-> EncodeFrame(frames[j])])
    BY <2>4
  <2>6. args.seq = seq /\ args.frames = frames
    BY <2>5
  <2>7. full \in Seq(Byte)
    BY <2>2, OriginBytes
  <2>8. Begins(bytes, full) /\ whole \in BOOLEAN /\ (whole => bytes = full)
    BY <2>2, <2>7, ArrivedBegins
  <2>9. \A j \in DOMAIN frames : Len(EncodeFrame(frames[j])) = encoded_size(frames[j])
    BY FrameSize
  <2>10. FramesHandled(wire[i]) = Handled(DecodeFrames(decode_datagram(bytes).frames).frames)
    BY <2>3, Zenon DEF FramesHandled
  <2>11. ASSUME seq < 16
         PROVE  /\ IsPrefix(FramesHandled(wire[i]), Handled(PartsSent(frames)))
                /\ bytes = full =>
                      /\ decode_datagram(bytes).seq = seq
                      /\ FramesHandled(wire[i]) = Handled(PartsSent(frames))
    <3>1. DatagramReadAs(bytes, full, seq, frames)
      <4>1. PICK P, flat, sent : DatagramIs(seq, frames, P, flat, sent)
        BY <2>11, DatagramLaidOut
      <4>2. IsDatagramOf(full, flat)
        BY <2>5, <4>1, Zenon DEF DatagramIs, IsDatagramOf
      <4> QED
        BY <2>8, <2>11, <4>1, <4>2, DatagramReads, Zenon
    <3> QED
      BY <2>10, <3>1, Zenon DEF DatagramReadAs
  <2> QED
    BY <2>3, <2>6, <2>8, <2>9, <2>11
<1> QED
  BY <1>1, Invariance, PTL
=============================================================================
