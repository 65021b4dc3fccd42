-------------------------- MODULE RecvWindowProofs --------------------------
(***************************************************************************)
(* The receive window, for every size of it and of the circle, and every   *)
(* sequence of calls of its methods.                                       *)
(***************************************************************************)
EXTENDS RecvWindowModel, ReliabilityTheorems

\* The corrections that stand for the code's masks are reduction modulo the
\* circle.
LEMMA WrappingAddIsModular ==
    ASSUME NEW a \in u24, NEW n \in u24
    PROVE  wrapping_add(a, n) = (a + n) % SeqSpace
BY HalfSpaceAssumption, SMT DEF u24, SeqSpace, wrapping_add

\* The same for the difference.
LEMMA WrappingSubIsModular ==
    ASSUME NEW a \in u24, NEW n \in u24
    PROVE  wrapping_sub(a, n) = (a - n) % SeqSpace
BY HalfSpaceAssumption, SMT DEF u24, SeqSpace, wrapping_sub

\* How far a number is from a base that has moved on by n.
LEMMA DistanceAfterSlide ==
    ASSUME NEW b \in u24, NEW n \in 0 .. HalfSpace, NEW s \in u24
    PROVE  /\ wrapping_add(b, n) \in u24
           /\ wrapping_sub(wrapping_add(b, n), b) = n
           /\ wrapping_sub(s, wrapping_add(b, n)) =
                 IF wrapping_sub(s, b) >= n THEN wrapping_sub(s, b) - n
                                            ELSE wrapping_sub(s, b) - n + SeqSpace
BY HalfSpaceAssumption, SMT DEF u24, SeqSpace, wrapping_add, wrapping_sub

\* has_received looks at the bit of the number's distance from the base: a
\* distance within the window is less than half the circle.
LEMMA HasReceivedIsBit ==
    ASSUME NEW w \in RecvWindowType, NEW s \in u24
    PROVE  HasReceived(w, s) <=> wrapping_sub(s, w.base_seq) \in w.received
BY HalfSpaceAssumption, WindowSizeAssumption
   DEF HasReceived, seq_less_than, RecvWindowType, WindowOffsets

\* The run of received numbers at the base has an end.
LEMMA ContiguousRunProperty ==
    ASSUME NEW w \in RecvWindowType
    PROVE  /\ ContiguousRun(w) \in 0 .. WindowSize
           /\ \A o \in 0 .. ContiguousRun(w) - 1 : o \in w.received
           /\ ContiguousRun(w) < WindowSize => ContiguousRun(w) \notin w.received
<1> DEFINE Ends == {n \in 0 .. WindowSize : n \notin w.received}
<1>1. WindowSize \in Ends /\ Ends \subseteq Nat
  BY WindowSizeAssumption DEF RecvWindowType, WindowOffsets
<1>2. PICK g \in Ends : \A h \in Ends : ~ (<<h, g>> \in OpToRel(<, Nat))
  <2>1. IsWellFoundedOn(OpToRel(<, Nat), Nat)
    BY NatLessThanWellFounded
  <2> HIDE DEF Ends
  <2> QED
    BY <1>1, <2>1, WFMin, Zenon
<1>3. \A h \in Ends : ~ (h < g)
  BY <1>1, <1>2 DEF OpToRel
<1>4. \A o \in 0 .. g - 1 : o \in w.received
  BY <1>1, <1>3, WindowSizeAssumption
<1> QED
  BY <1>4 DEF ContiguousRun

-----------------------------------------------------------------------------
\* What the invariants of the model say of a window and the numbers its
\* caller was told are new: a set bit stands for such a number, and complete
\* says that every such number has its bit.
Sound(w, S) == \A s \in u24 : HasReceived(w, s) => s \in S

Complete(w, S) == \A s \in S : HasReceived(w, s)

\* slide_to by less than the window's size keeps the overlap: it forgets the
\* numbers that the base passes, and no others.
LEMMA ShortSlide ==
    ASSUME NEW w \in RecvWindowType, NEW S \in SUBSET u24,
           NEW n \in 0 .. WindowSize - 1,
           NEW v, v = SlideTo(w, wrapping_add(w.base_seq, n))
    PROVE  /\ v \in RecvWindowType
           /\ v.base_seq = wrapping_add(w.base_seq, n)
           /\ v.total_received = w.total_received
           /\ Sound(w, S) => Sound(v, NotPassed(S, v.base_seq))
           /\ Complete(w, S) => Complete(v, NotPassed(S, v.base_seq))
<1> DEFINE b == w.base_seq
           offset(s) == wrapping_sub(s, b)
<1>1. b \in u24 /\ n \in 0 .. HalfSpace /\ n < HalfSpace /\ n \in Nat
  BY WindowSizeAssumption, HalfSpaceAssumption DEF RecvWindowType
<1>2. wrapping_add(b, n) \in u24 /\ wrapping_sub(wrapping_add(b, n), b) = n
  BY <1>1, DistanceAfterSlide
<1>3. v \in RecvWindowType
  BY <1>2, SlideToType
<1>4. /\ v.base_seq = wrapping_add(b, n)
      /\ v.received = {o - n : o \in {p \in w.received : p >= n}}
      /\ v.total_received = w.total_received
  <2>1. CASE n = 0
    <3>1. v = w /\ wrapping_add(b, 0) = b
      BY <1>1, <1>2, <2>1, HalfSpaceAssumption DEF SlideTo, wrapping_add, u24, SeqSpace
    <3>2. \A o \in w.received : o \in Int /\ o >= 0 /\ o - 0 = o
      BY DEF RecvWindowType, WindowOffsets
    <3> QED
      BY <2>1, <3>1, <3>2
  <2>2. CASE n # 0
    BY <1>1, <1>2, <2>2, WindowSizeAssumption DEF SlideTo, RecvWindowType
  <2> QED
    BY <2>1, <2>2
<1>5. ASSUME NEW s \in u24
      PROVE  /\ offset(s) \in u24
             /\ wrapping_sub(s, v.base_seq) =
                   IF offset(s) >= n THEN offset(s) - n ELSE offset(s) - n + SeqSpace
  <2>1. offset(s) \in u24
    BY <1>1, WrappingType
  <2>2. wrapping_sub(s, wrapping_add(b, n)) =
           IF offset(s) >= n THEN offset(s) - n ELSE offset(s) - n + SeqSpace
    BY <1>1, DistanceAfterSlide
  <2> QED
    BY <1>4, <2>1, <2>2
<1>6. ASSUME NEW s \in u24
      PROVE  HasReceived(v, s) <=> offset(s) \in w.received /\ offset(s) >= n
  <2>1. HasReceived(v, s) <=> wrapping_sub(s, v.base_seq) \in v.received
    BY <1>3, HasReceivedIsBit
  <2>2. CASE offset(s) >= n
    BY <1>1, <1>4, <1>5, <2>1, <2>2 DEF RecvWindowType, WindowOffsets, u24
  <2>3. CASE ~ (offset(s) >= n)
    <3>1. wrapping_sub(s, v.base_seq) >= HalfSpace
      BY <1>1, <1>5, <2>3, HalfSpaceAssumption DEF u24, SeqSpace
    <3> QED
      BY <2>3, <3>1 DEF HasReceived, seq_less_than
  <2> QED
    BY <2>2, <2>3
<1>7. ASSUME NEW s \in u24, HasReceived(w, s)
      PROVE  ~ seq_less_than(s, v.base_seq) <=> offset(s) >= n
  <2>1. offset(s) \in WindowOffsets
    BY <1>7, HasReceivedIsBit DEF RecvWindowType
  <2> QED
    BY <1>1, <1>5, <2>1, WindowSizeAssumption, HalfSpaceAssumption
    DEF seq_less_than, WindowOffsets, u24, SeqSpace
<1>8. ASSUME NEW s \in u24 PROVE HasReceived(w, s) <=> offset(s) \in w.received
  BY HasReceivedIsBit
<1>9. Sound(w, S) => Sound(v, NotPassed(S, v.base_seq))
  BY <1>6, <1>7, <1>8 DEF Sound, NotPassed
<1>10. Complete(w, S) => Complete(v, NotPassed(S, v.base_seq))
  BY <1>6, <1>7, <1>8 DEF Complete, NotPassed
<1> QED
  BY <1>3, <1>4, <1>9, <1>10

\* mark_received of a number past the window: the base is half a window
\* before it, and its bit is the only one set.
LEMMA MarkBeyondWindow ==
    ASSUME NEW w \in RecvWindowType, NEW seq \in u24, ~ TooOld(w, seq),
           wrapping_sub(seq, w.base_seq) >= WindowSize,
           NEW m, m = MarkReceived(w, seq)
    PROVE  /\ m.verdict = "new"
           /\ m.window \in RecvWindowType
           /\ m.window.base_seq = wrapping_sub(seq, WindowSize \div 2)
           /\ \A s \in u24 : HasReceived(m.window, s) <=> s = seq
<1> DEFINE half == WindowSize \div 2
<1>1. /\ wrapping_sub(seq, SlideTo(w, seq).base_seq) = half
      /\ half \in WindowOffsets
  BY SlideReaches
<1>2. half \in u24 /\ half < WindowSize
  BY <1>1, WindowSizeAssumption, HalfSpaceAssumption DEF WindowOffsets, u24, SeqSpace
<1>3. wrapping_sub(seq, w.base_seq) # 0
  BY WindowSizeAssumption
<1>4. SlideTo(w, seq) = [w EXCEPT !.received = {}, !.base_seq = wrapping_sub(seq, half)]
  BY <1>3 DEF SlideTo
<1>5. /\ m.verdict = "new"
      /\ m.window = [SlideTo(w, seq) EXCEPT !.received = @ \cup {half},
                                            !.total_received = 1,
                                            !.highest_seq = Highest(w, seq)]
  <2>1. m = MarkBeyond(w, seq)
    BY DEF MarkReceived
  <2>2. ~ (wrapping_sub(seq, SlideTo(w, seq).base_seq) >= WindowSize)
    BY <1>1, WindowSizeAssumption DEF WindowOffsets
  <2> DEFINE slid == SlideTo(w, seq)
             place == wrapping_sub(seq, slid.base_seq)
             marked == [slid EXCEPT !.received = @ \cup {place},
                                    !.total_received = 1,
                                    !.highest_seq = Highest(w, seq)]
  <2>3. MarkBeyond(w, seq) = [window |-> marked, verdict |-> "new"]
    BY <2>2 DEF MarkBeyond
  <2>4. marked = [slid EXCEPT !.received = @ \cup {half},
                              !.total_received = 1,
                              !.highest_seq = Highest(w, seq)]
    BY <1>1
  <2> HIDE DEF marked
  <2> QED
    BY <2>1, <2>3, <2>4
<1>6. /\ m.window.base_seq = wrapping_sub(seq, half)
      /\ m.window.received = {half}
  BY <1>4, <1>5 DEF RecvWindowType
<1>7. m.window \in RecvWindowType
  BY MarkReceivedType
<1>8. ASSUME NEW s \in u24
      PROVE  wrapping_sub(s, wrapping_sub(seq, half)) = half <=> s = seq
  BY <1>2, HalfSpaceAssumption DEF wrapping_sub, u24, SeqSpace
<1> QED
  BY <1>5, <1>6, <1>7, <1>8, HasReceivedIsBit

\* mark_received of a number in the window sets its bit, or finds it set.
LEMMA MarkInWindow ==
    ASSUME NEW w \in RecvWindowType, NEW seq \in u24, ~ TooOld(w, seq),
           ~ (wrapping_sub(seq, w.base_seq) >= WindowSize),
           NEW m, m = MarkReceived(w, seq)
    PROVE  /\ m.window \in RecvWindowType
           /\ m.window.base_seq = w.base_seq
           /\ m.verdict \in {"new", "duplicate"}
           /\ m.verdict = "duplicate" <=> HasReceived(w, seq)
           /\ \A s \in u24 : HasReceived(m.window, s) <=> HasReceived(w, s) \/ s = seq
<1> DEFINE offset == wrapping_sub(seq, w.base_seq)
<1>1. m.window \in RecvWindowType
  BY MarkReceivedType
<1>2. CASE offset \in w.received
  <2>1. m = [window |-> w, verdict |-> "duplicate"]
    BY <1>2 DEF MarkReceived
  <2> QED
    BY <1>1, <1>2, <2>1, HasReceivedIsBit
<1>3. CASE offset \notin w.received
  <2>1. /\ m.verdict = "new" /\ m.window.base_seq = w.base_seq
        /\ m.window.received = w.received \cup {offset}
    BY <1>3 DEF MarkReceived, RecvWindowType
  <2>2. ASSUME NEW s \in u24
        PROVE  wrapping_sub(s, w.base_seq) = offset <=> s = seq
    BY HalfSpaceAssumption DEF wrapping_sub, u24, SeqSpace, RecvWindowType
  <2> QED
    BY <1>1, <1>3, <2>1, <2>2, HasReceivedIsBit
<1> QED
  BY <1>2, <1>3

-----------------------------------------------------------------------------
\* The invariant: types, no false duplicates and, until a reset, a complete
\* memory.
WindowInv == TypeOK /\ NeverFalseDuplicate /\ RemembersUntilReset

\* A window that has just been created has received nothing.
LEMMA WindowInit == Init => WindowInv
<1> SUFFICES ASSUME Init PROVE WindowInv
  OBVIOUS
<1>1. EmptyWindow \in RecvWindowType
  BY HalfSpaceAssumption DEF EmptyWindow, RecvWindowType, u24, SeqSpace
<1>2. \A s \in u24 : ~ HasReceived(EmptyWindow, s)
  BY DEF HasReceived, EmptyWindow
<1> QED
  BY <1>1, <1>2 DEF Init, WindowInv, TypeOK, NeverFalseDuplicate, RemembersUntilReset

\* mark_received keeps the invariant, whichever branch it takes.
LEMMA MarkStep ==
    ASSUME WindowInv, NEW seq \in u24, Mark(seq)
    PROVE  WindowInv'
<1> DEFINE m == MarkReceived(window, seq)
           accepted == IF m.verdict = "new" THEN {seq} ELSE {}
<1>1. /\ window \in RecvWindowType /\ seen \subseteq u24 /\ jumped \in BOOLEAN
      /\ \A s \in u24 : HasReceived(window, s) => s \in seen
      /\ ~ jumped => \A s \in seen : HasReceived(window, s)
  BY DEF WindowInv, TypeOK, NeverFalseDuplicate, RemembersUntilReset
<1>2. /\ window' = m.window
      /\ seen' = NotPassed(seen, m.window.base_seq) \cup accepted
      /\ jumped' = (jumped \/ (seen # {} /\ accepted # {} /\ Resets(seq)))
  BY DEF Mark
<1>3. window' \in RecvWindowType
  BY <1>1, <1>2, MarkReceivedType
<1>4. seen' \subseteq u24 /\ jumped' \in BOOLEAN
  BY <1>1, <1>2, Zenon DEF NotPassed
<1>5. TypeOK'
  BY <1>3, <1>4 DEF TypeOK
<1>6. ASSUME NEW s \in u24, HasReceived(window, s)
      PROVE  ~ seq_less_than(s, window.base_seq)
  BY <1>6 DEF HasReceived
<1>7. CASE TooOld(window, seq)
  <2>1. m = [window |-> window, verdict |-> "old"]
    BY <1>7 DEF MarkReceived
  <2>2. window' = window /\ seen' = NotPassed(seen, window.base_seq) /\ jumped' = jumped
    BY <1>1, <1>2, <2>1
  <2> QED
    BY <1>1, <1>5, <1>6, <2>2
    DEF WindowInv, NeverFalseDuplicate, RemembersUntilReset, NotPassed
<1>8. CASE ~ TooOld(window, seq) /\ wrapping_sub(seq, window.base_seq) >= WindowSize
  <2>1. /\ m.verdict = "new"
        /\ \A s \in u24 : HasReceived(m.window, s) <=> s = seq
    BY <1>1, <1>8, MarkBeyondWindow
  <2>2. seen' = NotPassed(seen, m.window.base_seq) \cup {seq}
    BY <1>2, <2>1
  <2>3. NeverFalseDuplicate'
    BY <1>2, <2>1, <2>2 DEF NeverFalseDuplicate
  <2>4. Resets(seq)
    BY <1>8 DEF Resets
  <2>5. ~ jumped' => seen = {}
    BY <1>2, <2>1, <2>4
  <2>6. RemembersUntilReset'
    BY <1>2, <2>1, <2>2, <2>5 DEF RemembersUntilReset, NotPassed
  <2> QED
    BY <1>5, <2>3, <2>6 DEF WindowInv
<1>9. CASE ~ TooOld(window, seq) /\ ~ (wrapping_sub(seq, window.base_seq) >= WindowSize)
  <2>1. /\ m.window.base_seq = window.base_seq
        /\ m.verdict \in {"new", "duplicate"}
        /\ m.verdict = "duplicate" <=> HasReceived(window, seq)
        /\ \A s \in u24 : HasReceived(m.window, s) <=> HasReceived(window, s) \/ s = seq
    BY <1>1, <1>9, MarkInWindow
  <2>2. jumped' = jumped
    BY <1>1, <1>2, <1>9 DEF Resets
  <2>3. \A s \in u24 : s \in seen' <=>
           \/ s \in seen /\ ~ seq_less_than(s, window.base_seq)
           \/ s = seq /\ m.verdict = "new"
    BY <1>1, <1>2, <2>1 DEF NotPassed
  <2> HIDE DEF m
  <2>4. NeverFalseDuplicate'
    BY <1>1, <1>2, <1>6, <2>1, <2>3 DEF NeverFalseDuplicate
  <2>5. RemembersUntilReset'
    BY <1>1, <1>2, <1>4, <2>1, <2>2, <2>3 DEF RemembersUntilReset
  <2> QED
    BY <1>5, <2>4, <2>5 DEF WindowInv
<1> QED
  BY <1>7, <1>8, <1>9

\* So does advance_base: short of a whole window it passes received numbers
\* only, and otherwise it resets the window.
LEMMA AdvanceStep ==
    ASSUME WindowInv, Advance
    PROVE  WindowInv'
<1> DEFINE n == ContiguousRun(window)
<1>1. /\ window \in RecvWindowType /\ seen \in SUBSET u24 /\ jumped \in BOOLEAN
      /\ Sound(window, seen)
      /\ ~ jumped => Complete(window, seen)
  BY DEF WindowInv, TypeOK, NeverFalseDuplicate, RemembersUntilReset, Sound, Complete
<1>2. n \in 0 .. WindowSize
  BY <1>1, ContiguousRunProperty
<1>3. /\ window' = SlideTo(window, wrapping_add(window.base_seq, n))
      /\ seen' = NotPassed(seen, window'.base_seq)
      /\ jumped' = (jumped \/ n = WindowSize)
  BY DEF Advance, AdvanceBase
<1> HIDE DEF n
<1>4. jumped' \in BOOLEAN /\ seen' \subseteq u24
  BY <1>1, <1>3, Zenon DEF NotPassed
<1>5. CASE n < WindowSize
  <2>1. n \in 0 .. WindowSize - 1
    BY <1>2, <1>5, WindowSizeAssumption
  <2>2. /\ window' \in RecvWindowType
        /\ Sound(window', seen')
        /\ Complete(window, seen) => Complete(window', seen')
    BY <1>1, <1>3, <2>1, ShortSlide
  <2>3. n # WindowSize
    BY <1>2, <1>5, WindowSizeAssumption
  <2>4. jumped' = jumped
    BY <1>1, <1>3, <2>3, Zenon
  <2> QED
    BY <1>1, <1>4, <2>2, <2>4
    DEF WindowInv, TypeOK, NeverFalseDuplicate, RemembersUntilReset, Sound, Complete
<1>6. CASE n = WindowSize
  <2>1. n \in 0 .. HalfSpace
    BY <1>6, WindowSizeAssumption, HalfSpaceAssumption
  <2>2. /\ wrapping_add(window.base_seq, n) \in u24
        /\ wrapping_sub(wrapping_add(window.base_seq, n), window.base_seq) = n
    BY <1>1, <2>1, DistanceAfterSlide DEF RecvWindowType
  <2>3. window' \in RecvWindowType
    BY <1>1, <1>3, <2>2, SlideToType
  <2>4. window'.received = {}
    BY <1>1, <1>3, <1>6, <2>2, WindowSizeAssumption DEF SlideTo, RecvWindowType
  <2>5. jumped' = TRUE
    BY <1>3, <1>6, Zenon
  <2> QED
    BY <1>4, <2>3, <2>4, <2>5
    DEF WindowInv, TypeOK, NeverFalseDuplicate, RemembersUntilReset, HasReceived
<1> QED
  BY <1>2, <1>5, <1>6, WindowSizeAssumption

\* The inductive step.
LEMMA WindowStep == WindowInv /\ [Next]_vars => WindowInv'
<1> SUFFICES ASSUME WindowInv, [Next]_vars PROVE WindowInv'
  OBVIOUS
<1>1. CASE Clear
  <2>1. EmptyWindow \in RecvWindowType
    BY HalfSpaceAssumption DEF EmptyWindow, RecvWindowType, u24, SeqSpace
  <2>2. \A s \in u24 : ~ HasReceived(EmptyWindow, s)
    BY DEF HasReceived, EmptyWindow
  <2> QED
    BY <1>1, <2>1, <2>2
    DEF Clear, WindowInv, TypeOK, NeverFalseDuplicate, RemembersUntilReset
<1>2. CASE UNCHANGED vars
  BY <1>2 DEF vars, WindowInv, TypeOK, NeverFalseDuplicate, RemembersUntilReset
<1> QED
  BY <1>1, <1>2, MarkStep, AdvanceStep DEF Next

\* The invariant holds under any sequence of calls.
THEOREM WindowInvariant == Spec => []WindowInv
BY WindowInit, WindowStep, PTL DEF Spec

\* Every call keeps the window a window: no bit outside the BitVec, every
\* number on the circle.
THEOREM WindowTypeCorrect == Spec => []TypeOK
<1>1. WindowInv => TypeOK
  BY DEF WindowInv
<1> QED
  BY <1>1, WindowInvariant, PTL

\* mark_received says "duplicate" only for a number it has accepted before,
\* through every slide, reset and wraparound.
THEOREM WindowNeverFalseDuplicate == Spec => []NeverFalseDuplicate
<1>1. WindowInv => NeverFalseDuplicate
  BY DEF WindowInv
<1> QED
  BY <1>1, WindowInvariant, PTL

\* Until a far packet resets the window no accepted number that the base has
\* not passed is forgotten.
THEOREM WindowRemembersUntilReset == Spec => []RemembersUntilReset
<1>1. WindowInv => RemembersUntilReset
  BY DEF WindowInv
<1> QED
  BY <1>1, WindowInvariant, PTL

\* get_missing reports the gaps between the base and the highest number seen,
\* all of them and nothing else, as long as its memory is complete.
THEOREM WindowMissingAreTheGaps == Spec => []MissingAreTheGaps
<1>1. WindowInv => MissingAreTheGaps
  <2> SUFFICES ASSUME WindowInv, ~ jumped, window.highest_seq \in seen
               PROVE  GetMissing(window) =
                        {s \in u24 : /\ ~ seq_less_than(s, window.base_seq)
                                     /\ seq_less_than(s, window.highest_seq)
                                     /\ s \notin seen}
    BY DEF MissingAreTheGaps
  <2> DEFINE b == window.base_seq
             h == window.highest_seq
             offset(s) == wrapping_sub(s, b)
             reach == offset(h)
             Missing == {wrapping_add(b, o) : o \in {p \in 0 .. reach : p \notin window.received}}
  <2>1. /\ window \in RecvWindowType /\ seen \subseteq u24
        /\ b \in u24 /\ h \in u24
    BY DEF WindowInv, TypeOK, RecvWindowType
  <2>2. \A s \in u24 : s \in seen <=> offset(s) \in window.received
    BY <2>1, HasReceivedIsBit DEF WindowInv, NeverFalseDuplicate, RemembersUntilReset
  <2>3. reach \in window.received /\ reach \in WindowOffsets
    BY <2>1, <2>2 DEF RecvWindowType
  <2>4. reach \in Nat /\ reach < WindowSize /\ WindowSize =< HalfSpace
    BY <2>3, WindowSizeAssumption, HalfSpaceAssumption DEF WindowOffsets
  <2>5. GetMissing(window) = IF h = b /\ window.total_received = 0 THEN {} ELSE Missing
    BY <2>4 DEF GetMissing
  <2>6. ASSUME NEW s \in u24
        PROVE  /\ offset(s) \in u24
               /\ wrapping_add(b, offset(s)) = s
               /\ ~ seq_less_than(s, b) <=> offset(s) < HalfSpace
    BY <2>1, HalfSpaceAssumption DEF wrapping_sub, wrapping_add, seq_less_than, u24, SeqSpace
  <2>7. ASSUME NEW s \in u24, offset(s) < HalfSpace
        PROVE  seq_less_than(s, h) <=> offset(s) < reach
    <3>1. reach \in 0 .. HalfSpace
      BY <2>4, WindowSizeAssumption, HalfSpaceAssumption
    <3>2. wrapping_add(b, reach) = h
      BY <2>1, HalfSpaceAssumption DEF wrapping_sub, wrapping_add, u24, SeqSpace
    <3>3. wrapping_sub(s, h) = IF offset(s) >= reach THEN offset(s) - reach
                                                     ELSE offset(s) - reach + SeqSpace
      BY <2>1, <3>1, <3>2, DistanceAfterSlide
    <3>4. offset(s) \in u24
      BY <2>1, HalfSpaceAssumption DEF wrapping_sub, u24, SeqSpace
    <3> HIDE DEF offset, reach
    <3> QED
      BY <2>4, <2>7, <3>1, <3>3, <3>4, HalfSpaceAssumption
      DEF seq_less_than, u24, SeqSpace
  <2>8. ASSUME NEW o \in 0 .. reach
        PROVE  wrapping_add(b, o) \in u24 /\ offset(wrapping_add(b, o)) = o
    <3>1. o \in 0 .. HalfSpace
      BY <2>4, WindowSizeAssumption, HalfSpaceAssumption
    <3> QED
      BY <2>1, <3>1, DistanceAfterSlide
  <2>9. h = b => reach = 0
    BY <2>1 DEF wrapping_sub, u24
  <2> HIDE DEF offset, reach
  <2>10. Missing = {s \in u24 : /\ ~ seq_less_than(s, b)
                                /\ seq_less_than(s, h)
                                /\ s \notin seen}
    <3>1. ASSUME NEW s \in Missing
          PROVE  s \in u24 /\ ~ seq_less_than(s, b) /\ seq_less_than(s, h) /\ s \notin seen
      <4>1. PICK o \in 0 .. reach : o \notin window.received /\ s = wrapping_add(b, o)
        BY <3>1
      <4>2. s \in u24 /\ offset(s) = o
        BY <4>1, <2>8
      <4>3. o < reach /\ o < HalfSpace
        BY <4>1, <2>3, <2>4, WindowSizeAssumption, HalfSpaceAssumption
      <4> QED
        BY <4>1, <4>2, <4>3, <2>2, <2>6, <2>7
    <3>2. ASSUME NEW s \in u24, ~ seq_less_than(s, b), seq_less_than(s, h), s \notin seen
          PROVE  s \in Missing
      <4>1. /\ offset(s) \in u24 /\ offset(s) < reach
            /\ offset(s) \notin window.received /\ wrapping_add(b, offset(s)) = s
        BY <3>2, <2>2, <2>6, <2>7
      <4>2. offset(s) \in 0 .. reach
        BY <4>1, <2>4 DEF u24
      <4> QED
        BY <4>1, <4>2
    <3> QED
      BY <3>1, <3>2
  <2>11. h = b => \A s \in u24 : ~ (~ seq_less_than(s, b) /\ seq_less_than(s, h))
    OBVIOUS
  <2> QED
    BY <2>5, <2>10, <2>11
<1> QED
  BY <1>1, WindowInvariant, PTL

\* No call takes the base back once anything has been received, unless clear
\* starts over.
THEOREM WindowBaseMovesForward == Spec => BaseMovesForward
<1> DEFINE Forward == window.total_received = 1 /\ window'.total_received = 1
                        => ~ seq_less_than(window'.base_seq, window.base_seq)
<1>1. WindowInv /\ [Next]_vars => [Forward]_vars
  <2> SUFFICES ASSUME WindowInv, Next, window.total_received = 1,
                      window'.total_received = 1
               PROVE  ~ seq_less_than(window'.base_seq, window.base_seq)
    OBVIOUS
  <2>1. window \in RecvWindowType /\ window.base_seq \in u24
    BY DEF WindowInv, TypeOK, RecvWindowType
  <2>2. ~ seq_less_than(window.base_seq, window.base_seq)
    BY <2>1, HalfSpaceAssumption DEF seq_less_than, wrapping_sub, u24, SeqSpace
  <2>3. ASSUME NEW seq \in u24, Mark(seq)
        PROVE  ~ seq_less_than(window'.base_seq, window.base_seq)
    <3> DEFINE m == MarkReceived(window, seq)
               offset == wrapping_sub(seq, window.base_seq)
    <3>1. window' = m.window
      BY <2>3 DEF Mark
    <3>2. CASE TooOld(window, seq)
      BY <2>2, <3>1, <3>2 DEF MarkReceived
    <3>3. CASE ~ TooOld(window, seq) /\ offset >= WindowSize
      <4>1. m.window.base_seq = wrapping_sub(seq, WindowSize \div 2)
        BY <2>1, <3>3, MarkBeyondWindow
      <4>2. offset < HalfSpace
        BY <2>1, <3>3, HalfSpaceAssumption
        DEF TooOld, seq_less_than, wrapping_sub, u24, SeqSpace
      <4>3. PICK half \in 0 .. WindowSize : half = WindowSize \div 2
        BY WindowSizeAssumption
      <4>4. wrapping_sub(wrapping_sub(seq, half), window.base_seq) < HalfSpace
        BY <2>1, <3>3, <4>2, WindowSizeAssumption, HalfSpaceAssumption
        DEF wrapping_sub, u24, SeqSpace
      <4>5. ~ (wrapping_sub(wrapping_sub(seq, half), window.base_seq) >= HalfSpace)
        BY <4>4, <2>1, WindowSizeAssumption, HalfSpaceAssumption DEF wrapping_sub, u24, SeqSpace
      <4> QED
        BY <3>1, <4>1, <4>3, <4>5 DEF seq_less_than
    <3>4. CASE ~ TooOld(window, seq) /\ ~ (offset >= WindowSize)
      <4>1. m.window.base_seq = window.base_seq
        BY <2>1, <3>4, MarkInWindow
      <4> QED
        BY <2>2, <3>1, <4>1
    <3> QED
      BY <3>2, <3>3, <3>4
  <2>4. CASE Advance
    <3> DEFINE n == ContiguousRun(window)
               to == wrapping_add(window.base_seq, n)
    <3>1. n \in 0 .. WindowSize /\ n \in 0 .. HalfSpace
      BY <2>1, ContiguousRunProperty, WindowSizeAssumption, HalfSpaceAssumption
    <3>2. window' = SlideTo(window, to)
      BY <2>4 DEF Advance, AdvanceBase
    <3>3. to \in u24 /\ wrapping_sub(to, window.base_seq) = n
      BY <2>1, <3>1, DistanceAfterSlide
    <3> HIDE DEF n, to
    <3>4. PICK half \in 0 .. WindowSize : half = WindowSize \div 2
      BY WindowSizeAssumption
    <3>5. \/ window'.base_seq = window.base_seq
          \/ n < WindowSize /\ window'.base_seq = to
          \/ n = WindowSize /\ window'.base_seq = wrapping_sub(to, half)
      BY <2>1, <3>1, <3>2, <3>3, <3>4, WindowSizeAssumption DEF SlideTo, RecvWindowType
    <3>6. CASE n < WindowSize /\ window'.base_seq = to
      BY <3>1, <3>3, <3>6, WindowSizeAssumption, HalfSpaceAssumption DEF seq_less_than
    <3>7. CASE n = WindowSize /\ window'.base_seq = wrapping_sub(to, half)
      <4>1. WindowSize - half < HalfSpace
        BY <3>4, WindowSizeAssumption, HalfSpaceAssumption
      <4>2. wrapping_sub(wrapping_sub(to, half), window.base_seq) = n - half
        BY <2>1, <3>1, <3>3, <3>4, <3>7, HalfSpaceAssumption, WindowSizeAssumption
        DEF wrapping_sub, u24, SeqSpace
      <4> QED
        BY <3>1, <3>4, <3>7, <4>1, <4>2, WindowSizeAssumption, HalfSpaceAssumption
        DEF seq_less_than
    <3> QED
      BY <2>2, <3>5, <3>6, <3>7
  <2>5. CASE Clear
    BY <2>5 DEF Clear, EmptyWindow
  <2> QED
    BY <2>3, <2>4, <2>5 DEF Next
<1> QED
  BY <1>1, WindowInvariant, PTL DEF Spec, BaseMovesForward
=============================================================================
