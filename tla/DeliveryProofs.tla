--------------------------- MODULE DeliveryProofs ---------------------------
(***************************************************************************)
(* Proofs about the two channels a payload goes through.  The session's    *)
(* replay window (ReplayWindow), for every window width and every largest  *)
(* sequence number; and of the link below it (LinkStream) the byte stream, *)
(* the invariant that places everything in it, and the writer's steps.     *)
(* LinkStreamProofs goes on from there.                                    *)
(***************************************************************************)
EXTENDS ReplayWindow, LinkStream, WellFoundedInduction, TLAPS

IInv == TypeOK /\ WindowMirrors

-----------------------------------------------------------------------------

\* A packet that decrypt admits has not been delivered: a number at or below
\* high is inside the mask, and the mask mirrors the history.
LEMMA AdmittedIsFresh ==
    ASSUME IInv, NEW seq \in Seqs, Admits(high, win, seq)
    PROVE  deliveries[seq] = 0
<1>1. CASE seq > high
  BY <1>1 DEF IInv, TypeOK, WindowMirrors, Seqs
<1>2. CASE seq <= high
  <2>1. high - seq \in Offsets /\ high - seq \notin win
    BY <1>2, WindowAssumption, MaxSeqAssumption
    DEF IInv, TypeOK, Admits, TooOld, Seen, Offsets, Seqs
  <2>2. high - (high - seq) = seq
    BY MaxSeqAssumption DEF IInv, TypeOK, Seqs
  <2>3. ~(deliveries[seq] > 0)
    BY <2>1, <2>2 DEF IInv, WindowMirrors
  <2> QED BY <2>3 DEF IInv, TypeOK
<1> QED BY <1>1, <1>2, MaxSeqAssumption DEF IInv, TypeOK, Seqs

\* Sliding the mask for an admitted packet keeps it inside its word.
LEMMA SlideType ==
    ASSUME IInv, NEW seq \in Seqs, Admits(high, win, seq)
    PROVE  /\ SlideHigh(high, seq) \in Seqs
           /\ SlideWindow(high, win, seq) \subseteq Offsets
<1>1. SlideHigh(high, seq) \in Seqs
  BY DEF IInv, TypeOK, SlideHigh
<1>2. CASE seq > high
  BY <1>1, <1>2 DEF SlideWindow
<1>3. CASE ~(seq > high)
  <2>1. high - seq \in Offsets
    BY <1>3, WindowAssumption, MaxSeqAssumption
    DEF IInv, TypeOK, Admits, TooOld, Offsets, Seqs
  <2> QED BY <1>1, <1>3, <2>1 DEF SlideWindow, IInv, TypeOK
<1> QED BY <1>2, <1>3

\* The initial state satisfies the inductive invariant.
LEMMA InitInv == Init => IInv
<1> SUFFICES ASSUME Init PROVE IInv
  OBVIOUS
<1>1. TypeOK
  BY MaxSeqAssumption DEF Init, TypeOK, Seqs, Offsets
<1>2. WindowMirrors
  BY MaxSeqAssumption DEF Init, WindowMirrors, Seqs, Offsets
<1> QED BY <1>1, <1>2 DEF IInv

\* Handing up an admitted packet preserves the inductive invariant.
LEMMA AcceptInv ==
    ASSUME IInv, NEW seq \in Seqs, Admits(high, win, seq), seq < local_seq,
           high' = SlideHigh(high, seq), win' = SlideWindow(high, win, seq),
           deliveries' = [deliveries EXCEPT ![seq] = @ + 1],
           local_seq' = local_seq
    PROVE  IInv'
<1> USE WindowAssumption, MaxSeqAssumption
<1>0. deliveries[seq] = 0
  BY AdmittedIsFresh
<1>1. TypeOK'
  <2>1. high' \in Seqs /\ win' \subseteq Offsets
    BY SlideType
  <2>2. deliveries' \in [Seqs -> Nat]
    BY DEF IInv, TypeOK
  <2> QED BY <2>1, <2>2 DEF IInv, TypeOK
<1>2. deliveries'[seq] = 1 /\ \A s \in Seqs \ {seq} : deliveries'[s] = deliveries[s]
  BY <1>0 DEF IInv, TypeOK
<1>3. high \in Int /\ seq \in Int /\ high >= 0 /\ seq >= 0 /\ seq <= MaxSeq /\ high <= MaxSeq
  BY DEF IInv, TypeOK, Seqs
<1>4. \A o \in Offsets : o \in win' <=> (high' - o \in Seqs /\ deliveries'[high' - o] > 0)
  <2> SUFFICES ASSUME NEW o \in Offsets
               PROVE  o \in win' <=> (high' - o \in Seqs /\ deliveries'[high' - o] > 0)
    OBVIOUS
  <2>1. CASE seq > high
    <3>1. high' = seq /\ (o \in win' <=> (o = 0 \/ o - (seq - high) \in win))
      BY <2>1 DEF SlideHigh, SlideWindow
    <3>2. CASE o = 0
      <4>1. high' - o = seq
        BY <3>1, <3>2, <1>3
      <4> QED BY <3>1, <3>2, <4>1, <1>2
    <3>3. CASE o # 0
      <4> DEFINE p == o - (seq - high)
      <4>1. high' - o = high - p /\ high' - o # seq /\ p \in Int /\ o \in Int /\ o > 0
        BY <3>1, <3>3, <1>3 DEF Offsets
      <4>2. CASE p \in Offsets
        <5>1. p \in win <=> (high - p \in Seqs /\ deliveries[high - p] > 0)
          BY <4>2 DEF IInv, WindowMirrors
        <5> QED BY <5>1, <4>1, <3>1, <3>3, <1>2
      <4>3. CASE p \notin Offsets
        <5>1. p \notin win
          BY <4>3 DEF IInv, TypeOK
        <5>2. p < 0
          BY <4>3, <4>1, <2>1, <1>3 DEF Offsets
        <5>3. high - p \in Seqs => ~(deliveries[high - p] > 0)
          <6>1. high - p > high
            BY <5>2, <4>1, <1>3
          <6>2. SUFFICES ASSUME high - p \in Seqs, deliveries[high - p] > 0 PROVE FALSE
            OBVIOUS
          <6>3. high - p <= high
            BY <6>2 DEF IInv, WindowMirrors
          <6> QED BY <6>1, <6>3, <4>1, <1>3
        <5> QED BY <5>1, <5>3, <4>1, <3>1, <3>3, <1>2
      <4> QED BY <4>2, <4>3
    <3> QED BY <3>2, <3>3
  <2>2. CASE ~(seq > high)
    <3>1. high' = high /\ (o \in win' <=> (o \in win \/ o = high - seq))
      BY <2>2 DEF SlideHigh, SlideWindow
    <3>2. o \in win <=> (high - o \in Seqs /\ deliveries[high - o] > 0)
      BY DEF IInv, WindowMirrors
    <3>3. o = high - seq <=> high - o = seq
      BY <1>3 DEF Offsets
    <3> QED BY <3>1, <3>2, <3>3, <1>2, <1>3
  <2> QED BY <2>1, <2>2
<1>5. \A s \in Seqs : deliveries'[s] > 0 => s <= high' /\ s < local_seq'
  <2> SUFFICES ASSUME NEW s \in Seqs, deliveries'[s] > 0
               PROVE  s <= high' /\ s < local_seq'
    OBVIOUS
  <2>1. high' \in Int /\ high' >= high /\ high' >= seq
    BY <1>3 DEF SlideHigh
  <2>2. CASE s = seq
    BY <2>1, <2>2
  <2>3. CASE s # seq
    <3>1. s <= high /\ s < local_seq
      BY <2>3, <1>2 DEF IInv, WindowMirrors
    <3> QED BY <3>1, <2>1, <1>3 DEF Seqs
  <2> QED BY <2>2, <2>3
<1>6. high' > 0 => deliveries'[high'] > 0
  <2>1. CASE high' = seq
    BY <2>1, <1>2
  <2>2. CASE high' = high /\ high # seq
    BY <2>2, <1>2, <1>3 DEF IInv, WindowMirrors, Seqs
  <2> QED BY <2>1, <2>2 DEF SlideHigh
<1>7. \A s \in Seqs : deliveries'[s] <= 1
  BY <1>2 DEF IInv, WindowMirrors
<1> QED BY <1>1, <1>4, <1>5, <1>6, <1>7 DEF IInv, WindowMirrors

\* Every step preserves the inductive invariant.
LEMMA StepInv == IInv /\ [Next]_vars => IInv'
<1> SUFFICES ASSUME IInv, [Next]_vars PROVE IInv'
  OBVIOUS
<1>1. CASE encrypt
  <2>1. local_seq' \in 0 .. MaxSeq + 1 /\ local_seq' > local_seq
    BY <1>1, MaxSeqAssumption DEF encrypt, Seqs
  <2>2. TypeOK'
    BY <1>1, <2>1 DEF encrypt, IInv, TypeOK
  <2>3. \A s \in Seqs : deliveries[s] > 0 => s <= high /\ s < local_seq'
    BY <2>1, MaxSeqAssumption DEF IInv, TypeOK, WindowMirrors, Seqs
  <2>4. WindowMirrors'
    BY <1>1, <2>3 DEF encrypt, IInv, WindowMirrors
  <2> QED BY <2>2, <2>4 DEF IInv
<1>2. ASSUME NEW seq \in Seqs, NEW authentic \in BOOLEAN, decrypt(seq, authentic)
      PROVE  IInv'
  <2>1. CASE authentic /\ Admits(high, win, seq)
    BY <1>2, <2>1, AcceptInv DEF decrypt
  <2>2. CASE ~(authentic /\ Admits(high, win, seq))
    BY <1>2, <2>2 DEF decrypt, IInv, TypeOK, WindowMirrors
  <2> QED BY <2>1, <2>2
<1>3. CASE UNCHANGED vars
  BY <1>3 DEF vars, IInv, TypeOK, WindowMirrors
<1> QED BY <1>1, <1>2, <1>3 DEF Next

\* The mask of every reachable receiver mirrors its delivery history.
THEOREM WindowCorrect == Spec => [](TypeOK /\ WindowMirrors)
<1>1. IInv => TypeOK /\ WindowMirrors
  BY DEF IInv
<1> QED BY <1>1, InitInv, StepInv, PTL DEF Spec

-----------------------------------------------------------------------------

\* The mirror invariant makes the admission test exact.
LEMMA MirrorsAdmitFresh == IInv => AdmitsExactlyFresh
<1> USE WindowAssumption, MaxSeqAssumption
<1> SUFFICES ASSUME IInv, NEW seq \in Seqs
             PROVE  Admits(high, win, seq) <=>
                      /\ deliveries[seq] = 0
                      /\ \A d \in Seqs : deliveries[d] > 0 => d < seq + Window
  BY DEF AdmitsExactlyFresh
<1>1. ASSUME Admits(high, win, seq), NEW d \in Seqs, deliveries[d] > 0
      PROVE  d < seq + Window
  <2>1. d <= high
    BY <1>1 DEF IInv, WindowMirrors
  <2>2. high < seq + Window
    BY <1>1 DEF Admits, TooOld, IInv, TypeOK, Seqs
  <2> QED BY <2>1, <2>2 DEF IInv, TypeOK, Seqs
<1>2. ASSUME deliveries[seq] = 0, \A d \in Seqs : deliveries[d] > 0 => d < seq + Window
      PROVE  Admits(high, win, seq)
  <2>1. ~TooOld(high, seq)
    BY <1>2 DEF TooOld, IInv, TypeOK, WindowMirrors, Seqs
  <2>2. ASSUME seq <= high, high - seq \in win PROVE FALSE
    <3>1. high - seq \in Offsets /\ high - (high - seq) = seq
      BY <2>2 DEF IInv, TypeOK, Seqs
    <3> QED BY <2>2, <3>1, <1>2 DEF IInv, WindowMirrors
  <2> QED BY <2>1, <2>2 DEF Admits, Seen
<1> QED BY <1>1, <1>2, AdmittedIsFresh

\* decrypt turns a packet away exactly when it is a replay or has fallen out of
\* the window, for every window width and history.
THEOREM AdmissionExact == Spec => []AdmitsExactlyFresh
BY InitInv, StepInv, MirrorsAdmitFresh, PTL DEF Spec

\* The receiver with its finite mask implements the at-most-once channel.
THEOREM RefinesOnce == Spec => ImplementsOnce
<1>1. Init => Once!Init
  BY DEF Init, Once!Init
<1>2. IInv /\ [Next]_vars => [Once!Next]_(Once!vars)
  <2> SUFFICES ASSUME IInv, [Next]_vars PROVE [Once!Next]_(Once!vars)
    OBVIOUS
  <2>1. CASE encrypt
    BY <2>1 DEF encrypt, Once!Next, Once!Send
  <2>2. ASSUME NEW seq \in Seqs, NEW authentic \in BOOLEAN, decrypt(seq, authentic)
        PROVE  [Once!Next]_(Once!vars)
    <3>1. CASE authentic /\ Admits(high, win, seq)
      <4>1. deliveries[seq] = 0
        BY <3>1, AdmittedIsFresh
      <4>2. deliveries' = [deliveries EXCEPT ![seq] = 1]
        BY <4>1, <3>1, <2>2 DEF decrypt, IInv, TypeOK
      <4>3. Once!Deliver(seq)
        BY <4>1, <4>2, <3>1, <2>2 DEF decrypt, Once!Deliver
      <4> QED BY <4>3 DEF Once!Next
    <3>2. CASE ~(authentic /\ Admits(high, win, seq))
      BY <3>2, <2>2 DEF decrypt, Once!vars
    <3> QED BY <3>1, <3>2
  <2>3. CASE UNCHANGED vars
    BY <2>3 DEF vars, Once!vars
  <2> QED BY <2>1, <2>2, <2>3 DEF Next
<1> QED BY <1>1, <1>2, InitInv, StepInv, PTL DEF Spec, ImplementsOnce, Once!Spec

-----------------------------------------------------------------------------
(* The link.  Data induction over sequences and digits is by the least   *)
(* counterexample.                                                         *)

LEMMA LeastNat ==
    ASSUME NEW T \in SUBSET Nat, T # {}
    PROVE  \E x \in T : \A y \in T : x <= y
<1>1. PICK x \in T : \A y \in T : ~(<<y, x>> \in OpToRel(<, Nat))
  BY WFMin, NatLessThanWellFounded, Zenon
<1>2. \A y \in T : ~(y < x)
  BY <1>1, Zenon DEF OpToRel
<1> QED BY <1>2

-----------------------------------------------------------------------------
(* Lengths on the wire.                                                    *)

\* What is left of v after the first m digits, by the equations of encode_uvarint's loop.
RestOf(v, i, before) == IF i = 0 THEN v ELSE before \div LEN_RADIX

RestTo(v, m, g) == g = [i \in 0 .. m |-> RestOf(v, i, g[i - 1])]

LEMMA FirstRest ==
    ASSUME NEW v, NEW a, NEW b PROVE RestOf(v, 0, a) = RestOf(v, 0, b)
BY DEF RestOf

LEMMA RestDefined ==
    ASSUME NEW v, NEW m \in Nat
    PROVE  \E g : RestTo(v, m, g)
<1> DEFINE T == {k \in Nat : ~\E g : RestTo(v, k, g)}
<1> SUFFICES ASSUME T # {} PROVE FALSE
  OBVIOUS
<1>1. PICK k \in T : \A y \in T : k <= y
  <2>1. T \in SUBSET Nat
    OBVIOUS
  <2> HIDE DEF T
  <2> QED BY <2>1, LeastNat, Zenon
<1>2. k \in Nat
  BY <1>1
<1>3. k # 0
  <2> SUFFICES ASSUME k = 0 PROVE FALSE
    OBVIOUS
  <2> DEFINE g == [i \in 0 .. 0 |-> RestOf(v, i, 0)]
  <2>1. \A i \in 0 .. 0 : RestOf(v, i, 0) = RestOf(v, i, g[i - 1])
    <3>1. \A i \in 0 .. 0 : i = 0
      OBVIOUS
    <3> HIDE DEF g
    <3> QED BY <3>1, FirstRest
  <2>2. g = [i \in 0 .. 0 |-> RestOf(v, i, g[i - 1])]
    BY <2>1, Zenon
  <2>3. RestTo(v, 0, g)
    BY <2>2 DEF RestTo
  <2> QED BY <1>1, <2>3
<1>4. k - 1 \in Nat /\ k - 1 \notin T
  BY <1>1, <1>2, <1>3
<1>5. PICK g : RestTo(v, k - 1, g)
  BY <1>4
<1>6. g = [i \in 0 .. k - 1 |-> RestOf(v, i, g[i - 1])]
  BY <1>5 DEF RestTo
<1> DEFINE h == [i \in 0 .. k |-> IF i = k THEN RestOf(v, k, g[k - 1]) ELSE g[i]]
<1>7. ASSUME NEW i \in 0 .. k PROVE h[i] = RestOf(v, i, h[i - 1])
  <2>1. CASE i = k
    <3>1. h[k] = RestOf(v, k, g[k - 1]) /\ h[k - 1] = g[k - 1]
      BY <1>2, <1>3
    <3> QED BY <2>1, <3>1
  <2>2. CASE i # k
    <3>1. i \in 0 .. k - 1 /\ h[i] = g[i]
      BY <1>2, <2>2
    <3>2. g[i] = RestOf(v, i, g[i - 1])
      BY <1>6, <3>1, Zenon
    <3>3. i # 0 => i - 1 \in 0 .. k /\ i - 1 # k
      BY <1>2, <3>1
    <3>4. i # 0 => h[i - 1] = g[i - 1]
      BY <3>3
    <3> HIDE DEF h
    <3>5. i = 0 => RestOf(v, i, g[i - 1]) = RestOf(v, i, h[i - 1])
      BY FirstRest
    <3> QED BY <3>1, <3>2, <3>4, <3>5
  <2> QED BY <2>1, <2>2
<1>8. RestTo(v, k, h)
  <2>1. h = [i \in 0 .. k |-> h[i]]
    OBVIOUS
  <2> HIDE DEF h
  <2>2. h = [i \in 0 .. k |-> RestOf(v, i, h[i - 1])]
    BY <1>7, <2>1, Zenon
  <2> QED BY <2>2 DEF RestTo
<1> QED BY <1>1, <1>8

LEMMA ShiftedStep ==
    ASSUME NEW v \in Nat
    PROVE  shifted(v)[0] = v
           /\ \A i \in 1 .. v + 1 : shifted(v)[i] = shifted(v)[i - 1] \div LEN_RADIX
<1> DEFINE g == CHOOSE f : RestTo(v, v + 1, f)
<1>1. RestTo(v, v + 1, g)
  <2>1. v + 1 \in Nat
    OBVIOUS
  <2> QED BY <2>1, RestDefined, Zenon
<1>2. shifted(v) = g
  BY DEF shifted, RestTo, RestOf
<1>3. g = [i \in 0 .. v + 1 |-> RestOf(v, i, g[i - 1])]
  BY <1>1 DEF RestTo
<1> HIDE DEF g
<1>4. g[0] = v /\ \A i \in 1 .. v + 1 : g[i] = g[i - 1] \div LEN_RADIX
  BY <1>3 DEF RestOf
<1> QED BY <1>2, <1>4

\* Division by the radix.
LEMMA DivFacts ==
    ASSUME NEW a \in Nat
    PROVE  /\ a \div LEN_RADIX \in Nat /\ a % LEN_RADIX \in Nat
           /\ a % LEN_RADIX < LEN_RADIX
           /\ a = LEN_RADIX * (a \div LEN_RADIX) + (a % LEN_RADIX)
           /\ a # 0 => a \div LEN_RADIX < a
<1>1. LEN_RADIX \in Nat /\ LEN_RADIX >= 2
  BY LinkAssumption
<1>2. /\ a \div LEN_RADIX \in Nat /\ a % LEN_RADIX \in Nat
      /\ a % LEN_RADIX < LEN_RADIX
      /\ a = LEN_RADIX * (a \div LEN_RADIX) + (a % LEN_RADIX)
  BY <1>1
<1>3. a # 0 => a \div LEN_RADIX < a
  BY <1>1, <1>2
<1> QED BY <1>2, <1>3

LEMMA DigitMod ==
    ASSUME NEW m \in Nat, m < LEN_RADIX
    PROVE  m % LEN_RADIX = m /\ (LEN_RADIX + m) % LEN_RADIX = m
<1>1. LEN_RADIX \in Nat /\ LEN_RADIX >= 2
  BY LinkAssumption
<1> QED BY <1>1


LEMMA MinFacts ==
    ASSUME NEW T \in SUBSET Nat, T # {}
    PROVE  Min(T) \in T /\ \A y \in T : Min(T) <= y
<1>1. \E x \in T : \A y \in T : x <= y
  BY LeastNat, Zenon
<1> QED BY <1>1 DEF Min

LEMMA ShiftedFalls ==
    ASSUME NEW v \in Nat, NEW k \in 0 .. v + 1
    PROVE  shifted(v)[k] \in Nat /\ (shifted(v)[k] = 0 \/ shifted(v)[k] + k <= v)
<1> DEFINE s == shifted(v)
           T == {i \in 0 .. v + 1 : ~(s[i] \in Nat /\ (s[i] = 0 \/ s[i] + i <= v))}
<1> SUFFICES ASSUME T # {} PROVE FALSE
  OBVIOUS
<1>1. s[0] = v /\ \A i \in 1 .. v + 1 : s[i] = s[i - 1] \div LEN_RADIX
  BY ShiftedStep
<1> HIDE DEF s
<1>2. PICK i \in T : \A y \in T : i <= y
  <2>1. T \in SUBSET Nat
    OBVIOUS
  <2> HIDE DEF T
  <2> QED BY <2>1, LeastNat, Zenon
<1>3. i \in 0 .. v + 1 /\ ~(s[i] \in Nat /\ (s[i] = 0 \/ s[i] + i <= v))
  BY <1>2
<1>4. i # 0
  BY <1>1, <1>3
<1>5. i - 1 \in 0 .. v + 1 /\ i - 1 \notin T
  BY <1>2, <1>3, <1>4
<1>6. s[i - 1] \in Nat /\ (s[i - 1] = 0 \/ s[i - 1] + (i - 1) <= v)
  BY <1>5
<1>7. s[i] = s[i - 1] \div LEN_RADIX
  BY <1>1, <1>3, <1>4
<1> DEFINE a == s[i - 1]
<1>8. /\ a \in Nat /\ a \div LEN_RADIX \in Nat
      /\ a = LEN_RADIX * (a \div LEN_RADIX) + (a % LEN_RADIX) /\ a % LEN_RADIX \in Nat
      /\ a # 0 => a \div LEN_RADIX < a
  BY <1>6, DivFacts
<1>9. s[i] \in Nat /\ (a # 0 => s[i] < a)
  BY <1>7, <1>8
<1>10. a = 0 => s[i] = 0
  <2>1. 0 \div LEN_RADIX = 0
    BY LinkAssumption
  <2> QED BY <1>7, <2>1
<1>11. s[i] + i <= v \/ s[i] = 0
  BY <1>3, <1>6, <1>9, <1>10
<1> QED BY <1>3, <1>9, <1>11

\* The number of digits encode_uvarint writes.
Width(v) == Min({i \in 1 .. v + 1 : shifted(v)[i] = 0})

LEMMA WidthFacts ==
    ASSUME NEW v \in Nat
    PROVE  /\ Width(v) \in 1 .. v + 1 /\ shifted(v)[Width(v)] = 0
           /\ \A i \in 1 .. Width(v) - 1 : shifted(v)[i] # 0
<1> DEFINE T == {i \in 1 .. v + 1 : shifted(v)[i] = 0}
<1>1. shifted(v)[v + 1] = 0
  BY ShiftedFalls
<1>2. T \in SUBSET Nat /\ T # {}
  BY <1>1
<1>3. Width(v) = Min(T)
  BY DEF Width
<1>4. Min(T) \in T /\ \A y \in T : Min(T) <= y
  <2> HIDE DEF T
  <2> QED BY <1>2, MinFacts
<1> QED BY <1>3, <1>4

LEMMA EncodeFacts ==
    ASSUME NEW v \in Nat
    PROVE  /\ encode_len(v) \in Seq(Nat) /\ Len(encode_len(v)) = Width(v)
           /\ \A i \in 1 .. Width(v) :
                encode_len(v)[i] = (IF i < Width(v) THEN LEN_RADIX ELSE 0)
                                   + (shifted(v)[i - 1] % LEN_RADIX)
           /\ \A i \in 1 .. Width(v) - 1 : encode_len(v)[i] >= LEN_RADIX
           /\ encode_len(v)[Width(v)] < LEN_RADIX
<1> DEFINE n == Width(v)
           D(i) == (IF i < n THEN LEN_RADIX ELSE 0) + (shifted(v)[i - 1] % LEN_RADIX)
<1>1. n \in 1 .. v + 1
  BY WidthFacts
<1>2. encode_len(v) = [i \in 1 .. n |-> D(i)]
  BY DEF encode_len, Width
<1>3. ASSUME NEW i \in 1 .. n
      PROVE  D(i) \in Nat /\ (i < n => D(i) >= LEN_RADIX) /\ (i = n => D(i) < LEN_RADIX)
  <2>1. i - 1 \in 0 .. v + 1
    BY <1>1
  <2>2. shifted(v)[i - 1] \in Nat
    BY <2>1, ShiftedFalls
  <2>3. PICK m : m = shifted(v)[i - 1] % LEN_RADIX /\ m \in Nat /\ m < LEN_RADIX
    BY <2>2, DivFacts
  <2>4. LEN_RADIX \in Nat
    BY LinkAssumption
  <2>5. D(i) = (IF i < n THEN LEN_RADIX ELSE 0) + m
    BY <2>3
  <2> QED BY ONLY <1>1, <2>3, <2>4, <2>5, i \in 1 .. n, n \in 1 .. v + 1, v \in Nat
<1> HIDE DEF n, D
<1>4. encode_len(v) \in Seq(Nat) /\ Len(encode_len(v)) = n
  BY <1>1, <1>2, <1>3
<1>5. \A i \in 1 .. n : encode_len(v)[i] = D(i)
  BY <1>2
<1>6. n - 1 \in Nat /\ n \in 1 .. n /\ \A i \in 1 .. n - 1 : i \in 1 .. n /\ i < n
  BY <1>1
<1> QED BY <1>3, <1>4, <1>5, <1>6 DEF n, D


\* What decode_uvarint makes of each tail of the digits of v.
FromEqs(d, g) ==
    g = [i \in 1 .. Len(d) + 1 |->
           IF i = Len(d) + 1 THEN 0 ELSE (d[i] % LEN_RADIX) + LEN_RADIX * g[i + 1]]

\* A digit of the encoding gives back what was left before it.
LEMMA DigitBack ==
    ASSUME NEW v \in Nat, NEW i \in 1 .. Width(v)
    PROVE  /\ shifted(v)[i] \in Nat
           /\ shifted(v)[i - 1] = (encode_len(v)[i] % LEN_RADIX) + LEN_RADIX * shifted(v)[i]
<1>1. Width(v) \in 1 .. v + 1
  BY WidthFacts
<1>2. i \in 1 .. v + 1 /\ i \in 0 .. v + 1 /\ i - 1 \in 0 .. v + 1
  BY <1>1
<1>3. PICK a : a = shifted(v)[i - 1] /\ a \in Nat
  BY <1>2, ShiftedFalls
<1>4. shifted(v)[i] \in Nat /\ shifted(v)[i] = a \div LEN_RADIX
  BY <1>2, <1>3, ShiftedFalls, ShiftedStep
<1>5. PICK m : m = a % LEN_RADIX /\ m \in Nat /\ m < LEN_RADIX
               /\ a = LEN_RADIX * (a \div LEN_RADIX) + m
  BY <1>3, DivFacts
<1>6. m % LEN_RADIX = m /\ (LEN_RADIX + m) % LEN_RADIX = m
  BY <1>5, DigitMod
<1>7. encode_len(v)[i] = (IF i < Width(v) THEN LEN_RADIX ELSE 0) + m
  BY <1>3, <1>5, EncodeFacts
<1>8. encode_len(v)[i] = LEN_RADIX + m \/ encode_len(v)[i] = m
  BY <1>5, <1>7
<1>9. encode_len(v)[i] % LEN_RADIX = m
  BY <1>6, <1>8
<1>10. LEN_RADIX \in Nat
  BY LinkAssumption
<1>11. a = m + LEN_RADIX * (a \div LEN_RADIX)
  BY ONLY <1>5, <1>10, <1>3, <1>4
<1> QED BY <1>3, <1>4, <1>9, <1>11

LEMMA DecodeEncode ==
    ASSUME NEW v \in Nat
    PROVE  decode_len(encode_len(v)) = v
<1> DEFINE d == encode_len(v)
           n == Width(v)
           s == shifted(v)
           w == [i \in 1 .. n + 1 |-> s[i - 1]]
           g == CHOOSE f : FromEqs(d, f)
<1>1. n \in 1 .. v + 1 /\ n \in Nat /\ s[n] = 0 /\ s[0] = v
  BY WidthFacts, ShiftedStep
<1>2. Len(d) = n
  BY EncodeFacts
<1>3. \A i \in 1 .. n : s[i] \in Nat /\ s[i - 1] = (d[i] % LEN_RADIX) + LEN_RADIX * s[i]
  BY DigitBack
<1>4. decode_len(d) = g[1]
  BY DEF decode_len, FromEqs
<1> HIDE DEF d, n, s
<1>5. FromEqs(d, w)
  <2>1. ASSUME NEW i \in 1 .. n + 1
        PROVE  s[i - 1] = IF i = n + 1 THEN 0 ELSE (d[i] % LEN_RADIX) + LEN_RADIX * w[i + 1]
    <3>1. CASE i = n + 1
      BY <1>1, <3>1
    <3>2. CASE i # n + 1
      <4>1. i \in 1 .. n /\ i + 1 \in 1 .. n + 1 /\ (i + 1) - 1 = i
        BY <1>1, <3>2
      <4>2. w[i + 1] = s[i]
        BY <4>1
      <4> QED BY <1>3, <3>2, <4>1, <4>2
    <3> QED BY <3>1, <3>2
  <2>2. w = [i \in 1 .. n + 1 |->
               IF i = n + 1 THEN 0 ELSE (d[i] % LEN_RADIX) + LEN_RADIX * w[i + 1]]
    BY <2>1, Zenon
  <2> HIDE DEF w
  <2> QED BY <1>2, <2>2 DEF FromEqs
<1>6. FromEqs(d, g)
  BY <1>5, Zenon
<1>7. g = [i \in 1 .. n + 1 |->
             IF i = n + 1 THEN 0 ELSE (d[i] % LEN_RADIX) + LEN_RADIX * g[i + 1]]
  BY <1>2, <1>6 DEF FromEqs
<1> HIDE DEF g, w
<1> DEFINE T == {k \in 0 .. n : g[n + 1 - k] # s[n - k]}
<1>8. T = {}
  <2> SUFFICES ASSUME T # {} PROVE FALSE
    OBVIOUS
  <2>1. PICK k \in T : \A y \in T : k <= y
    <3>1. T \in SUBSET Nat
      BY <1>1
    <3> HIDE DEF T
    <3> QED BY <3>1, LeastNat, Zenon
  <2>2. k \in 0 .. n /\ g[n + 1 - k] # s[n - k]
    BY <2>1
  <2>3. k # 0
    <3>1. g[n + 1] = 0
      BY <1>1, <1>7
    <3> QED BY <1>1, <2>2, <3>1
  <2>4. k - 1 \in 0 .. n /\ k - 1 \notin T
    BY <1>1, <2>1, <2>2, <2>3
  <2>5. g[n + 1 - (k - 1)] = s[n - (k - 1)]
    BY <2>4
  <2> DEFINE i == n + 1 - k
  <2>6. i \in 1 .. n /\ n + 1 - (k - 1) = i + 1 /\ n - (k - 1) = i /\ n - k = i - 1
        /\ i \in 1 .. n + 1 /\ i # n + 1
    BY <1>1, <2>2, <2>3
  <2> HIDE DEF i
  <2>7. g[i] = (d[i] % LEN_RADIX) + LEN_RADIX * g[i + 1]
    BY <1>7, <2>6, Zenon
  <2>8. g[i] = s[i - 1]
    BY <1>3, <2>5, <2>6, <2>7
  <2> QED BY <2>2, <2>6, <2>8 DEF i
<1>9. g[1] = s[0]
  <2>1. n \in 0 .. n /\ n + 1 - n = 1 /\ n - n = 0
    BY <1>1
  <2> QED BY <1>8, <2>1
<1> QED BY <1>1, <1>4, <1>9 DEF d


-----------------------------------------------------------------------------
(* The byte stream of a link.                                              *)

WireByte == [frame : LinkFrame \cup {Idle}, at : Nat, v : Nat]

Cell == [b : WireByte, nonce : {"tx", "none"}, pos : Nat]

LenOf(f) == encode_len(Size[f.id])

LEMMA WireFacts ==
    ASSUME NEW f \in LinkFrame
    PROVE  /\ Size[f.id] \in Nat \ {0} /\ LenOf(f) \in Seq(Nat) /\ Len(LenOf(f)) \in Nat \ {0}
           /\ Wire(f) \in Seq(WireByte) /\ Len(Wire(f)) = Len(LenOf(f)) + Size[f.id]
           /\ \A i \in 1 .. Len(LenOf(f)) :
                Wire(f)[i] = [frame |-> Idle, at |-> 0, v |-> LenOf(f)[i]]
           /\ \A i \in 1 .. Size[f.id] :
                Wire(f)[Len(LenOf(f)) + i] = [frame |-> f, at |-> i, v |-> 0]
<1> DEFINE z == Size[f.id]
           e == LenOf(f)
<1>1. z \in Nat /\ z # 0
  BY LinkAssumption DEF LinkFrame, Payloads
<1>2. e \in Seq(Nat) /\ Len(e) \in Nat /\ Len(e) # 0
  <2>1. Len(e) = Width(z) /\ e \in Seq(Nat)
    BY <1>1, EncodeFacts DEF LenOf
  <2>2. Width(z) \in 1 .. z + 1
    BY <1>1, WidthFacts
  <2> QED BY <1>1, <2>1, <2>2
<1>3. Digits(f) = [i \in 1 .. Len(e) |-> [frame |-> Idle, at |-> 0, v |-> e[i]]]
  <2>1. DOMAIN e = 1 .. Len(e)
    BY <1>2
  <2>2. Digits(f) = [i \in DOMAIN e |-> [frame |-> Idle, at |-> 0, v |-> e[i]]]
    BY DEF Digits, LenOf
  <2> QED BY <2>1, <2>2
<1>4. Bytes(f) = [i \in 1 .. z |-> [frame |-> f, at |-> i, v |-> 0]]
  BY DEF Bytes
<1> HIDE DEF z, e
<1>5. \A i \in 1 .. Len(e) : [frame |-> Idle, at |-> 0, v |-> e[i]] \in WireByte
  BY <1>2 DEF WireByte
<1>6. \A i \in 1 .. z : [frame |-> f, at |-> i, v |-> 0] \in WireByte
  BY <1>1 DEF WireByte
<1>7. Digits(f) \in Seq(WireByte) /\ Len(Digits(f)) = Len(e)
  BY <1>2, <1>3, <1>5
<1>8. Bytes(f) \in Seq(WireByte) /\ Len(Bytes(f)) = z
  BY <1>1, <1>4, <1>6
<1>9. Wire(f) \in Seq(WireByte) /\ Len(Wire(f)) = Len(e) + z
  BY <1>7, <1>8 DEF Wire
<1>10. \A i \in 1 .. Len(e) : Wire(f)[i] = [frame |-> Idle, at |-> 0, v |-> e[i]]
  <2>1. \A i \in 1 .. Len(e) : Wire(f)[i] = Digits(f)[i]
    BY <1>1, <1>2, <1>7, <1>8 DEF Wire
  <2> QED BY <1>3, <2>1
<1>11. \A i \in 1 .. z : Wire(f)[Len(e) + i] = [frame |-> f, at |-> i, v |-> 0]
  <2>1. \A i \in 1 .. z : Wire(f)[Len(e) + i] = Bytes(f)[i]
    BY <1>1, <1>2, <1>7, <1>8 DEF Wire
  <2> QED BY <1>4, <2>1
<1> QED BY <1>1, <1>2, <1>9, <1>10, <1>11 DEF z, e

\* S is the byte stream of the frames ts, and off says where each of them ends.
Layout(ts, off, S) ==
    /\ ts \in Seq(LinkFrame) /\ S \in Seq(WireByte) /\ off \in [0 .. Len(ts) -> Nat]
    /\ off[0] = 0 /\ off[Len(ts)] = Len(S)
    /\ \A j, k \in 0 .. Len(ts) : j <= k => off[j] <= off[k]
    /\ \A k \in 1 .. Len(ts) : off[k] = off[k - 1] + Len(Wire(ts[k]))
    /\ \A k \in 1 .. Len(ts) : \A i \in 1 .. Len(Wire(ts[k])) :
         S[off[k - 1] + i] = Wire(ts[k])[i]

\* One more frame at the end.
LEMMA LayoutGrows ==
    ASSUME NEW ts, NEW off, NEW S, Layout(ts, off, S), NEW f \in LinkFrame
    PROVE  LET g == [k \in 0 .. Len(ts) + 1 |->
                       IF k = Len(ts) + 1 THEN Len(S) + Len(Wire(f)) ELSE off[k]]
           IN  Layout(Append(ts, f), g, S \o Wire(f))
<1> DEFINE n == Len(ts)
           us == Append(ts, f)
           W == S \o Wire(f)
           g == [k \in 0 .. n + 1 |-> IF k = n + 1 THEN Len(S) + Len(Wire(f)) ELSE off[k]]
<1>1. /\ ts \in Seq(LinkFrame) /\ S \in Seq(WireByte) /\ off \in [0 .. n -> Nat]
      /\ off[0] = 0 /\ off[n] = Len(S) /\ n \in Nat
      /\ \A j, k \in 0 .. n : j <= k => off[j] <= off[k]
      /\ \A k \in 1 .. n : off[k] = off[k - 1] + Len(Wire(ts[k]))
  BY DEF Layout
<1>2. Wire(f) \in Seq(WireByte) /\ Len(Wire(f)) \in Nat
  BY WireFacts
<1>3. /\ us \in Seq(LinkFrame) /\ Len(us) = n + 1 /\ us[n + 1] = f
      /\ \A k \in 1 .. n : us[k] = ts[k]
  BY <1>1
<1>4. /\ W \in Seq(WireByte) /\ Len(W) = Len(S) + Len(Wire(f))
      /\ \A i \in 1 .. Len(S) : W[i] = S[i]
      /\ \A i \in 1 .. Len(Wire(f)) : W[Len(S) + i] = Wire(f)[i]
  BY <1>1, <1>2
<1>5. g \in [0 .. n + 1 -> Nat] /\ g[n + 1] = Len(S) + Len(Wire(f))
      /\ \A k \in 0 .. n : g[k] = off[k]
  BY <1>1, <1>2
<1> HIDE DEF g, W, us, n
<1>6. g[0] = 0 /\ g[Len(us)] = Len(W)
  BY <1>1, <1>3, <1>4, <1>5
<1>7. \A j, k \in 0 .. n + 1 : j <= k => g[j] <= g[k]
  <2> SUFFICES ASSUME NEW j \in 0 .. n + 1, NEW k \in 0 .. n + 1, j <= k PROVE g[j] <= g[k]
    OBVIOUS
  <2>1. CASE k = n + 1
    <3>1. j # n + 1 => j \in 0 .. n /\ n \in 0 .. n /\ j <= n
      BY <1>1
    <3>2. j # n + 1 => off[j] <= off[n] /\ g[j] = off[j] /\ off[j] \in Nat
      BY <1>1, <1>5, <3>1
    <3> QED BY <1>1, <1>2, <1>5, <2>1, <3>2
  <2>2. CASE k # n + 1
    <3>1. k \in 0 .. n /\ j \in 0 .. n
      BY <1>1, <2>2
    <3> QED BY <1>1, <1>5, <3>1
  <2> QED BY <2>1, <2>2
<1>8. \A k \in 1 .. n + 1 : g[k] = g[k - 1] + Len(Wire(us[k]))
  <2> SUFFICES ASSUME NEW k \in 1 .. n + 1 PROVE g[k] = g[k - 1] + Len(Wire(us[k]))
    OBVIOUS
  <2>1. CASE k = n + 1
    <3>1. k - 1 = n /\ n \in 0 .. n
      BY <1>1, <2>1
    <3>2. g[k - 1] = Len(S)
      BY <1>1, <1>5, <3>1
    <3> QED BY <1>3, <1>5, <2>1, <3>2
  <2>2. CASE k # n + 1
    <3>1. k \in 1 .. n /\ k \in 0 .. n /\ k - 1 \in 0 .. n
      BY <1>1, <2>2
    <3> QED BY <1>1, <1>3, <1>5, <3>1
  <2> QED BY <2>1, <2>2
<1>9. \A k \in 1 .. n + 1 : \A i \in 1 .. Len(Wire(us[k])) : W[g[k - 1] + i] = Wire(us[k])[i]
  <2> SUFFICES ASSUME NEW k \in 1 .. n + 1, NEW i \in 1 .. Len(Wire(us[k]))
               PROVE  W[g[k - 1] + i] = Wire(us[k])[i]
    OBVIOUS
  <2>1. CASE k = n + 1
    <3>1. k - 1 = n /\ n \in 0 .. n
      BY <1>1, <2>1
    <3>2. g[k - 1] = Len(S)
      BY <1>1, <1>5, <3>1
    <3> QED BY <1>3, <1>4, <2>1, <3>2
  <2>2. CASE k # n + 1
    <3>1. k \in 1 .. n /\ k \in 0 .. n /\ k - 1 \in 0 .. n /\ us[k] = ts[k]
      BY <1>1, <1>3, <2>2
    <3>2. S[off[k - 1] + i] = Wire(ts[k])[i]
      BY <3>1 DEF Layout, n
    <3>3. Len(Wire(ts[k])) \in Nat
      BY <1>1, <3>1, WireFacts
    <3>4. off[k] = off[k - 1] + Len(Wire(ts[k])) /\ off[k] <= off[n]
      BY <1>1, <3>1
    <3>5. off[k - 1] \in Nat /\ off[k - 1] + Len(Wire(ts[k])) <= Len(S) /\ Len(S) \in Nat
      BY <1>1, <3>1, <3>4
    <3>6. i \in 1 .. Len(Wire(ts[k]))
      BY <3>1
    <3>7. off[k - 1] + i \in 1 .. Len(S)
      BY ONLY <3>3, <3>5, <3>6
    <3> QED BY <1>4, <1>5, <3>1, <3>2, <3>7
  <2> QED BY <2>1, <2>2
<1> QED BY <1>3, <1>4, <1>5, <1>6, <1>7, <1>8, <1>9 DEF Layout, g, W, us, n


LEMMA SameSeq ==
    ASSUME NEW X, NEW x \in Seq(X), NEW y \in Seq(X), Len(x) = Len(y),
           \A i \in 1 .. Len(x) : x[i] = y[i]
    PROVE  x = y
OBVIOUS

LEMMA JoinFacts ==
    ASSUME NEW X, NEW x \in Seq(X), NEW y \in Seq(X)
    PROVE  /\ x \o y \in Seq(X) /\ Len(x \o y) = Len(x) + Len(y)
           /\ \A i \in 1 .. Len(x) : (x \o y)[i] = x[i]
           /\ \A i \in 1 .. Len(y) : (x \o y)[Len(x) + i] = y[i]
OBVIOUS

LEMMA SliceFacts ==
    ASSUME NEW X, NEW x \in Seq(X), NEW a \in Nat, NEW c \in Nat, a <= c, c <= Len(x)
    PROVE  /\ SubSeq(x, a + 1, c) \in Seq(X) /\ Len(SubSeq(x, a + 1, c)) = c - a
           /\ \A i \in 1 .. c - a : SubSeq(x, a + 1, c)[i] = x[a + i]
OBVIOUS

\* Where a frame lies in the stream.
LEMMA LayoutFrame ==
    ASSUME NEW ts, NEW off, NEW S, Layout(ts, off, S), NEW k \in 1 .. Len(ts)
    PROVE  /\ ts[k] \in LinkFrame /\ off[k - 1] \in Nat /\ off[k] \in Nat
           /\ Wire(ts[k]) \in Seq(WireByte) /\ Len(Wire(ts[k])) \in Nat
           /\ off[k] = off[k - 1] + Len(Wire(ts[k])) /\ off[k] <= Len(S) /\ Len(S) \in Nat
           /\ \A i \in 1 .. Len(Wire(ts[k])) : S[off[k - 1] + i] = Wire(ts[k])[i]
<1>1. ts \in Seq(LinkFrame) /\ S \in Seq(WireByte) /\ off \in [0 .. Len(ts) -> Nat]
  BY DEF Layout
<1>2. Len(ts) \in Nat /\ k \in 0 .. Len(ts) /\ k - 1 \in 0 .. Len(ts) /\ Len(ts) \in 0 .. Len(ts)
  BY <1>1
<1>3. ts[k] \in LinkFrame /\ off[k - 1] \in Nat /\ off[k] \in Nat /\ Len(S) \in Nat
  BY <1>1, <1>2
<1>4. off[k] <= off[Len(ts)] /\ off[Len(ts)] = Len(S)
  BY <1>2 DEF Layout
<1>5. Wire(ts[k]) \in Seq(WireByte) /\ Len(Wire(ts[k])) \in Nat
  BY <1>3, WireFacts
<1>6. /\ off[k] = off[k - 1] + Len(Wire(ts[k]))
      /\ \A i \in 1 .. Len(Wire(ts[k])) : S[off[k - 1] + i] = Wire(ts[k])[i]
  BY DEF Layout
<1> QED BY <1>3, <1>4, <1>5, <1>6

LEMMA BehindSlice ==
    ASSUME NEW a \in Nat, NEW p \in Nat, NEW m \in Nat, NEW i \in Nat,
           a <= p, 1 <= i, i <= (p + m) - a, ~(i <= p - a)
    PROVE  /\ i - (p - a) \in 1 .. m /\ i = (p - a) + (i - (p - a))
           /\ a + i = p + (i - (p - a))
OBVIOUS

\* The stream up to a frame's end is the stream up to its start, and the frame.
LEMMA LayoutJoin ==
    ASSUME NEW ts, NEW off, NEW S, Layout(ts, off, S), NEW k \in 1 .. Len(ts),
           NEW a \in Nat, a <= off[k - 1]
    PROVE  SubSeq(S, a + 1, off[k]) = SubSeq(S, a + 1, off[k - 1]) \o Wire(ts[k])
<1>1. /\ off[k - 1] \in Nat /\ off[k] \in Nat
      /\ Wire(ts[k]) \in Seq(WireByte) /\ Len(Wire(ts[k])) \in Nat
      /\ off[k] = off[k - 1] + Len(Wire(ts[k])) /\ off[k] <= Len(S) /\ Len(S) \in Nat
      /\ \A i \in 1 .. Len(Wire(ts[k])) : S[off[k - 1] + i] = Wire(ts[k])[i]
  BY LayoutFrame
<1>2. S \in Seq(WireByte)
  BY DEF Layout
<1> DEFINE x == SubSeq(S, a + 1, off[k])
           y == SubSeq(S, a + 1, off[k - 1])
           w == Wire(ts[k])
<1>3. a <= off[k] /\ off[k - 1] <= Len(S)
  BY <1>1
<1>4. x \in Seq(WireByte) /\ Len(x) = off[k] - a /\ \A i \in 1 .. off[k] - a : x[i] = S[a + i]
  BY <1>1, <1>2, <1>3, SliceFacts
<1>5. y \in Seq(WireByte) /\ Len(y) = off[k - 1] - a
      /\ \A i \in 1 .. off[k - 1] - a : y[i] = S[a + i]
  BY <1>1, <1>2, <1>3, SliceFacts
<1> HIDE DEF x, y, w
<1>6. /\ w \in Seq(WireByte) /\ y \o w \in Seq(WireByte) /\ Len(y \o w) = Len(y) + Len(w)
      /\ \A i \in 1 .. Len(y) : (y \o w)[i] = y[i]
      /\ \A i \in 1 .. Len(w) : (y \o w)[Len(y) + i] = w[i]
  <2>1. w \in Seq(WireByte)
    BY <1>1 DEF w
  <2>2. y \in Seq(WireByte)
    BY <1>5
  <2> QED BY ONLY <2>1, <2>2, JoinFacts
<1>7. Len(x) = Len(y \o w)
  BY <1>1, <1>4, <1>5, <1>6 DEF w
<1>8. ASSUME NEW i \in 1 .. Len(x) PROVE x[i] = (y \o w)[i]
  <2>1. CASE i <= Len(y)
    <3>1. i \in 1 .. Len(y) /\ i \in 1 .. off[k - 1] - a /\ i \in 1 .. off[k] - a
      BY <1>1, <1>4, <1>5, <2>1
    <3> QED BY <1>4, <1>5, <1>6, <3>1
  <2>2. CASE ~(i <= Len(y))
    <3> DEFINE j == i - Len(y)
    <3>0. Len(y) = off[k - 1] - a /\ Len(x) = off[k] - a /\ off[k] = off[k - 1] + Len(w)
          /\ off[k - 1] \in Nat /\ off[k] \in Nat /\ Len(w) \in Nat
      BY <1>1, <1>4, <1>5 DEF w
    <3>1. j \in 1 .. Len(w) /\ i = Len(y) + j /\ a + i = off[k - 1] + j /\ i \in 1 .. off[k] - a
      <4> DEFINE p == off[k - 1]
                 m == Len(w)
      <4>1. i \in Nat /\ 1 <= i /\ i <= (p + m) - a /\ ~(i <= p - a)
            /\ p \in Nat /\ m \in Nat /\ a \in Nat /\ a <= p
        BY <2>2, <3>0
      <4> HIDE DEF p, m
      <4>2. /\ i - (p - a) \in 1 .. m /\ i = (p - a) + (i - (p - a))
            /\ a + i = p + (i - (p - a))
        BY ONLY <4>1, BehindSlice
      <4>3. i \in 1 .. off[k] - a
        BY <3>0
      <4> QED BY <3>0, <4>2, <4>3 DEF p, m
    <3> HIDE DEF j
    <3>2. x[i] = S[off[k - 1] + j] /\ (y \o w)[i] = w[j]
      BY <1>4, <1>6, <3>1
    <3> QED BY <1>1, <3>1, <3>2 DEF w
  <2> QED BY <1>4, <1>5, <2>1, <2>2
<1>9. x = y \o w
  BY <1>4, <1>6, <1>7, <1>8, SameSeq
<1> QED BY <1>9 DEF x, y, w


FlatEqs(ss, g) ==
    g = [i \in 1 .. Len(ss) |-> IF i = 1 THEN ss[i] ELSE g[i - 1] \o ss[i]]

\* fs are the frames of ts behind the first b.
Run(ts, b, fs) ==
    /\ fs \in Seq(LinkFrame) /\ Len(fs) # 0 /\ b \in Nat /\ b + Len(fs) <= Len(ts)
    /\ \A i \in 1 .. Len(fs) : fs[i] = ts[b + i]

\* A batch is the part of the stream that its frames cover (write_frames_batched).
LEMMA BatchIsSlice ==
    ASSUME NEW ts, NEW off, NEW S, Layout(ts, off, S), NEW b, NEW fs, Run(ts, b, fs)
    PROVE  write_frames_batched(fs) = SubSeq(S, off[b] + 1, off[b + Len(fs)])
<1>0. PICK n \in Nat : /\ n # 0 /\ Len(fs) = n /\ b \in Nat /\ b + n <= Len(ts)
                       /\ fs \in Seq(LinkFrame) /\ \A i \in 1 .. n : fs[i] = ts[b + i]
  BY DEF Run
<1> DEFINE ss == [i \in DOMAIN fs |-> Wire(fs[i])]
           h == [i \in 1 .. n |-> SubSeq(S, off[b] + 1, off[b + i])]
           g == CHOOSE f : FlatEqs(ss, f)
<1>1. Len(ts) \in Nat /\ off \in [0 .. Len(ts) -> Nat] /\ S \in Seq(WireByte)
      /\ \A j, k \in 0 .. Len(ts) : j <= k => off[j] <= off[k]
  BY DEF Layout
<1>2. ss = [i \in 1 .. n |-> Wire(ts[b + i])]
  BY <1>0
<1>3. Len(ss) = n /\ \A i \in 1 .. n : ss[i] = Wire(ts[b + i])
  BY <1>0, <1>2
<1>4. write_frames_batched(fs) = g[n]
  <2> HIDE DEF ss
  <2>1. write_frames_batched(fs) = FlattenSeq(ss)
    BY DEF write_frames_batched, ss
  <2>2. FlattenSeq(ss) = g[Len(ss)]
    BY <1>0, <1>3 DEF FlattenSeq, FlatEqs
  <2> QED BY <1>3, <2>1, <2>2
<1>5. b \in 0 .. Len(ts) /\ off[b] \in Nat
      /\ \A i \in 1 .. n : b + i \in 1 .. Len(ts) /\ b + i \in 0 .. Len(ts)
  BY <1>0, <1>1
<1> HIDE DEF ss
<1>6. ASSUME NEW i \in 1 .. n
      PROVE  SubSeq(S, off[b] + 1, off[b + i]) = IF i = 1 THEN ss[i] ELSE h[i - 1] \o ss[i]
  <2> DEFINE k == b + i
  <2>1. k \in 1 .. Len(ts) /\ k - 1 \in 0 .. Len(ts) /\ b <= k - 1 /\ k - 1 = b + (i - 1)
    BY <1>0, <1>1, <1>5
  <2>2. off[b] <= off[k - 1]
    BY <1>1, <1>5, <2>1
  <2> HIDE DEF k
  <2>3. SubSeq(S, off[b] + 1, off[k]) = SubSeq(S, off[b] + 1, off[k - 1]) \o Wire(ts[k])
    BY <1>5, <2>1, <2>2, LayoutJoin
  <2>4. ss[i] = Wire(ts[k])
    BY <1>3 DEF k
  <2>5. CASE i # 1
    <3>1. i - 1 \in 1 .. n
      BY <2>5
    <3>2. h[i - 1] = SubSeq(S, off[b] + 1, off[k - 1])
      BY <2>1, <3>1
    <3> QED BY <2>3, <2>4, <2>5, <3>2 DEF k
  <2>6. CASE i = 1
    <3>1. k - 1 = b
      BY <1>0, <2>1, <2>6
    <3>2. /\ Wire(ts[k]) \in Seq(WireByte) /\ Len(Wire(ts[k])) \in Nat
          /\ off[k] = off[k - 1] + Len(Wire(ts[k])) /\ off[k] <= Len(S) /\ off[k] \in Nat
          /\ \A j \in 1 .. Len(Wire(ts[k])) : S[off[k - 1] + j] = Wire(ts[k])[j]
      BY ONLY <2>1, Layout(ts, off, S), LayoutFrame
    <3> DEFINE x == SubSeq(S, off[b] + 1, off[k])
               w == Wire(ts[k])
    <3>3. off[b] <= off[k] /\ off[k] - off[b] = Len(w)
      BY <1>5, <3>1, <3>2
    <3>4. x \in Seq(WireByte) /\ Len(x) = off[k] - off[b]
          /\ \A j \in 1 .. off[k] - off[b] : x[j] = S[off[b] + j]
      BY <1>1, <1>5, <3>2, <3>3, SliceFacts
    <3>5. w \in Seq(WireByte) /\ \A j \in 1 .. Len(w) : S[off[b] + j] = w[j]
      BY <3>1, <3>2
    <3> HIDE DEF x, w
    <3>6. x = w
      BY <3>3, <3>4, <3>5, SameSeq
    <3> QED BY <2>4, <2>6, <3>6 DEF x, w, k
  <2> QED BY <2>5, <2>6
<1>7. FlatEqs(ss, h)
  <2>1. h = [i \in 1 .. n |-> IF i = 1 THEN ss[i] ELSE h[i - 1] \o ss[i]]
    BY <1>6, Zenon
  <2> HIDE DEF h
  <2> QED BY <1>3, <2>1 DEF FlatEqs
<1>8. FlatEqs(ss, g)
  BY <1>7, Zenon
<1>9. g = [i \in 1 .. n |-> IF i = 1 THEN ss[i] ELSE g[i - 1] \o ss[i]]
  BY <1>3, <1>8 DEF FlatEqs
<1> HIDE DEF g
<1>10. h = [i \in 1 .. n |-> IF i = 1 THEN ss[i] ELSE h[i - 1] \o ss[i]]
  BY <1>3, <1>7 DEF FlatEqs
<1>11. h[n] = SubSeq(S, off[b] + 1, off[b + n])
  <2>1. n \in 1 .. n
    BY <1>0
  <2> QED BY ONLY <2>1 DEF h
<1> HIDE DEF h
<1> DEFINE T == {k \in 1 .. n : g[k] # h[k]}
<1>12. T = {}
  <2> SUFFICES ASSUME T # {} PROVE FALSE
    OBVIOUS
  <2>1. PICK k \in T : \A y \in T : k <= y
    <3>1. T \in SUBSET Nat
      OBVIOUS
    <3> HIDE DEF T
    <3> QED BY <3>1, LeastNat, Zenon
  <2>2. k \in 1 .. n /\ g[k] # h[k]
    BY <2>1
  <2>3. k # 1
    <3>1. k = 1 => g[k] = ss[k] /\ h[k] = ss[k]
      BY <1>9, <1>10, <2>2
    <3> QED BY <2>2, <3>1
  <2>4. k - 1 \in 1 .. n /\ k - 1 \notin T
    <3>1. k \in Nat /\ k - 1 \in 1 .. n /\ ~(k <= k - 1)
      BY <2>2, <2>3
    <3> QED BY <2>1, <3>1
  <2>5. g[k - 1] = h[k - 1]
    BY <2>4
  <2>6. g[k] = g[k - 1] \o ss[k] /\ h[k] = h[k - 1] \o ss[k]
    BY <1>9, <1>10, <2>2, <2>3, Zenon
  <2> QED BY <2>2, <2>5, <2>6
<1>13. g[n] = h[n]
  BY <1>0, <1>12
<1> QED BY <1>0, <1>4, <1>11, <1>13


-----------------------------------------------------------------------------
(* What a link maintains.  S is the byte stream of the frames the channel  *)
(* has taken, off the ends of its frames.                                  *)

\* Byte b at place p of the stream, as the socket carries it.
Coded(b, p) == IF obfs THEN [b |-> b, nonce |-> "tx", pos |-> p]
               ELSE [b |-> b, nonce |-> "none", pos |-> 0]

\* Where read_frame is in the stream, and where the socket ends.
ReadAt(off) == off[Len(arrived)] + Len(prefix) + Len(partial)
SockEnd(off) == ReadAt(off) + Len(sock)

\* The frame that read_frame is reading.
Reading == taken[Len(arrived) + 1]

StreamType ==
    /\ chan \in Seq(LinkFrame) /\ taken \in Seq(LinkFrame) /\ arrived \in Seq(LinkFrame)
    /\ partial \in Seq(WireByte) /\ prefix \in Seq(Nat)
    /\ sock \in Seq(Cell) /\ keystream \in [Sides -> Nat]
    /\ wphase \in {"recv", "write", "flush", "dead"} /\ rphase \in {"length", "body", "dead"}
    /\ obfs \in BOOLEAN /\ broken \in BOOLEAN

\* read_frame is in the middle of the first frame that has not arrived ...
HeadInv ==
    /\ rphase = "length" => /\ Len(partial) = 0
                            /\ Len(arrived) = Len(taken) => Len(prefix) = 0
                            /\ Len(arrived) < Len(taken) => Len(prefix) < Len(LenOf(Reading))
    /\ rphase = "body" => /\ Len(arrived) < Len(taken) /\ Len(prefix) = Len(LenOf(Reading))
                          /\ Len(partial) < Size[Reading.id]
    /\ rphase # "dead" /\ Len(arrived) < Len(taken) =>
         /\ \A i \in 1 .. Len(prefix) : prefix[i] = LenOf(Reading)[i]
         /\ \A i \in 1 .. Len(partial) : partial[i] = [frame |-> Reading, at |-> i, v |-> 0]

\* ... and the socket holds the stream from there on.
ReadInv(S, off) ==
    /\ Len(arrived) <= Len(taken) /\ \A i \in 1 .. Len(arrived) : arrived[i] = taken[i]
    /\ HeadInv
    /\ SockEnd(off) <= Len(S)
    /\ \A i \in 1 .. Len(sock) : sock[i] = Coded(S[ReadAt(off) + i], ReadAt(off) + i)
    /\ obfs => keystream["rx"] = ReadAt(off)

\* Behind the socket come pending and outbuf, and then the frames in the channel.
WriteInv(S, off) ==
    /\ outbuf \in Seq(WireByte) /\ pending \in Seq(Cell)
    /\ wphase # "dead" /\ Len(chan) <= Len(taken)
    /\ \A i \in 1 .. Len(chan) : chan[i] = taken[(Len(taken) - Len(chan)) + i]
    /\ SockEnd(off) + Len(pending) + Len(outbuf) = off[Len(taken) - Len(chan)]
    /\ \A i \in 1 .. Len(pending) : pending[i] = Coded(S[SockEnd(off) + i], SockEnd(off) + i)
    /\ \A i \in 1 .. Len(outbuf) : outbuf[i] = S[(SockEnd(off) + Len(pending)) + i]
    /\ obfs => keystream["tx"] = SockEnd(off) + Len(pending)
    /\ ~obfs => Len(pending) = 0
    /\ wphase \in {"recv", "flush"} => Len(outbuf) = 0
    /\ wphase = "recv" => Len(pending) = 0

StreamInv(S, off) == /\ StreamType /\ Layout(taken, off, S) /\ ReadInv(S, off)
                     /\ ~broken => WriteInv(S, off)


LEMMA PlaceFacts ==
    ASSUME NEW S, NEW off, StreamInv(S, off)
    PROVE  /\ Len(arrived) \in Nat /\ Len(taken) \in Nat /\ Len(prefix) \in Nat
           /\ Len(partial) \in Nat /\ Len(sock) \in Nat /\ Len(S) \in Nat /\ Len(chan) \in Nat
           /\ Len(arrived) <= Len(taken) /\ off \in [0 .. Len(taken) -> Nat]
           /\ off[Len(arrived)] \in Nat /\ off[Len(taken)] = Len(S)
           /\ ReadAt(off) \in Nat /\ SockEnd(off) \in Nat /\ SockEnd(off) <= Len(S)
<1>1. /\ Len(arrived) \in Nat /\ Len(taken) \in Nat /\ Len(prefix) \in Nat
      /\ Len(partial) \in Nat /\ Len(sock) \in Nat /\ Len(chan) \in Nat
  BY DEF StreamInv, StreamType
<1>2. off \in [0 .. Len(taken) -> Nat] /\ Len(S) \in Nat /\ off[Len(taken)] = Len(S)
  BY DEF StreamInv, Layout
<1>3. Len(arrived) <= Len(taken) /\ SockEnd(off) <= Len(S)
  BY DEF StreamInv, ReadInv
<1>4. off[Len(arrived)] \in Nat
  BY <1>1, <1>2, <1>3
<1>5. ReadAt(off) \in Nat
  BY <1>1, <1>4 DEF ReadAt
<1>6. SockEnd(off) \in Nat
  BY <1>1, <1>5 DEF SockEnd
<1> QED BY <1>1, <1>2, <1>3, <1>4, <1>5, <1>6

\* Steps that leave the stream alone.
LEMMA ReadStays ==
    ASSUME NEW S, NEW off, StreamInv(S, off),
           UNCHANGED <<taken, sock, prefix, partial, rphase, arrived, obfs>>,
           keystream'["rx"] = keystream["rx"]
    PROVE  ReadInv(S, off)'
<1>1. ReadAt(off)' = ReadAt(off) /\ SockEnd(off)' = SockEnd(off)
  BY DEF ReadAt, SockEnd
<1>2. HeadInv'
  BY DEF StreamInv, ReadInv, HeadInv, Reading
<1>3. \A b, p : Coded(b, p)' = Coded(b, p)
  BY DEF Coded
<1> QED BY <1>1, <1>2, <1>3 DEF StreamInv, ReadInv

LEMMA StreamStays ==
    ASSUME NEW S, NEW off, StreamInv(S, off),
           UNCHANGED <<chan, taken, wvars, sock, keystream, rvars, obfs, broken>>
    PROVE  StreamInv(S, off)'
<1>1. UNCHANGED <<chan, taken, wphase, outbuf, pending, sock, keystream, prefix, partial, rphase,
                  arrived, obfs, broken>>
  BY DEF wvars, rvars
<1>2. ReadInv(S, off)'
  BY <1>1, ReadStays
<1>3. ReadAt(off)' = ReadAt(off) /\ SockEnd(off)' = SockEnd(off)
  BY <1>1 DEF ReadAt, SockEnd
<1>4. \A b, p : Coded(b, p)' = Coded(b, p)
  BY <1>1 DEF Coded
<1>5. StreamType'
  BY <1>1 DEF StreamInv, StreamType
<1>6. ~broken' => WriteInv(S, off)'
  BY <1>1, <1>3, <1>4 DEF StreamInv, WriteInv
<1>7. Layout(taken, off, S)'
  BY <1>1 DEF StreamInv
<1> QED BY <1>2, <1>5, <1>6, <1>7 DEF StreamInv

\* The socket takes the next bytes of the stream.
LEMMA SockGrows ==
    ASSUME NEW S, NEW off, StreamInv(S, off),
           UNCHANGED <<taken, prefix, partial, rphase, arrived, obfs>>,
           keystream'["rx"] = keystream["rx"],
           NEW ws \in Seq(Cell), sock' = sock \o ws, SockEnd(off) + Len(ws) <= Len(S),
           \A i \in 1 .. Len(ws) : ws[i] = Coded(S[SockEnd(off) + i], SockEnd(off) + i)
    PROVE  /\ ReadInv(S, off)' /\ sock' \in Seq(Cell)
           /\ SockEnd(off)' = SockEnd(off) + Len(ws) /\ ReadAt(off)' = ReadAt(off)
<1>1. sock \in Seq(Cell) /\ Len(sock) \in Nat /\ Len(ws) \in Nat /\ ReadAt(off) \in Nat
  BY PlaceFacts DEF StreamInv, StreamType
<1>2. /\ sock' \in Seq(Cell) /\ Len(sock') = Len(sock) + Len(ws)
      /\ \A i \in 1 .. Len(sock) : sock'[i] = sock[i]
      /\ \A i \in 1 .. Len(ws) : sock'[Len(sock) + i] = ws[i]
  BY ONLY <1>1, sock' = sock \o ws, ws \in Seq(Cell), JoinFacts
<1>3. ReadAt(off)' = ReadAt(off)
  BY DEF ReadAt
<1>4. SockEnd(off)' = SockEnd(off) + Len(ws)
  BY <1>1, <1>2, <1>3 DEF SockEnd
<1>5. HeadInv'
  BY DEF StreamInv, ReadInv, HeadInv, Reading
<1>6. \A b, p : Coded(b, p)' = Coded(b, p)
  BY DEF Coded
<1>7. ASSUME NEW i \in 1 .. Len(sock')
      PROVE  sock'[i] = Coded(S[ReadAt(off) + i], ReadAt(off) + i)
  <2>1. CASE i <= Len(sock)
    <3>1. i \in 1 .. Len(sock)
      BY <1>1, <1>2, <2>1
    <3>2. sock[i] = Coded(S[ReadAt(off) + i], ReadAt(off) + i)
      BY <3>1 DEF StreamInv, ReadInv
    <3> QED BY <1>2, <3>1, <3>2
  <2>2. CASE ~(i <= Len(sock))
    <3>1. PICK j \in 1 .. Len(ws) : i = Len(sock) + j
      BY <1>1, <1>2, <2>2
    <3>2. ReadAt(off) + i = SockEnd(off) + j
      BY <1>1, <3>1 DEF SockEnd
    <3> QED BY <1>2, <3>1, <3>2
  <2> QED BY <1>1, <2>1, <2>2
<1>8. (\A i \in 1 .. Len(sock) : sock[i] = Coded(S[ReadAt(off) + i], ReadAt(off) + i))'
  BY <1>3, <1>6, <1>7
<1>9. /\ Len(arrived') <= Len(taken') /\ \A i \in 1 .. Len(arrived') : arrived'[i] = taken'[i]
      /\ obfs' => keystream'["rx"] = ReadAt(off)'
  BY <1>3 DEF StreamInv, ReadInv
<1> QED BY <1>2, <1>3, <1>4, <1>5, <1>8, <1>9 DEF ReadInv


-----------------------------------------------------------------------------
(* The writer.                                                             *)

LEMMA AcceptedFacts ==
    ASSUME StreamType, NEW X, NEW bs \in Seq(X), NEW n \in Accepted(bs)
    PROVE  n \in Nat /\ n # 0 /\ n <= Len(bs)
<1>1. Len(bs) \in Int /\ Room \in Int
  BY LinkAssumption DEF StreamType, Room
<1>2. Min({Len(bs), Room}) \in {Len(bs), Room}
      /\ \A y \in {Len(bs), Room} : Min({Len(bs), Room}) <= y
  <2>1. \E m \in {Len(bs), Room} : \A y \in {Len(bs), Room} : m <= y
    BY <1>1
  <2> QED BY <2>1 DEF Min
<1>3. PICK m : m = Min({Len(bs), Room}) /\ m \in Int /\ m <= Len(bs)
  BY <1>1, <1>2
<1>4. n \in 1 .. m
  BY <1>3 DEF Accepted
<1> QED BY <1>1, <1>3, <1>4

LEMMA WriteEnd ==
    ASSUME NEW S, NEW off, StreamInv(S, off), WriteInv(S, off)
    PROVE  /\ Len(outbuf) \in Nat /\ Len(pending) \in Nat /\ SockEnd(off) \in Nat
           /\ Len(S) \in Nat /\ Len(taken) - Len(chan) \in 0 .. Len(taken)
           /\ off[Len(taken) - Len(chan)] \in Nat /\ off[Len(taken) - Len(chan)] <= Len(S)
           /\ SockEnd(off) + Len(pending) + Len(outbuf) <= Len(S)
<1>1. Len(outbuf) \in Nat /\ Len(pending) \in Nat
  BY DEF WriteInv
<1>2. SockEnd(off) + Len(pending) + Len(outbuf) = off[Len(taken) - Len(chan)]
      /\ Len(chan) <= Len(taken)
  BY DEF WriteInv
<1>3. Len(taken) - Len(chan) \in 0 .. Len(taken) /\ Len(taken) \in 0 .. Len(taken)
      /\ Len(taken) - Len(chan) <= Len(taken)
  BY <1>2, PlaceFacts
<1>4. off[Len(taken) - Len(chan)] <= off[Len(taken)] /\ off[Len(taken) - Len(chan)] \in Nat
      /\ off[Len(taken)] = Len(S)
  BY <1>3, PlaceFacts DEF StreamInv, Layout
<1> QED BY <1>1, <1>2, <1>3, <1>4, PlaceFacts

\* Pending bytes of the cipher writer go to the socket.
LEMMA DrainStep ==
    ASSUME NEW S, NEW off, StreamInv(S, off), drain
    PROVE  StreamInv(S, off)'
<1>1. StreamType /\ pending \in Seq(Cell) /\ ~broken /\ WriteInv(S, off)
  BY DEF drain, StreamInv, WriteInv
<1>2. PICK n \in Accepted(pending) : /\ sock' = sock \o SubSeq(pending, 1, n)
                                     /\ pending' = SubSeq(pending, n + 1, Len(pending))
  BY DEF drain
<1>3. UNCHANGED <<chan, taken, wphase, outbuf, keystream, prefix, partial, rphase, arrived,
                  obfs, broken>>
  BY DEF drain, rvars, link
<1>4. n \in Nat /\ n # 0 /\ n <= Len(pending) /\ Len(pending) \in Nat
  BY <1>1, <1>2, AcceptedFacts
<1> DEFINE ws == SubSeq(pending, 1, n)
<1>5. ws \in Seq(Cell) /\ Len(ws) = n /\ \A i \in 1 .. n : ws[i] = pending[i]
  BY <1>1, <1>4
<1>6. /\ pending' \in Seq(Cell) /\ Len(pending') = Len(pending) - n
      /\ \A i \in 1 .. Len(pending) - n : pending'[i] = pending[n + i]
  <2>1. Len(pending) <= Len(pending)
    BY <1>4
  <2> QED BY <1>1, <1>2, <1>4, <2>1, SliceFacts
<1>7. SockEnd(off) + Len(pending) <= Len(S) /\ SockEnd(off) \in Nat /\ Len(S) \in Nat
  <2>1. /\ Len(outbuf) \in Nat /\ SockEnd(off) \in Nat /\ Len(S) \in Nat
        /\ SockEnd(off) + Len(pending) + Len(outbuf) <= Len(S)
    BY <1>1, WriteEnd
  <2> QED BY <1>4, <2>1
<1> HIDE DEF ws
<1>8. \A i \in 1 .. n : ws[i] = Coded(S[SockEnd(off) + i], SockEnd(off) + i)
  <2>1. \A i \in 1 .. n : i \in 1 .. Len(pending)
    BY <1>4
  <2> QED BY <1>1, <1>5, <2>1 DEF WriteInv
<1>9. /\ ReadInv(S, off)' /\ sock' \in Seq(Cell)
      /\ SockEnd(off)' = SockEnd(off) + n
  <2>1. SockEnd(off) + n <= Len(S)
    BY <1>4, <1>7
  <2>2. sock' = sock \o ws
    BY <1>2 DEF ws
  <2> QED BY <1>3, <1>5, <1>8, <2>1, <2>2, SockGrows
<1>10. (SockEnd(off) + Len(pending))' = SockEnd(off) + Len(pending)
  BY <1>4, <1>6, <1>7, <1>9
<1>11. \A b, p : Coded(b, p)' = Coded(b, p)
  BY <1>3 DEF Coded
<1>12. (\A i \in 1 .. Len(pending) : pending[i] = Coded(S[SockEnd(off) + i], SockEnd(off) + i))'
  <2> SUFFICES ASSUME NEW i \in 1 .. Len(pending) - n
               PROVE  pending'[i] = Coded(S[(SockEnd(off) + n) + i], (SockEnd(off) + n) + i)
    BY <1>6, <1>9, <1>11
  <2>1. n + i \in 1 .. Len(pending) /\ (SockEnd(off) + n) + i = SockEnd(off) + (n + i)
    BY <1>4, <1>7
  <2> QED BY <1>1, <1>6, <2>1 DEF WriteInv
<1>13. WriteInv(S, off)'
  <2>1. ~obfs => Len(pending) = 0
    BY <1>1 DEF WriteInv
  <2>2. obfs
    BY <1>4, <2>1
  <2>3. wphase # "recv"
    BY DEF drain
  <2> QED BY <1>1, <1>3, <1>6, <1>10, <1>12, <2>2, <2>3 DEF WriteInv
<1>14. StreamType'
  BY <1>1, <1>3, <1>9 DEF StreamType
<1>15. Layout(taken, off, S)'
  BY <1>3 DEF StreamInv
<1> QED BY <1>9, <1>13, <1>14, <1>15 DEF StreamInv


\* The writer takes a batch from the channel.
LEMMA TakeBatchStep ==
    ASSUME NEW S, NEW off, StreamInv(S, off), TakeBatch
    PROVE  StreamInv(S, off)'
<1>1. UNCHANGED <<taken, pending, sock, keystream, prefix, partial, rphase, arrived, obfs, broken>>
  BY DEF TakeBatch, rvars, link
<1>2. PICK n : /\ n = Min({MaxBatch, Len(chan)})
               /\ outbuf' = write_frames_batched(SubSeq(chan, 1, n))
               /\ chan' = SubSeq(chan, n + 1, Len(chan))
  BY DEF TakeBatch
<1>3. wphase = "recv" /\ wphase' = "write" /\ chan \in Seq(LinkFrame) /\ Len(chan) \in Nat
      /\ Len(chan) # 0
  BY DEF TakeBatch, StreamInv, StreamType
<1>4. n \in Nat /\ n # 0 /\ n <= Len(chan)
  <2>1. {MaxBatch, Len(chan)} \in SUBSET Nat /\ MaxBatch # 0
    BY <1>3, LinkAssumption
  <2>2. n \in {MaxBatch, Len(chan)} /\ \A y \in {MaxBatch, Len(chan)} : n <= y
    BY <1>2, <2>1, MinFacts
  <2> QED BY <1>3, <2>1, <2>2
<1>5. /\ chan' \in Seq(LinkFrame) /\ Len(chan') = Len(chan) - n
      /\ \A i \in 1 .. Len(chan) - n : chan'[i] = chan[n + i]
  <2>1. Len(chan) <= Len(chan)
    BY <1>3
  <2>2. /\ SubSeq(chan, n + 1, Len(chan)) \in Seq(LinkFrame)
        /\ Len(SubSeq(chan, n + 1, Len(chan))) = Len(chan) - n
        /\ \A i \in 1 .. Len(chan) - n : SubSeq(chan, n + 1, Len(chan))[i] = chan[n + i]
    BY ONLY <1>3, <1>4, <2>1, SliceFacts
  <2> QED BY ONLY <1>2, <2>2, Zenon
<1>6. StreamType'
  BY <1>1, <1>3, <1>5 DEF StreamInv, StreamType
<1>7. ReadInv(S, off)'
  BY <1>1, ReadStays
<1>8. Layout(taken, off, S)'
  BY <1>1 DEF StreamInv
<1>9. ASSUME ~broken PROVE WriteInv(S, off)'
  <2>1. WriteInv(S, off)
    BY <1>9 DEF StreamInv
  <2> DEFINE b == Len(taken) - Len(chan)
             fs == SubSeq(chan, 1, n)
  <2>2. b \in Nat /\ b + n <= Len(taken) /\ b + n = Len(taken) - (Len(chan) - n)
        /\ Len(taken) \in Nat
    BY <1>3, <1>4, <2>1, PlaceFacts DEF WriteInv
  <2>3. fs \in Seq(LinkFrame) /\ Len(fs) = n /\ \A i \in 1 .. n : fs[i] = chan[i]
    BY <1>3, <1>4
  <2>4. \A i \in 1 .. n : fs[i] = taken[b + i]
    <3>1. \A i \in 1 .. n : i \in 1 .. Len(chan)
      BY <1>3, <1>4
    <3> QED BY <2>1, <2>3, <3>1 DEF WriteInv
  <2>5. Layout(taken, off, S)
    BY DEF StreamInv
  <2> HIDE DEF b, fs
  <2>6. write_frames_batched(fs) = SubSeq(S, off[b] + 1, off[b + n])
    <3>1. Run(taken, b, fs)
      BY <1>4, <2>2, <2>3, <2>4 DEF Run
    <3> QED BY <2>3, <2>5, <3>1, BatchIsSlice
  <2>7. off[b] \in Nat /\ off[b + n] \in Nat /\ off[b] <= off[b + n] /\ off[b + n] <= Len(S)
    <3>1. b \in 0 .. Len(taken) /\ b + n \in 0 .. Len(taken) /\ Len(taken) \in 0 .. Len(taken)
          /\ b <= b + n
      BY <1>4, <2>2
    <3> QED BY <2>2, <2>5, <3>1 DEF Layout
  <2>8. S \in Seq(WireByte)
    BY <2>5 DEF Layout
  <2>9. /\ outbuf' \in Seq(WireByte) /\ Len(outbuf') = off[b + n] - off[b]
        /\ \A i \in 1 .. off[b + n] - off[b] : outbuf'[i] = S[off[b] + i]
    <3>1. outbuf' = SubSeq(S, off[b] + 1, off[b + n])
      BY <1>2, <2>6 DEF fs
    <3> QED BY <2>7, <2>8, <3>1, SliceFacts
  <2>10. Len(pending) = 0 /\ Len(outbuf) = 0 /\ SockEnd(off) + Len(pending) + Len(outbuf) = off[b]
         /\ SockEnd(off) \in Nat
    BY <1>3, <2>1, PlaceFacts DEF WriteInv, b
  <2>11. SockEnd(off)' = SockEnd(off)
    BY <1>1 DEF SockEnd, ReadAt
  <2>12. SockEnd(off) = off[b] /\ Len(pending') = 0 /\ pending' = pending
    BY <1>1, <2>10
  <2>13. Len(taken') - Len(chan') = b + n
    BY <1>1, <1>5, <2>2
  <2>14. (SockEnd(off) + Len(pending) + Len(outbuf) = off[Len(taken) - Len(chan)])'
    BY <2>7, <2>9, <2>11, <2>12, <2>13
  <2>15. (\A i \in 1 .. Len(outbuf) : outbuf[i] = S[(SockEnd(off) + Len(pending)) + i])'
    BY <2>7, <2>9, <2>11, <2>12
  <2>16. (\A i \in 1 .. Len(chan) : chan[i] = taken[(Len(taken) - Len(chan)) + i])'
    <3> SUFFICES ASSUME NEW i \in 1 .. Len(chan) - n PROVE chan[n + i] = taken[(b + n) + i]
      BY <1>1, <1>5, <2>13
    <3>1. n + i \in 1 .. Len(chan) /\ (b + n) + i = b + (n + i)
      BY <1>3, <1>4, <2>2
    <3> QED BY <2>1, <3>1 DEF WriteInv, b
  <2>17. \A x, p : Coded(x, p)' = Coded(x, p)
    BY <1>1 DEF Coded
  <2>18. (obfs => keystream["tx"] = SockEnd(off) + Len(pending))' /\ (~obfs => Len(pending) = 0)'
    BY <1>1, <2>1, <2>11 DEF WriteInv
  <2>19. Len(chan') <= Len(taken')
    BY <1>1, <1>3, <1>4, <1>5, <2>1, <2>2 DEF WriteInv
  <2>20. (\A i \in 1 .. Len(pending) : pending[i] = Coded(S[SockEnd(off) + i], SockEnd(off) + i))'
    BY <2>12
  <2> QED BY <1>1, <1>3, <2>1, <2>9, <2>14, <2>15, <2>16, <2>18, <2>19, <2>20 DEF WriteInv
<1> QED BY <1>1, <1>6, <1>7, <1>8, <1>9 DEF StreamInv


\* write_all on a plain link.
LEMMA WritePlainStep ==
    ASSUME NEW S, NEW off, StreamInv(S, off), WritePlain
    PROVE  StreamInv(S, off)'
<1>1. StreamType /\ outbuf \in Seq(WireByte) /\ ~broken /\ ~obfs /\ WriteInv(S, off)
      /\ wphase = "write"
  BY DEF WritePlain, StreamInv, WriteInv
<1>2. PICK n \in Accepted(outbuf) :
          /\ sock' = sock \o plain(SubSeq(outbuf, 1, n))
          /\ outbuf' = SubSeq(outbuf, n + 1, Len(outbuf))
          /\ wphase' = IF n = Len(outbuf) THEN "flush" ELSE "write"
  BY DEF WritePlain
<1>3. UNCHANGED <<chan, taken, pending, keystream, prefix, partial, rphase, arrived, obfs, broken>>
  BY DEF WritePlain, rvars, link
<1>4. n \in Nat /\ n # 0 /\ n <= Len(outbuf) /\ Len(outbuf) \in Nat
  BY <1>1, <1>2, AcceptedFacts
<1>5. /\ SockEnd(off) \in Nat /\ Len(S) \in Nat /\ Len(pending) = 0
      /\ SockEnd(off) + Len(outbuf) <= Len(S)
  <2>1. Len(pending) = 0
    BY <1>1 DEF WriteInv
  <2> QED BY <1>1, <1>4, <2>1, WriteEnd
<1> DEFINE bs == SubSeq(outbuf, 1, n)
           ws == plain(bs)
<1>6. bs \in Seq(WireByte) /\ Len(bs) = n /\ \A i \in 1 .. n : bs[i] = outbuf[i]
  BY <1>1, <1>4
<1>7. \A i \in 1 .. n : outbuf[i] = S[SockEnd(off) + i] /\ outbuf[i] \in WireByte
  <2>1. \A i \in 1 .. n : i \in 1 .. Len(outbuf)
    BY <1>4
  <2>2. \A i \in 1 .. Len(outbuf) : outbuf[i] = S[(SockEnd(off) + Len(pending)) + i]
    BY <1>1 DEF WriteInv
  <2> QED BY <1>1, <1>5, <2>1, <2>2
<1> HIDE DEF bs
<1>8. ws = [i \in 1 .. n |-> [b |-> bs[i], nonce |-> "none", pos |-> 0]]
  <2>1. DOMAIN bs = 1 .. n
    BY <1>6
  <2> QED BY <2>1 DEF plain
<1>9. \A i \in 1 .. n : [b |-> bs[i], nonce |-> "none", pos |-> 0] \in Cell
  BY <1>6, <1>7 DEF Cell
<1>10. ws \in Seq(Cell) /\ Len(ws) = n
       /\ \A i \in 1 .. n : ws[i] = Coded(S[SockEnd(off) + i], SockEnd(off) + i)
  <2> HIDE DEF ws
  <2>1. ws \in Seq(Cell) /\ Len(ws) = n
    BY <1>4, <1>8, <1>9
  <2>2. \A i \in 1 .. n : ws[i] = [b |-> S[SockEnd(off) + i], nonce |-> "none", pos |-> 0]
    BY <1>6, <1>7, <1>8
  <2> QED BY <1>1, <2>1, <2>2 DEF Coded
<1>11. /\ outbuf' \in Seq(WireByte) /\ Len(outbuf') = Len(outbuf) - n
       /\ \A i \in 1 .. Len(outbuf) - n : outbuf'[i] = outbuf[n + i]
  <2>1. Len(outbuf) <= Len(outbuf)
    BY <1>4
  <2> QED BY <1>1, <1>2, <1>4, <2>1, SliceFacts
<1> HIDE DEF ws
<1>12. /\ ReadInv(S, off)' /\ sock' \in Seq(Cell) /\ SockEnd(off)' = SockEnd(off) + n
  <2>1. SockEnd(off) + n <= Len(S)
    BY <1>4, <1>5
  <2>2. sock' = sock \o ws
    BY <1>2 DEF ws, bs
  <2> QED BY <1>3, <1>10, <2>1, <2>2, SockGrows
<1>13. StreamType'
  BY <1>1, <1>2, <1>3, <1>12 DEF StreamType
<1>14. Layout(taken, off, S)'
  BY <1>3 DEF StreamInv
<1>15. (SockEnd(off) + Len(pending) + Len(outbuf) = off[Len(taken) - Len(chan)])'
  <2>1. SockEnd(off) + Len(pending) + Len(outbuf) = off[Len(taken) - Len(chan)]
    BY <1>1 DEF WriteInv
  <2> QED BY <1>3, <1>4, <1>5, <1>11, <1>12, <2>1
<1>16. (\A i \in 1 .. Len(outbuf) : outbuf[i] = S[(SockEnd(off) + Len(pending)) + i])'
  <2> SUFFICES ASSUME NEW i \in 1 .. Len(outbuf) - n
               PROVE  outbuf'[i] = S[(SockEnd(off) + n) + i]
    BY <1>3, <1>4, <1>5, <1>11, <1>12
  <2>1. n + i \in 1 .. Len(outbuf) /\ (SockEnd(off) + n) + i = SockEnd(off) + (n + i)
        /\ (SockEnd(off) + Len(pending)) + (n + i) = SockEnd(off) + (n + i)
    BY <1>4, <1>5
  <2>2. outbuf[n + i] = S[(SockEnd(off) + Len(pending)) + (n + i)]
    BY <1>1, <2>1 DEF WriteInv
  <2> QED BY <1>11, <2>1, <2>2
<1>17. wphase' # "dead" /\ wphase' # "recv" /\ (wphase' = "flush" => Len(outbuf') = 0)
  BY <1>2, <1>4, <1>11
<1>18. WriteInv(S, off)'
  <2>1. (\A i \in 1 .. Len(pending) : pending[i] = Coded(S[SockEnd(off) + i], SockEnd(off) + i))'
    BY <1>3, <1>5
  <2> QED BY <1>1, <1>3, <1>11, <1>15, <1>16, <1>17, <2>1 DEF WriteInv
<1> QED BY <1>12, <1>13, <1>14, <1>18 DEF StreamInv

\* A flush that completes, and the end of the writer on a broken connection.
LEMMA FlushStep ==
    ASSUME NEW S, NEW off, StreamInv(S, off), Flush \/ WriterFails
    PROVE  StreamInv(S, off)'
<1>1. UNCHANGED <<taken, outbuf, pending, sock, keystream, prefix, partial, rphase, arrived,
                  obfs, broken>>
  BY DEF Flush, WriterFails, rvars, link
<1>2. ReadInv(S, off)'
  BY <1>1, ReadStays
<1>3. Layout(taken, off, S)'
  BY <1>1 DEF StreamInv
<1>4. CASE Flush
  <2>1. StreamType'
    BY <1>1, <1>4 DEF Flush, StreamInv, StreamType
  <2>2. WriteInv(S, off) /\ ~broken /\ chan' = chan /\ wphase = "flush" /\ wphase' = "recv"
        /\ Len(pending) = 0
    BY <1>4 DEF Flush, StreamInv, WriteInv
  <2>3. SockEnd(off)' = SockEnd(off)
    BY <1>1 DEF SockEnd, ReadAt
  <2>4. (\A i \in 1 .. Len(pending) : pending[i] = Coded(S[SockEnd(off) + i], SockEnd(off) + i))'
    BY <1>1, <2>2
  <2>5. WriteInv(S, off)'
    BY <1>1, <2>2, <2>3, <2>4 DEF WriteInv
  <2> QED BY <1>2, <1>3, <2>1, <2>5 DEF StreamInv
<1>5. CASE WriterFails
  <2>1. StreamType' /\ broken'
    BY <1>1, <1>5 DEF WriterFails, StreamInv, StreamType
  <2> QED BY <1>2, <1>3, <2>1 DEF StreamInv
<1> QED BY <1>4, <1>5


\* poll_write of the obfuscated link.
LEMMA WriteObfsStep ==
    ASSUME NEW S, NEW off, StreamInv(S, off), WriteObfs
    PROVE  StreamInv(S, off)'
<1>1. StreamType /\ outbuf \in Seq(WireByte) /\ ~broken /\ obfs /\ WriteInv(S, off)
      /\ wphase = "write" /\ Len(pending) = 0
  BY DEF WriteObfs, StreamInv, WriteInv
<1> DEFINE bs == apply(outbuf, "tx", keystream["tx"])
           z == Len(outbuf)
<1>2. PICK n \in {0} \cup Accepted(bs) : /\ sock' = sock \o SubSeq(bs, 1, n)
                                         /\ pending' = SubSeq(bs, n + 1, Len(bs))
  BY DEF WriteObfs
<1>3. UNCHANGED <<chan, taken, prefix, partial, rphase, arrived, obfs, broken>>
  BY DEF WriteObfs, rvars, link
<1>4. keystream' = [keystream EXCEPT !["tx"] = @ + z] /\ outbuf' = <<>> /\ wphase' = "flush"
  BY DEF WriteObfs
<1>5. /\ SockEnd(off) \in Nat /\ Len(S) \in Nat /\ z \in Nat /\ SockEnd(off) + z <= Len(S)
      /\ keystream["tx"] = SockEnd(off)
  <2>1. /\ z \in Nat /\ SockEnd(off) \in Nat /\ Len(S) \in Nat
        /\ SockEnd(off) + Len(pending) + z <= Len(S)
    BY <1>1, WriteEnd
  <2>2. keystream["tx"] = SockEnd(off) + Len(pending)
    BY <1>1 DEF WriteInv
  <2> QED BY <1>1, <2>1, <2>2
<1>6. \A i \in 1 .. z : outbuf[i] = S[SockEnd(off) + i] /\ outbuf[i] \in WireByte
  <2>1. \A i \in 1 .. z : outbuf[i] = S[(SockEnd(off) + Len(pending)) + i]
    BY <1>1 DEF WriteInv
  <2> QED BY <1>1, <1>5, <2>1
<1>7. bs = [i \in 1 .. z |-> [b |-> outbuf[i], nonce |-> "tx", pos |-> SockEnd(off) + i]]
  <2>1. DOMAIN outbuf = 1 .. z
    BY <1>1
  <2> QED BY <1>5, <2>1 DEF apply
<1> HIDE DEF bs, z
<1>8. \A i \in 1 .. z : [b |-> outbuf[i], nonce |-> "tx", pos |-> SockEnd(off) + i] \in Cell
  BY <1>5, <1>6 DEF Cell
<1>9. bs \in Seq(Cell) /\ Len(bs) = z
      /\ \A i \in 1 .. z : bs[i] = Coded(S[SockEnd(off) + i], SockEnd(off) + i)
  <2>1. bs \in Seq(Cell) /\ Len(bs) = z
    BY <1>5, <1>7, <1>8
  <2>2. \A i \in 1 .. z : bs[i] = [b |-> S[SockEnd(off) + i], nonce |-> "tx", pos |-> SockEnd(off) + i]
    BY <1>6, <1>7
  <2> QED BY <1>1, <2>1, <2>2 DEF Coded
<1>10. n \in Nat /\ n <= z
  <2>1. n # 0 => n \in Accepted(bs)
    BY <1>2
  <2>2. n # 0 => n \in Nat /\ n <= Len(bs)
    BY <1>1, <1>9, <2>1, AcceptedFacts
  <2> QED BY <1>5, <1>9, <2>2
<1> DEFINE ws == SubSeq(bs, 1, n)
<1>11. ws \in Seq(Cell) /\ Len(ws) = n /\ \A i \in 1 .. n : ws[i] = bs[i] /\ i \in 1 .. z
  BY <1>5, <1>9, <1>10
<1>12. /\ pending' \in Seq(Cell) /\ Len(pending') = z - n
       /\ \A i \in 1 .. z - n : pending'[i] = bs[n + i]
  <2>1. z <= Len(bs) /\ Len(bs) = z
    BY <1>5, <1>9
  <2> QED BY <1>2, <1>5, <1>9, <1>10, <2>1, SliceFacts
<1> HIDE DEF ws
<1>13. keystream' \in [Sides -> Nat] /\ keystream'["rx"] = keystream["rx"]
       /\ keystream'["tx"] = SockEnd(off) + z
  BY <1>1, <1>4, <1>5 DEF StreamType, Sides
<1>14. /\ ReadInv(S, off)' /\ sock' \in Seq(Cell) /\ SockEnd(off)' = SockEnd(off) + n
  <2>1. SockEnd(off) + n <= Len(S)
    BY <1>5, <1>10
  <2>2. sock' = sock \o ws
    BY <1>2 DEF ws
  <2>3. \A i \in 1 .. n : ws[i] = Coded(S[SockEnd(off) + i], SockEnd(off) + i)
    BY <1>9, <1>11
  <2>4. /\ ws \in Seq(Cell) /\ SockEnd(off) + Len(ws) <= Len(S)
        /\ \A i \in 1 .. Len(ws) : ws[i] = Coded(S[SockEnd(off) + i], SockEnd(off) + i)
    BY <1>11, <2>1, <2>3
  <2>5. /\ ReadInv(S, off)' /\ sock' \in Seq(Cell) /\ SockEnd(off)' = SockEnd(off) + Len(ws)
    BY <1>3, <1>13, <2>2, <2>4, SockGrows
  <2> QED BY <1>11, <2>5
<1>15. StreamType'
  BY <1>1, <1>3, <1>4, <1>13, <1>14 DEF StreamType
<1>16. Layout(taken, off, S)'
  BY <1>3 DEF StreamInv
<1>17. outbuf' \in Seq(WireByte) /\ Len(outbuf') = 0
  BY <1>4
<1>18. (SockEnd(off) + Len(pending))' = SockEnd(off) + z
  BY <1>5, <1>10, <1>12, <1>14
<1>19. (SockEnd(off) + Len(pending) + Len(outbuf) = off[Len(taken) - Len(chan)])'
  <2>1. SockEnd(off) + Len(pending) + z = off[Len(taken) - Len(chan)]
    BY <1>1 DEF WriteInv, z
  <2> QED BY <1>1, <1>3, <1>5, <1>17, <1>18, <2>1
<1>20. \A b, p : Coded(b, p)' = Coded(b, p)
  BY <1>3 DEF Coded
<1>21. (\A i \in 1 .. Len(pending) : pending[i] = Coded(S[SockEnd(off) + i], SockEnd(off) + i))'
  <2> SUFFICES ASSUME NEW i \in 1 .. z - n
               PROVE  pending'[i] = Coded(S[(SockEnd(off) + n) + i], (SockEnd(off) + n) + i)
    BY <1>12, <1>14, <1>20
  <2>1. n + i \in 1 .. z /\ (SockEnd(off) + n) + i = SockEnd(off) + (n + i)
    BY <1>5, <1>10
  <2> QED BY <1>9, <1>12, <2>1
<1>22. WriteInv(S, off)'
  BY <1>1, <1>3, <1>4, <1>12, <1>13, <1>17, <1>18, <1>19, <1>21 DEF WriteInv
<1> QED BY <1>14, <1>15, <1>16, <1>22 DEF StreamInv

\* The connection fails.
LEMMA BreakStep ==
    ASSUME NEW S, NEW off, StreamInv(S, off), Break
    PROVE  StreamInv(S, off)'
<1>1. UNCHANGED <<chan, taken, wphase, keystream, prefix, partial, rphase, arrived, obfs>>
      /\ broken' = TRUE
  BY DEF Break, wvars, rvars
<1>2. PICK n \in 0 .. Len(sock) : sock' = SubSeq(sock, 1, n)
  BY DEF Break
<1>3. /\ sock' \in Seq(Cell) /\ Len(sock') = n /\ n <= Len(sock) /\ n \in Nat /\ Len(sock) \in Nat
      /\ \A i \in 1 .. n : sock'[i] = sock[i] /\ i \in 1 .. Len(sock)
  BY <1>2 DEF StreamInv, StreamType
<1>4. StreamType'
  BY <1>1, <1>3 DEF StreamInv, StreamType
<1>5. ReadAt(off)' = ReadAt(off) /\ ReadAt(off) \in Nat
  BY <1>1, PlaceFacts DEF ReadAt
<1>6. SockEnd(off)' <= Len(S)
  <2>1. SockEnd(off)' = ReadAt(off) + n /\ SockEnd(off) = ReadAt(off) + Len(sock)
    BY <1>3, <1>5 DEF SockEnd
  <2>2. SockEnd(off) <= Len(S) /\ Len(S) \in Nat
    BY PlaceFacts
  <2> QED BY <1>3, <1>5, <2>1, <2>2
<1>7. HeadInv'
  BY <1>1 DEF StreamInv, ReadInv, HeadInv, Reading
<1>8. \A b, p : Coded(b, p)' = Coded(b, p)
  BY <1>1 DEF Coded
<1>9. (\A i \in 1 .. Len(sock) : sock[i] = Coded(S[ReadAt(off) + i], ReadAt(off) + i))'
  BY <1>3, <1>5, <1>8 DEF StreamInv, ReadInv
<1>10. ReadInv(S, off)'
  BY <1>1, <1>5, <1>6, <1>7, <1>9 DEF StreamInv, ReadInv
<1>11. Layout(taken, off, S)'
  BY <1>1 DEF StreamInv
<1> QED BY <1>1, <1>4, <1>10, <1>11 DEF StreamInv

=============================================================================
