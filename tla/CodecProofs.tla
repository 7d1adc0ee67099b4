---------------------------- MODULE CodecProofs ----------------------------
(* Proofs about the codec, for every width, radix and limit, every value and every *)
(* buffer: what is written reads back, and reading never runs past the end.         *)
EXTENDS Codec, WellFoundedInduction, TLAPS

LEMMA LeastNat ==
    ASSUME NEW T \in SUBSET Nat, T # {}
    PROVE  \E x \in T : \A y \in T : x <= y
<1>1. PICK x \in T : \A y \in T : ~(<<y, x>> \in OpToRel(<, Nat))
  BY WFMin, NatLessThanWellFounded, Zenon
<1>2. \A y \in T : ~(y < x)
  BY <1>1, Zenon DEF OpToRel
<1> QED BY <1>2

\* The states of an iteration of n steps, each a function on the set S of states.
Iteration(n, S, s0, F) ==
    \E g \in [0 .. n -> S] : g[0] = s0 /\ \A i \in 1 .. n : g[i] = F[i][g[i - 1]]

LEMMA Iterates ==
    ASSUME NEW n \in Nat, NEW S, NEW s0 \in S, NEW F \in [1 .. n -> [S -> S]]
    PROVE  Iteration(n, S, s0, F)
<1> USE DEF Iteration
<1> DEFINE P(k) == \E g \in [0 .. k -> S] : g[0] = s0 /\ \A i \in 1 .. k : g[i] = F[i][g[i - 1]]
           T == {k \in 0 .. n : ~P(k)}
<1> SUFFICES ASSUME T # {} PROVE FALSE
  <2>1. n \in 0 .. n
    OBVIOUS
  <2> QED BY <2>1, Zenon
<1>1. PICK k \in T : \A y \in T : k <= y
  <2>1. T \in SUBSET Nat
    OBVIOUS
  <2> HIDE DEF T
  <2> QED BY <2>1, LeastNat, Zenon
<1>2. k \in 0 .. n /\ ~P(k)
  BY <1>1, Zenon
<1>3. k # 0
  <2> SUFFICES ASSUME k = 0 PROVE FALSE
    BY Zenon
  <2> DEFINE g == [i \in 0 .. 0 |-> s0]
  <2>1. g \in [0 .. 0 -> S] /\ g[0] = s0 /\ \A i \in 1 .. 0 : g[i] = F[i][g[i - 1]]
    OBVIOUS
  <2> HIDE DEF g
  <2>2. P(0)
    BY <2>1, Zenon
  <2> QED BY <1>2, <2>2, Zenon
<1>4. k - 1 \in 0 .. n /\ k - 1 \notin T
  <2> HIDE DEF T, P
  <2> QED BY <1>1, <1>2, <1>3
<1>5. PICK g \in [0 .. k - 1 -> S] : g[0] = s0 /\ \A i \in 1 .. k - 1 : g[i] = F[i][g[i - 1]]
  BY <1>4, Zenon
<1> DEFINE h == [i \in 0 .. k |-> IF i = k THEN F[k][g[k - 1]] ELSE g[i]]
<1>6. k \in 1 .. n /\ F[k] \in [S -> S] /\ g[k - 1] \in S
  BY <1>2, <1>3, <1>5
<1>7. h \in [0 .. k -> S]
  BY <1>2, <1>5, <1>6
<1>8. h[0] = s0
  BY <1>2, <1>3, <1>5
<1>9. ASSUME NEW i \in 1 .. k PROVE h[i] = F[i][h[i - 1]]
  <2>1. h[i - 1] = g[i - 1]
    BY <1>2
  <2>2. CASE i = k
    BY <1>2, <2>1, <2>2
  <2>3. CASE i # k
    <3>1. i \in 1 .. k - 1 /\ h[i] = g[i]
      BY <1>2, <2>3
    <3> QED BY <1>5, <2>1, <3>1, Zenon
  <2> QED BY <2>2, <2>3, Zenon
<1>10. P(k)
  <2> HIDE DEF h
  <2> QED BY <1>7, <1>8, <1>9, Zenon
<1> QED BY <1>2, <1>10, Zenon

-----------------------------------------------------------------------------
(* Powers.                                                                 *)

PowEqs(r, n, g) == g = [i \in 0 .. n |-> IF i = 0 THEN 1 ELSE r * g[i - 1]]

LEMMA PowExists ==
    ASSUME NEW r \in Nat, NEW n \in Nat
    PROVE  \E g : PowEqs(r, n, g)
<1> DEFINE F == [i \in 1 .. n |-> [x \in Nat |-> r * x]]
<1>1. F \in [1 .. n -> [Nat -> Nat]]
  OBVIOUS
<1>2. PICK g \in [0 .. n -> Nat] : g[0] = 1 /\ \A i \in 1 .. n : g[i] = F[i][g[i - 1]]
  <2> HIDE DEF F
  <2>1. 1 \in Nat /\ n \in Nat
    BY Zenon
  <2>2. Iteration(n, Nat, 1, F)
    BY ONLY <1>1, <2>1, Iterates, Zenon
  <2> QED BY <2>2, Zenon DEF Iteration
<1>3. ASSUME NEW i \in 0 .. n PROVE g[i] = IF i = 0 THEN 1 ELSE r * g[i - 1]
  <2>1. CASE i = 0
    BY <1>2, <2>1, Zenon
  <2>2. CASE i # 0
    <3>1. i \in 1 .. n /\ i - 1 \in 0 .. n
      BY <2>2
    <3>2. g[i - 1] \in Nat
      BY <3>1, Zenon
    <3> QED BY <1>2, <2>2, <3>1, <3>2, Zenon
  <2> QED BY <2>1, <2>2, Zenon
<1>4. g = [i \in 0 .. n |-> g[i]]
  BY Zenon
<1>5. PowEqs(r, n, g)
  BY <1>3, <1>4, Zenon DEF PowEqs
<1> QED BY <1>5, Zenon

\* The powers do not depend on how far they are computed.
LEMMA PowAgree ==
    ASSUME NEW r \in Nat, NEW n \in Nat, NEW g, NEW h, PowEqs(r, n, g), PowEqs(r, n + 1, h)
    PROVE  g[n] = h[n] /\ g[n] \in Nat /\ (r # 0 => g[n] # 0) /\ h[n + 1] = r * h[n]
<1> DEFINE T == {k \in 0 .. n : ~(g[k] = h[k] /\ g[k] \in Nat /\ (r # 0 => g[k] # 0))}
<1>1. /\ g[0] = 1 /\ \A i \in 1 .. n : g[i] = r * g[i - 1]
      /\ h[0] = 1 /\ \A i \in 1 .. n + 1 : h[i] = r * h[i - 1]
  BY DEF PowEqs
<1>2. T = {}
  <2> SUFFICES ASSUME T # {} PROVE FALSE
    BY Zenon
  <2>1. PICK k \in T : \A y \in T : k <= y
    <3>1. T \in SUBSET Nat
      OBVIOUS
    <3> HIDE DEF T
    <3> QED BY <3>1, LeastNat, Zenon
  <2>2. k \in 0 .. n /\ k # 0
    BY <1>1, <2>1
  <2>3. k - 1 \in 0 .. n /\ k - 1 \notin T
    BY <2>1, <2>2
  <2>4. g[k - 1] = h[k - 1] /\ g[k - 1] \in Nat /\ (r # 0 => g[k - 1] # 0)
    BY <2>3, Zenon
  <2>5. g[k] = r * g[k - 1] /\ h[k] = r * g[k - 1]
    BY <1>1, <2>2, <2>4
  <2>6. r * g[k - 1] \in Nat /\ (r # 0 => r * g[k - 1] # 0)
    BY <2>4
  <2> QED BY <2>1, <2>5, <2>6, Zenon
<1>3. n \in 0 .. n /\ n + 1 \in 1 .. n + 1 /\ (n + 1) - 1 = n
  OBVIOUS
<1> QED BY <1>1, <1>2, <1>3, Zenon

LEMMA PowFacts ==
    ASSUME NEW r \in Nat, NEW n \in Nat
    PROVE  /\ pow(r, 0) = 1 /\ pow(r, n) \in Nat /\ (r # 0 => pow(r, n) # 0)
           /\ pow(r, n + 1) = r * pow(r, n)
<1> DEFINE c(k) == CHOOSE g : PowEqs(r, k, g)
<1>1. \A k \in Nat : PowEqs(r, k, c(k))
  BY PowExists, Zenon
<1>2. \A k \in Nat : pow(r, k) = c(k)[k]
  BY Zenon DEF pow, PowEqs
<1> HIDE DEF c
<1>3. pow(r, 0) = 1
  <2>1. PowEqs(r, 0, c(0))
    BY <1>1, Zenon
  <2> QED BY <1>2, <2>1 DEF PowEqs
<1>4. PowEqs(r, n, c(n)) /\ PowEqs(r, n + 1, c(n + 1))
  BY <1>1
<1>5. c(n)[n] = c(n + 1)[n] /\ c(n)[n] \in Nat /\ (r # 0 => c(n)[n] # 0)
      /\ c(n + 1)[n + 1] = r * c(n + 1)[n]
  BY <1>4, PowAgree
<1>6. pow(r, n) = c(n)[n] /\ pow(r, n + 1) = c(n + 1)[n + 1]
  BY <1>2
<1> QED BY <1>3, <1>5, <1>6, Zenon

-----------------------------------------------------------------------------
(* Digits.                                                                 *)

\* Bytes are digits, or belong to a field of some format.
Tag == {"n", "aead_payload", "caps", "coord", "data", "depth", "dest_coord", "ed_pub",
        "enc_header", "endpoint", "epk", "from", "generation", "id", "initiator", "ml_dsa_pub",
        "ml_dsa_sig", "ml_kem_ct", "ml_kem_pub", "observed", "observer", "onion_eph_pub",
        "origin", "path", "path_cost", "payload", "pkt_type", "pub_key", "recipient_ed_pub",
        "root", "root_seq", "routing_tag", "score_q16", "sender", "sender_coord", "seq", "sig",
        "signature", "source", "target", "timestamp_ms", "tree_depth", "tree_id", "ttl",
        "valid_from_ms", "version", "watermark", "x25519_pub"}
Byte == Nat \X Tag \X Nat

LEMMA ByteFacts ==
    /\ \A v \in Nat : Digit(v) \in Byte /\ Value(Digit(v)) = v
    /\ \A b \in Byte : Value(b) \in Nat
<1>1. ASSUME NEW v \in Nat PROVE Digit(v) \in Byte /\ Value(Digit(v)) = v
  <2>1. "n" \in Tag /\ 0 \in Nat
    BY Zenon DEF Tag
  <2>2. <<v, "n", 0>> \in Nat \X Tag \X Nat
    BY <2>1, Zenon
  <2>3. <<v, "n", 0>>[1] = v
    BY Zenon
  <2> QED BY <2>2, <2>3, Zenon DEF Byte, Digit, Value
<1>2. \A b \in Byte : Value(b) \in Nat
  BY Zenon DEF Byte, Value
<1> QED BY <1>1, <1>2, Zenon

LEMMA Radices ==
    /\ RADIX \in Nat /\ RADIX > 2 /\ BASE \in Nat /\ BASE > 5
    /\ U16 \in Nat /\ U16 # 0 /\ U32 \in Nat /\ U32 # 0 /\ U64 \in Nat /\ U64 > 1
    /\ U32 <= U64
<1>1. RADIX \in Nat /\ RADIX > 2 /\ BASE \in Nat /\ BASE > 5
  BY CodecAssumption DEF BASE
<1>2. Width["u16"] \in Nat /\ Width["u32"] \in Nat /\ Width["u64"] \in Nat
  BY CodecAssumption, Zenon
<1>3. U16 \in Nat /\ U16 # 0 /\ U32 \in Nat /\ U32 # 0 /\ U64 \in Nat /\ U64 # 0
  <2>1. \A n \in Nat : pow(BASE, n) \in Nat /\ pow(BASE, n) # 0
    BY <1>1, PowFacts
  <2> QED BY <1>2, <2>1, Zenon DEF U16, U32, U64
<1>4. U32 <= U64 /\ 1 < U64
  BY CodecAssumption, Zenon
<1> QED BY <1>1, <1>3, <1>4, Zenon

LEMMA DivMod ==
    ASSUME NEW a \in Nat, NEW c \in Nat, c # 0
    PROVE  /\ a \div c \in Nat /\ a % c \in Nat /\ a % c < c
           /\ a = c * (a \div c) + (a % c)
OBVIOUS

LEMMA DivUnique ==
    ASSUME NEW a \in Nat, NEW c \in Nat, NEW q \in Nat, NEW m \in Nat, m < c, a = c * q + m
    PROVE  a \div c = q /\ a % c = m
<1> DEFINE p == a \div c
           t == a % c
<1>1. p \in Nat /\ t \in Nat /\ t < c /\ a = c * p + t
  BY DivMod
<1> HIDE DEF p, t
<1>2. p = q
  <2>1. CASE p > q
    <3>1. p - q - 1 \in Nat /\ p = q + 1 + (p - q - 1)
      BY <1>1, <2>1
    <3>2. PICK x \in Nat : p = q + 1 + x
      BY <3>1, Zenon
    <3>3. c * p = c * q + c + c * x
      BY <3>2
    <3>4. c * x \in Nat /\ c * q \in Nat
      BY <3>2
    <3> QED BY <1>1, <3>3, <3>4
  <2>2. CASE p < q
    <3>1. q - p - 1 \in Nat /\ q = p + 1 + (q - p - 1)
      BY <1>1, <2>2
    <3>2. PICK x \in Nat : q = p + 1 + x
      BY <3>1, Zenon
    <3>3. c * q = c * p + c + c * x
      BY <1>1, <3>2
    <3>4. c * x \in Nat /\ c * p \in Nat
      BY <1>1, <3>2
    <3> QED BY <1>1, <3>3, <3>4
  <2> QED BY <1>1, <2>1, <2>2
<1>3. t = m
  BY <1>1, <1>2
<1> QED BY <1>2, <1>3, Zenon DEF p, t

LEMMA ModSmall ==
    ASSUME NEW a \in Nat, NEW c \in Nat, a < c
    PROVE  a % c = a
<1>1. a = c * 0 + a
  OBVIOUS
<1> QED BY <1>1, DivUnique, Zenon

\* One digit more.
LEMMA DigitStep ==
    ASSUME NEW r \in Nat, r # 0, NEW v \in Nat, NEW n \in Nat
    PROVE  v % pow(r, n + 1) = (v % pow(r, n)) + digit(r, v, n + 1) * pow(r, n)
<1> DEFINE P == pow(r, n)
           q == v \div P
           m == v % P
           t == q \div r
           w == q % r
<1>1. P \in Nat /\ P # 0 /\ pow(r, n + 1) = r * P
  BY PowFacts, Zenon
<1>2. digit(r, v, n + 1) = w
  <2>1. (n + 1) - 1 = n
    OBVIOUS
  <2> QED BY <2>1, Zenon DEF digit
<1> HIDE DEF P
<1>3. q \in Nat /\ m \in Nat /\ m < P /\ v = P * q + m
  BY <1>1, DivMod, Zenon
<1> HIDE DEF q, m
<1>4. t \in Nat /\ w \in Nat /\ w < r /\ q = r * t + w
  BY <1>3, DivMod, Zenon
<1> HIDE DEF t, w
<1>5. r * P \in Nat /\ w * P + m \in Nat
  BY <1>1, <1>3, <1>4
<1>6. v = (r * P) * t + (w * P + m)
  BY <1>1, <1>3, <1>4
<1>7. w * P + m < r * P
  <2>1. PICK x \in Nat : r = w + 1 + x
    <3>1. r - w - 1 \in Nat /\ r = w + 1 + (r - w - 1)
      BY <1>4
    <3> QED BY <3>1, Zenon
  <2>2. r * P = w * P + P + x * P
    BY <1>1, <1>4, <2>1
  <2>3. x * P \in Nat /\ w * P \in Nat
    BY <1>1, <1>4, <2>1
  <2> QED BY <1>1, <1>3, <2>2, <2>3
<1>8. v % (r * P) = w * P + m
  BY ONLY <1>4, <1>5, <1>6, <1>7, DivUnique, v \in Nat, Zenon
<1>9. w * P \in Nat
  BY <1>1, <1>4
<1> QED BY <1>1, <1>2, <1>3, <1>8, <1>9 DEF m, P

\* The partial sums of number.
NumberEqs(r, bs, g) ==
    g = [i \in 0 .. Len(bs) |->
           IF i = 0 THEN 0 ELSE g[i - 1] + (Value(bs[i]) % r) * pow(r, i - 1)]

LEMMA NumberSums ==
    ASSUME NEW r \in Nat, r # 0, NEW bs \in Seq(Byte)
    PROVE  \E g \in [0 .. Len(bs) -> Nat] :
             /\ g[0] = 0 /\ number(r, bs) = g[Len(bs)]
             /\ \A i \in 1 .. Len(bs) : g[i] = g[i - 1] + (Value(bs[i]) % r) * pow(r, i - 1)
<1> DEFINE n == Len(bs)
           D(i) == (Value(bs[i]) % r) * pow(r, i - 1)
           F == [i \in 1 .. n |-> [x \in Nat |-> x + D(i)]]
<1>1. n \in Nat
  OBVIOUS
<1>2. \A i \in 1 .. n : D(i) \in Nat
  <2> TAKE i \in 1 .. n
  <2>1. i - 1 \in Nat /\ bs[i] \in Byte
    OBVIOUS
  <2>2. Value(bs[i]) % r \in Nat /\ pow(r, i - 1) \in Nat
    BY <2>1, ByteFacts, DivMod, PowFacts, Zenon
  <2> QED BY <2>2
<1> HIDE DEF n, D
<1>3. F \in [1 .. n -> [Nat -> Nat]]
  BY <1>2
<1>4. PICK g \in [0 .. n -> Nat] : g[0] = 0 /\ \A i \in 1 .. n : g[i] = F[i][g[i - 1]]
  <2> HIDE DEF F
  <2>1. 0 \in Nat
    BY Zenon
  <2>2. Iteration(n, Nat, 0, F)
    BY ONLY <1>1, <1>3, <2>1, Iterates, Zenon
  <2> QED BY <2>2, Zenon DEF Iteration
<1>5. ASSUME NEW i \in 1 .. n PROVE g[i] = g[i - 1] + D(i)
  <2>1. g[i - 1] \in Nat
    BY <1>1
  <2> QED BY <1>4, <2>1, Zenon
<1>6. NumberEqs(r, bs, g)
  <2>1. ASSUME NEW i \in 0 .. n PROVE g[i] = IF i = 0 THEN 0 ELSE g[i - 1] + D(i)
    BY <1>1, <1>4, <1>5
  <2>2. g = [i \in 0 .. n |-> g[i]]
    BY Zenon
  <2>3. g = [i \in 0 .. n |-> IF i = 0 THEN 0 ELSE g[i - 1] + D(i)]
    BY <2>1, <2>2, Zenon
  <2> QED BY <2>3, Zenon DEF NumberEqs, n, D
<1> DEFINE h == CHOOSE f : NumberEqs(r, bs, f)
<1>7. NumberEqs(r, bs, h)
  BY <1>6, Zenon
<1>8. number(r, bs) = h[n]
  BY Zenon DEF number, NumberEqs, n
<1> HIDE DEF h
<1>9. h[0] = 0 /\ \A i \in 1 .. n : h[i] = h[i - 1] + D(i)
  BY <1>1, <1>7 DEF NumberEqs, n, D
<1>10. h = [i \in 0 .. n |-> h[i]]
  <2>1. h = [i \in 0 .. n |-> IF i = 0 THEN 0 ELSE h[i - 1] + D(i)]
    BY <1>7, Zenon DEF NumberEqs, n, D
  <2> QED BY <2>1, Zenon
<1> DEFINE T == {k \in 0 .. n : h[k] # g[k]}
<1>11. T = {}
  <2> SUFFICES ASSUME T # {} PROVE FALSE
    BY Zenon
  <2>1. PICK k \in T : \A y \in T : k <= y
    <3>1. T \in SUBSET Nat
      BY <1>1
    <3> HIDE DEF T
    <3> QED BY <3>1, LeastNat, Zenon
  <2>2. k \in 0 .. n /\ k # 0
    BY <1>4, <1>9, <2>1, Zenon
  <2>3. k - 1 \in 0 .. n /\ k - 1 \notin T
    BY <1>1, <2>1, <2>2
  <2> QED BY <1>1, <1>5, <1>9, <2>1, <2>2, <2>3
<1>12. n \in 0 .. n
  BY <1>1
<1>13. number(r, bs) = g[n]
  BY <1>8, <1>11, <1>12, Zenon
<1> QED BY <1>4, <1>5, <1>13, Zenon DEF n, D

LEMMA NumberOfDigits ==
    ASSUME NEW r \in Nat, r # 0, NEW v \in Nat, NEW bs \in Seq(Byte),
           \A i \in 1 .. Len(bs) : Value(bs[i]) % r = digit(r, v, i)
    PROVE  number(r, bs) = v % pow(r, Len(bs))
<1>1. PICK g \in [0 .. Len(bs) -> Nat] :
             /\ g[0] = 0 /\ number(r, bs) = g[Len(bs)]
             /\ \A i \in 1 .. Len(bs) : g[i] = g[i - 1] + (Value(bs[i]) % r) * pow(r, i - 1)
  BY NumberSums, Zenon
<1>2. Len(bs) \in Nat
  OBVIOUS
<1> DEFINE T == {k \in 0 .. Len(bs) : g[k] # v % pow(r, k)}
<1>3. T = {}
  <2> SUFFICES ASSUME T # {} PROVE FALSE
    BY Zenon
  <2>1. PICK k \in T : \A y \in T : k <= y
    <3>1. T \in SUBSET Nat
      BY <1>2
    <3> HIDE DEF T
    <3> QED BY <3>1, LeastNat, Zenon
  <2>2. k # 0
    <3>1. v = 1 * v + 0 /\ 0 < 1
      OBVIOUS
    <3>2. v % 1 = 0
      BY <3>1, DivUnique, Zenon
    <3>3. pow(r, 0) = 1
      BY PowFacts, Zenon
    <3> QED BY <1>1, <2>1, <3>2, <3>3, Zenon
  <2>3. k \in 1 .. Len(bs) /\ k - 1 \in 0 .. Len(bs) /\ k - 1 \notin T /\ k - 1 \in Nat /\ (k - 1) + 1 = k
    BY <1>2, <2>1, <2>2
  <2>4. g[k - 1] = v % pow(r, k - 1)
    BY <2>3, Zenon
  <2>5. v % pow(r, k) = (v % pow(r, k - 1)) + digit(r, v, k) * pow(r, k - 1)
    BY <2>3, DigitStep
  <2>6. g[k] = g[k - 1] + digit(r, v, k) * pow(r, k - 1)
    BY <1>1, <2>3, Zenon
  <2>7. g[k] = v % pow(r, k)
    BY <2>4, <2>5, <2>6, Zenon
  <2> QED BY <2>1, <2>7, Zenon
<1>4. Len(bs) \in 0 .. Len(bs)
  BY <1>2
<1> QED BY <1>1, <1>3, <1>4, Zenon

-----------------------------------------------------------------------------
(* Sequences.                                                              *)

LEMMA SameSeq ==
    ASSUME NEW X, NEW x \in Seq(X), NEW y \in Seq(X), Len(x) = Len(y),
           \A i \in 1 .. Len(x) : x[i] = y[i]
    PROVE  x = y
OBVIOUS

LEMMA JoinFacts ==
    ASSUME NEW X, NEW x \in Seq(X), NEW y \in Seq(X)
    PROVE  /\ x \o y \in Seq(X) /\ Len(x \o y) = Len(x) + Len(y)
           /\ \A i \in 1 .. Len(x) : (x \o y)[i] = x[i]
           /\ \A i \in 1 .. Len(y) : (x \o y)[Len(x) + i] = y[i]
OBVIOUS

LEMMA JoinAssoc ==
    ASSUME NEW X, NEW x \in Seq(X), NEW y \in Seq(X), NEW z \in Seq(X)
    PROVE  (x \o y) \o z = x \o (y \o z)
OBVIOUS

LEMMA SliceFacts ==
    ASSUME NEW X, NEW x \in Seq(X), NEW a \in Nat, NEW c \in Nat, a <= c, c <= Len(x)
    PROVE  /\ SubSeq(x, a + 1, c) \in Seq(X) /\ Len(SubSeq(x, a + 1, c)) = c - a
           /\ \A i \in 1 .. c - a : SubSeq(x, a + 1, c)[i] = x[a + i]
OBVIOUS

LEMMA FrontFacts ==
    ASSUME NEW X, NEW x \in Seq(X), NEW c \in Nat, c <= Len(x)
    PROVE  /\ SubSeq(x, 1, c) \in Seq(X) /\ Len(SubSeq(x, 1, c)) = c
           /\ \A i \in 1 .. c : SubSeq(x, 1, c)[i] = x[i]
OBVIOUS

\* A part of a joined sequence.
LEMMA MiddlePart ==
    ASSUME NEW X, NEW x \in Seq(X), NEW y \in Seq(X), NEW z \in Seq(X)
    PROVE  SubSeq((x \o y) \o z, Len(x) + 1, Len(x) + Len(y)) = y
<1> DEFINE d == (x \o y) \o z
           s == SubSeq(d, Len(x) + 1, Len(x) + Len(y))
<1>1. x \o y \in Seq(X) /\ Len(x \o y) = Len(x) + Len(y) /\ Len(x) \in Nat /\ Len(y) \in Nat
      /\ Len(z) \in Nat /\ \A i \in 1 .. Len(y) : (x \o y)[Len(x) + i] = y[i]
  BY JoinFacts
<1>2. /\ d \in Seq(X) /\ Len(d) = Len(x) + Len(y) + Len(z)
      /\ \A i \in 1 .. Len(x \o y) : d[i] = (x \o y)[i]
  BY <1>1, JoinFacts
<1>3. Len(x) + Len(y) \in Nat /\ Len(x) <= Len(x) + Len(y) /\ Len(x) + Len(y) <= Len(d)
      /\ (Len(x) + Len(y)) - Len(x) = Len(y)
  BY <1>1, <1>2
<1> HIDE DEF d
<1>4. /\ s \in Seq(X) /\ Len(s) = Len(y)
      /\ \A i \in 1 .. Len(y) : s[i] = d[Len(x) + i]
  BY <1>1, <1>2, <1>3, SliceFacts
<1> HIDE DEF s
<1>5. ASSUME NEW i \in 1 .. Len(y) PROVE s[i] = y[i]
  <2>1. Len(x) + i \in 1 .. Len(x \o y)
    BY <1>1
  <2> QED BY <1>1, <1>2, <1>4, <2>1, Zenon
<1>6. s = y
  BY <1>4, <1>5, SameSeq, Zenon
<1> QED BY <1>6, Zenon DEF s, d

LEMMA FrontPart ==
    ASSUME NEW X, NEW x \in Seq(X), NEW y \in Seq(X)
    PROVE  SubSeq(x \o y, 1, Len(x)) = x
<1> DEFINE s == SubSeq(x \o y, 1, Len(x))
<1>1. /\ x \o y \in Seq(X) /\ Len(x \o y) = Len(x) + Len(y) /\ Len(x) \in Nat /\ Len(y) \in Nat
      /\ \A i \in 1 .. Len(x) : (x \o y)[i] = x[i]
  BY JoinFacts
<1>2. Len(x) <= Len(x \o y)
  BY <1>1
<1>3. /\ s \in Seq(X) /\ Len(s) = Len(x) /\ \A i \in 1 .. Len(x) : s[i] = (x \o y)[i]
  BY <1>1, <1>2, FrontFacts, Zenon
<1>4. \A i \in 1 .. Len(x) : s[i] = x[i]
  BY <1>1, <1>3, Zenon
<1> HIDE DEF s
<1>5. s = x
  BY <1>3, <1>4, SameSeq, Zenon
<1> QED BY <1>5, Zenon DEF s

\* What follows the first part.
LEMMA BackPart ==
    ASSUME NEW X, NEW x \in Seq(X), NEW y \in Seq(X)
    PROVE  SubSeq(x \o y, Len(x) + 1, Len(x \o y)) = y
<1>1. <<>> \in Seq(X) /\ (x \o y) \o <<>> = x \o y /\ Len(x \o y) = Len(x) + Len(y)
  OBVIOUS
<1>2. SubSeq((x \o y) \o <<>>, Len(x) + 1, Len(x) + Len(y)) = y
  BY <1>1, MiddlePart, Zenon
<1> QED BY <1>1, <1>2, Zenon

\* d is the beginning of e.
Begins(d, e) == Len(d) <= Len(e) /\ \A i \in 1 .. Len(d) : e[i] = d[i]

LEMMA BeginsSlice ==
    ASSUME NEW X, NEW d \in Seq(X), NEW e \in Seq(X), Begins(d, e),
           NEW a \in Nat, NEW c \in Nat, a <= c, c <= Len(d)
    PROVE  SubSeq(d, a + 1, c) = SubSeq(e, a + 1, c)
<1> DEFINE x == SubSeq(d, a + 1, c)
           y == SubSeq(e, a + 1, c)
<1>1. c <= Len(e) /\ Len(d) \in Nat /\ Len(e) \in Nat
  BY DEF Begins
<1>2. /\ x \in Seq(X) /\ Len(x) = c - a /\ \A i \in 1 .. c - a : x[i] = d[a + i]
      /\ y \in Seq(X) /\ Len(y) = c - a /\ \A i \in 1 .. c - a : y[i] = e[a + i]
  BY <1>1, SliceFacts
<1>3. \A i \in 1 .. c - a : a + i \in 1 .. Len(d)
  BY <1>1
<1>4. \A i \in 1 .. Len(x) : x[i] = y[i]
  BY <1>2, <1>3, Zenon DEF Begins
<1> HIDE DEF x, y
<1>5. x = y
  BY <1>2, <1>4, SameSeq, Zenon
<1> QED BY <1>5, Zenon DEF x, y

LEMMA BeginsFront ==
    ASSUME NEW X, NEW d \in Seq(X), NEW e \in Seq(X), Begins(d, e), NEW c \in Nat, c <= Len(d)
    PROVE  SubSeq(d, 1, c) = SubSeq(e, 1, c)
<1> DEFINE x == SubSeq(d, 1, c)
           y == SubSeq(e, 1, c)
<1>1. c <= Len(e)
  BY DEF Begins
<1>2. /\ x \in Seq(X) /\ Len(x) = c /\ \A i \in 1 .. c : x[i] = d[i]
      /\ y \in Seq(X) /\ Len(y) = c /\ \A i \in 1 .. c : y[i] = e[i]
  BY <1>1, FrontFacts, Zenon
<1> HIDE DEF x, y
<1>3. \A i \in 1 .. c : x[i] = y[i]
  <2>1. \A i \in 1 .. c : i \in 1 .. Len(d)
    OBVIOUS
  <2> QED BY <1>2, <2>1, Zenon DEF Begins
<1>4. x = y
  BY <1>2, <1>3, SameSeq, Zenon
<1> QED BY <1>4, Zenon DEF x, y

LEMMA BeginsRest ==
    ASSUME NEW X, NEW d \in Seq(X), NEW e \in Seq(X), Begins(d, e), NEW a \in Nat, a <= Len(d)
    PROVE  /\ SubSeq(d, a + 1, Len(d)) \in Seq(X) /\ SubSeq(e, a + 1, Len(e)) \in Seq(X)
           /\ Len(SubSeq(d, a + 1, Len(d))) = Len(d) - a
           /\ Len(SubSeq(e, a + 1, Len(e))) = Len(e) - a
           /\ Begins(SubSeq(d, a + 1, Len(d)), SubSeq(e, a + 1, Len(e)))
<1> DEFINE x == SubSeq(d, a + 1, Len(d))
           y == SubSeq(e, a + 1, Len(e))
<1>1. Len(d) \in Nat /\ Len(e) \in Nat /\ Len(d) <= Len(e) /\ a <= Len(e)
  BY DEF Begins
<1>2. /\ x \in Seq(X) /\ Len(x) = Len(d) - a /\ \A i \in 1 .. Len(d) - a : x[i] = d[a + i]
      /\ y \in Seq(X) /\ Len(y) = Len(e) - a /\ \A i \in 1 .. Len(e) - a : y[i] = e[a + i]
  BY <1>1, SliceFacts
<1>3. \A i \in 1 .. Len(d) - a : a + i \in 1 .. Len(d) /\ i \in 1 .. Len(e) - a
  BY <1>1
<1>4. Begins(x, y)
  <2> HIDE DEF x, y
  <2>1. Len(x) <= Len(y)
    BY <1>1, <1>2
  <2>2. \A i \in 1 .. Len(x) : y[i] = x[i]
    BY <1>2, <1>3, Zenon DEF Begins
  <2> QED BY <2>1, <2>2, Zenon DEF Begins
<1> QED BY <1>2, <1>4, Zenon

-----------------------------------------------------------------------------
(* Numbers on the wire.                                                    *)

LEMMA DigitRange ==
    ASSUME NEW r \in Nat, r # 0, NEW v \in Nat, NEW i \in Nat, i # 0
    PROVE  digit(r, v, i) \in Nat /\ digit(r, v, i) < r
<1>1. i - 1 \in Nat
  OBVIOUS
<1>2. pow(r, i - 1) \in Nat /\ pow(r, i - 1) # 0
  BY <1>1, PowFacts, Zenon
<1>3. v \div pow(r, i - 1) \in Nat
  BY <1>2, DivMod, Zenon
<1> QED BY <1>3, DivMod, Zenon DEF digit

\* from_le_bytes gives back what to_le_bytes was given.
LEMMA LeRoundTrip ==
    ASSUME NEW n \in Nat, NEW v \in Nat, v < pow(BASE, n)
    PROVE  le(n, v) \in Seq(Byte) /\ Len(le(n, v)) = n /\ fromLe(le(n, v)) = v
<1>1. BASE \in Nat /\ BASE # 0
  BY Radices
<1>2. \A i \in 1 .. n : digit(BASE, v, i) \in Nat /\ digit(BASE, v, i) < BASE
  BY <1>1, DigitRange
<1>3. \A i \in 1 .. n : Digit(digit(BASE, v, i)) \in Byte
                        /\ Value(Digit(digit(BASE, v, i))) = digit(BASE, v, i)
  BY <1>2, ByteFacts, Zenon
<1>4. le(n, v) \in Seq(Byte) /\ Len(le(n, v)) = n
      /\ \A i \in 1 .. n : le(n, v)[i] = Digit(digit(BASE, v, i))
  BY <1>3 DEF le
<1>5. \A i \in 1 .. n : Value(le(n, v)[i]) % BASE = digit(BASE, v, i)
  <2> TAKE i \in 1 .. n
  <2>1. digit(BASE, v, i) % BASE = digit(BASE, v, i)
    BY <1>1, <1>2, ModSmall, Zenon
  <2> QED BY <1>3, <1>4, <2>1, Zenon
<1>6. number(BASE, le(n, v)) = v % pow(BASE, n)
  BY <1>1, <1>4, <1>5, NumberOfDigits, Zenon
<1>7. pow(BASE, n) \in Nat
  BY <1>1, PowFacts, Zenon
<1>8. v % pow(BASE, n) = v
  BY <1>7, ModSmall, Zenon
<1> QED BY <1>4, <1>6, <1>8, Zenon DEF fromLe

LEMMA PowBounds ==
    ASSUME NEW n \in Nat
    PROVE  n < pow(RADIX, n)
<1>1. RADIX \in Nat /\ RADIX > 2
  BY Radices, Zenon
<1> DEFINE T == {k \in 0 .. n : ~(k < pow(RADIX, k))}
<1> SUFFICES ASSUME T # {} PROVE FALSE
  <2>1. n \in 0 .. n
    OBVIOUS
  <2> QED BY <2>1, Zenon
<1>2. PICK k \in T : \A y \in T : k <= y
  <2>1. T \in SUBSET Nat
    OBVIOUS
  <2> HIDE DEF T
  <2> QED BY <2>1, LeastNat, Zenon
<1>3. k # 0
  <2>1. pow(RADIX, 0) = 1
    BY <1>1, PowFacts, Zenon
  <2> QED BY <1>2, <2>1
<1>4. k - 1 \in 0 .. n /\ k - 1 \notin T /\ k - 1 \in Nat /\ (k - 1) + 1 = k
  BY <1>2, <1>3
<1> DEFINE p == pow(RADIX, k - 1)
<1>5. p \in Nat /\ k - 1 < p /\ pow(RADIX, k) = RADIX * p
  BY <1>1, <1>4, PowFacts, Zenon
<1> HIDE DEF p
<1>6. PICK q \in Nat : q = RADIX * p /\ q >= p + p
  BY <1>1, <1>5
<1>7. k < q
  BY ONLY <1>3, <1>4, <1>5, <1>6
<1> QED BY <1>2, <1>5, <1>6, <1>7, Zenon

LEMMA DigitCount ==
    ASSUME NEW v \in Nat
    PROVE  /\ digits(v) \in 1 .. (v + 1) /\ v < pow(RADIX, digits(v))
           /\ \A j \in 1 .. (digits(v) - 1) : v >= pow(RADIX, j)
<1> DEFINE T == {i \in 1 .. (v + 1) : v < pow(RADIX, i)}
<1>1. v + 1 \in T
  <2>1. v + 1 \in Nat /\ v + 1 < pow(RADIX, v + 1)
    BY PowBounds
  <2>2. pow(RADIX, v + 1) \in Nat
    BY <2>1, Radices, PowFacts, Zenon
  <2> QED BY <2>1, <2>2
<1>2. PICK k \in T : \A y \in T : k <= y
  <2>1. T \in SUBSET Nat /\ T # {}
    BY <1>1
  <2> HIDE DEF T
  <2> QED BY <2>1, LeastNat, Zenon
<1>3. ASSUME NEW j \in 1 .. (k - 1) PROVE v >= pow(RADIX, j)
  <2>1. j \in 1 .. (v + 1) /\ j \notin T /\ j \in Nat
    BY <1>2
  <2>2. pow(RADIX, j) \in Nat
    BY <2>1, Radices, PowFacts, Zenon
  <2> QED BY <2>1, <2>2
<1>4. \E i \in 1 .. (v + 1) : v < pow(RADIX, i) /\ \A j \in 1 .. (i - 1) : v >= pow(RADIX, j)
  BY <1>2, <1>3, Zenon
<1> QED BY <1>4, Zenon DEF digits

LEMMA UvarintBytes ==
    ASSUME NEW v \in Nat
    PROVE  /\ encode_uvarint(v) \in Seq(Byte) /\ Len(encode_uvarint(v)) = digits(v)
           /\ \A i \in 1 .. digits(v) : Value(encode_uvarint(v)[i]) % RADIX = digit(RADIX, v, i)
           /\ \A i \in 1 .. (digits(v) - 1) : Value(encode_uvarint(v)[i]) >= RADIX
           /\ Value(encode_uvarint(v)[digits(v)]) < RADIX
<1> DEFINE n == digits(v)
           e == encode_uvarint(v)
           D(i) == (IF i < n THEN RADIX ELSE 0) + digit(RADIX, v, i)
<1>1. RADIX \in Nat /\ RADIX # 0 /\ n \in Nat /\ n # 0
  BY Radices, DigitCount
<1>2. e = [i \in 1 .. n |-> Digit(D(i))]
  BY Zenon DEF encode_uvarint
<1> HIDE DEF n, e
<1>3. \A i \in 1 .. n : digit(RADIX, v, i) \in Nat /\ digit(RADIX, v, i) < RADIX
  BY <1>1, DigitRange
<1>4. ASSUME NEW i \in 1 .. n
      PROVE  /\ D(i) \in Nat /\ D(i) % RADIX = digit(RADIX, v, i)
             /\ (i < n => D(i) >= RADIX) /\ (i = n => D(i) < RADIX)
  <2>1. PICK m \in Nat : m = digit(RADIX, v, i) /\ m < RADIX
    BY <1>3, Zenon
  <2>2. D(i) = (IF i < n THEN RADIX ELSE 0) + m
    BY <2>1, Zenon
  <2>3. m = RADIX * 0 + m /\ RADIX + m = RADIX * 1 + m /\ RADIX + m \in Nat
    BY <1>1, <2>1
  <2>4. m % RADIX = m /\ (RADIX + m) % RADIX = m
    BY <1>1, <2>1, <2>3, DivUnique, Zenon
  <2> HIDE DEF D
  <2>5. D(i) = RADIX + m \/ D(i) = m
    BY <1>1, <2>1, <2>2
  <2>6. (i < n => D(i) = RADIX + m) /\ (i = n => D(i) = m)
    BY <1>1, <2>1, <2>2
  <2> QED BY <1>1, <2>1, <2>3, <2>4, <2>5, <2>6
<1> HIDE DEF D
<1>5. \A i \in 1 .. n : Digit(D(i)) \in Byte /\ Value(Digit(D(i))) = D(i)
  BY <1>4, ByteFacts, Zenon
<1>6. e \in Seq(Byte) /\ Len(e) = n /\ \A i \in 1 .. n : Value(e[i]) = D(i)
  BY <1>1, <1>2, <1>5
<1>7. n \in 1 .. n /\ \A i \in 1 .. (n - 1) : i \in 1 .. n /\ i < n
  BY <1>1
<1>8. /\ \A i \in 1 .. n : Value(e[i]) % RADIX = digit(RADIX, v, i)
      /\ \A i \in 1 .. (n - 1) : Value(e[i]) >= RADIX
      /\ Value(e[n]) < RADIX
  BY <1>4, <1>6, <1>7, Zenon
<1> QED BY <1>6, <1>8, Zenon DEF n, e

\* The digits decode_uvarint stops at.
Ends(d) == {i \in DOMAIN d : Value(d[i]) < RADIX}

\* decode_uvarint in terms of the first byte without the continuation bit.
LEMMA DecodeEnd ==
    ASSUME NEW d \in Seq(Byte), NEW n \in Ends(d), \A j \in Ends(d) : n <= j
    PROVE  decode_uvarint(d) = IF pow(RADIX, n - 1) >= U64 THEN Bail
                               ELSE Ok(number(RADIX, SubSeq(d, 1, n)) % U64, n)
<1>1. DOMAIN d = 1 .. Len(d) /\ Len(d) \in Nat
  OBVIOUS
<1> DEFINE c == CHOOSE i \in Ends(d) : \A j \in Ends(d) : i <= j
<1>3. c \in Ends(d) /\ \A j \in Ends(d) : c <= j
  BY Zenon
<1>4. c \in Nat /\ n \in Nat
  BY <1>1, <1>3 DEF Ends
<1>5. c = n
  BY <1>3, <1>4
<1>6. decode_uvarint(d) = IF pow(RADIX, c - 1) >= U64 THEN Bail
                          ELSE Ok(number(RADIX, SubSeq(d, 1, c)) % U64, c)
  <2>1. Ends(d) # {}
    BY Zenon
  <2> QED BY <2>1, Zenon DEF decode_uvarint, Ends
<1> HIDE DEF c
<1> QED BY <1>5, <1>6, Zenon

LEMMA NumberNat ==
    ASSUME NEW r \in Nat, r # 0, NEW bs \in Seq(Byte)
    PROVE  number(r, bs) \in Nat
<1>1. PICK g \in [0 .. Len(bs) -> Nat] : number(r, bs) = g[Len(bs)]
  BY NumberSums, Zenon
<1>2. Len(bs) \in 0 .. Len(bs)
  OBVIOUS
<1> QED BY <1>1, <1>2, Zenon

\* What decode_uvarint can return.
LEMMA UvarintOut ==
    ASSUME NEW d \in Seq(Byte)
    PROVE  \/ decode_uvarint(d) = Bail
           \/ \E n \in Ends(d), v \in Nat :
                /\ \A j \in Ends(d) : n <= j
                /\ v < U64 /\ decode_uvarint(d) = Ok(v, n)
<1>1. CASE Ends(d) = {}
  BY <1>1, Zenon DEF decode_uvarint, Ends
<1>2. CASE Ends(d) # {}
  <2>1. PICK n \in Ends(d) : \A j \in Ends(d) : n <= j
    <3>1. Ends(d) \in SUBSET Nat
      BY DEF Ends
    <3> QED BY <1>2, <3>1, LeastNat, Zenon
  <2>2. n \in Nat /\ n <= Len(d)
    BY <2>1 DEF Ends
  <2>3. SubSeq(d, 1, n) \in Seq(Byte)
    BY <2>2, FrontFacts, Zenon
  <2>4. number(RADIX, SubSeq(d, 1, n)) \in Nat
    <3>1. RADIX \in Nat /\ RADIX # 0
      BY Radices
    <3> QED BY <2>3, <3>1, NumberNat, Zenon
  <2> DEFINE v == number(RADIX, SubSeq(d, 1, n)) % U64
  <2>5. v \in Nat /\ v < U64
    BY <2>4, Radices, DivMod
  <2>6. decode_uvarint(d) = IF pow(RADIX, n - 1) >= U64 THEN Bail ELSE Ok(v, n)
    BY <2>1, DecodeEnd, Zenon
  <2> HIDE DEF v
  <2> QED BY <2>1, <2>5, <2>6, Zenon
<1> QED BY <1>1, <1>2, Zenon

\* decode_uvarint reads back what encode_uvarint wrote, whatever follows.
LEMMA UvarintRoundTrip ==
    ASSUME NEW v \in Nat, v < U64, NEW z \in Seq(Byte)
    PROVE  decode_uvarint(encode_uvarint(v) \o z) = Ok(v, Len(encode_uvarint(v)))
<1> DEFINE e == encode_uvarint(v)
           n == digits(v)
           d == e \o z
<1>1. /\ e \in Seq(Byte) /\ Len(e) = n
      /\ \A i \in 1 .. n : Value(e[i]) % RADIX = digit(RADIX, v, i)
      /\ \A i \in 1 .. (n - 1) : Value(e[i]) >= RADIX
      /\ Value(e[n]) < RADIX
  BY UvarintBytes, Zenon
<1>2. n \in Nat /\ n # 0 /\ v < pow(RADIX, n) /\ \A j \in 1 .. (n - 1) : v >= pow(RADIX, j)
  <2>1. n \in 1 .. (v + 1) /\ v < pow(RADIX, n) /\ \A j \in 1 .. (n - 1) : v >= pow(RADIX, j)
    BY DigitCount, Zenon
  <2> HIDE DEF n
  <2> QED BY <2>1
<1> HIDE DEF e, n
<1>3. /\ d \in Seq(Byte) /\ Len(d) = n + Len(z) /\ Len(z) \in Nat
      /\ \A i \in 1 .. n : d[i] = e[i]
  <2>1. /\ d \in Seq(Byte) /\ Len(d) = Len(e) + Len(z)
        /\ \A i \in 1 .. Len(e) : d[i] = e[i]
    BY <1>1, JoinFacts, Zenon
  <2> QED BY <1>1, <2>1
<1>4. SubSeq(d, 1, n) = e
  BY <1>1, FrontPart, Zenon
<1> HIDE DEF d
<1>5. n \in Ends(d)
  <2>1. n \in 1 .. Len(d) /\ n \in 1 .. n
    BY <1>2, <1>3
  <2> QED BY <1>1, <1>3, <2>1 DEF Ends
<1>6. ASSUME NEW j \in Ends(d) PROVE n <= j
  <2> SUFFICES ASSUME j < n PROVE FALSE
    BY <1>2, <1>3 DEF Ends
  <2>1. j \in 1 .. Len(d) /\ Value(d[j]) < RADIX
    BY DEF Ends
  <2>2. j \in 1 .. n /\ j \in 1 .. (n - 1)
    BY <1>2, <1>3, <2>1
  <2>3. d[j] = e[j] /\ e[j] \in Byte
    BY <1>1, <1>3, <2>2
  <2>4. Value(e[j]) \in Nat /\ Value(e[j]) >= RADIX
    BY <1>1, <2>2, <2>3, ByteFacts, Zenon
  <2> QED BY <2>1, <2>3, <2>4, Radices
<1>7. pow(RADIX, n - 1) < U64
  <2>1. CASE n = 1
    <3>1. pow(RADIX, 0) = 1
      BY Radices, PowFacts, Zenon
    <3> QED BY <2>1, <3>1, Radices
  <2>2. CASE n # 1
    <3>1. n - 1 \in 1 .. (n - 1) /\ n - 1 \in Nat
      BY <1>2, <2>2
    <3>2. v >= pow(RADIX, n - 1) /\ pow(RADIX, n - 1) \in Nat
      BY <1>2, <3>1, Radices, PowFacts, Zenon
    <3> QED BY <3>2, Radices
  <2> QED BY <2>1, <2>2, Zenon
<1>8. number(RADIX, e) % U64 = v
  <2>1. RADIX \in Nat /\ RADIX # 0
    BY Radices
  <2>2. pow(RADIX, n) \in Nat
    BY <1>2, <2>1, PowFacts, Zenon
  <2>3. number(RADIX, e) = v % pow(RADIX, n)
    BY <1>1, <2>1, NumberOfDigits, Zenon
  <2>4. v % pow(RADIX, n) = v
    BY <1>2, <2>2, ModSmall, Zenon
  <2>5. v % U64 = v
    BY Radices, ModSmall, Zenon
  <2> QED BY <2>3, <2>4, <2>5, Zenon
<1>9. decode_uvarint(d) = IF pow(RADIX, n - 1) >= U64 THEN Bail
                          ELSE Ok(number(RADIX, SubSeq(d, 1, n)) % U64, n)
  BY <1>3, <1>5, <1>6, DecodeEnd, Zenon
<1>10. pow(RADIX, n - 1) \in Nat
  <2>1. n - 1 \in Nat
    BY <1>2
  <2> QED BY <2>1, Radices, PowFacts, Zenon
<1>11. ~(pow(RADIX, n - 1) >= U64)
  BY <1>7, <1>10, Radices
<1>12. decode_uvarint(d) = Ok(v, n)
  BY <1>4, <1>8, <1>9, <1>11, Zenon
<1> QED BY <1>1, <1>12, Zenon DEF d, e

\* decode_uvarint does not look behind the last digit.
LEMMA UvarintExtends ==
    ASSUME NEW d \in Seq(Byte), NEW e \in Seq(Byte), Begins(d, e), decode_uvarint(d).out = "ok"
    PROVE  decode_uvarint(e) = decode_uvarint(d)
<1>1. PICK n \in Ends(d) : \A j \in Ends(d) : n <= j
  <2>1. Bail.out = "bail"
    BY Zenon DEF Bail
  <2> QED BY <2>1, UvarintOut, Zenon
<1>2. n \in 1 .. Len(d) /\ Value(d[n]) < RADIX /\ Len(d) \in Nat /\ Len(e) \in Nat /\ Len(d) <= Len(e)
      /\ \A i \in 1 .. Len(d) : e[i] = d[i]
  BY <1>1 DEF Ends, Begins
<1>3. n \in Ends(e)
  <2>1. n \in 1 .. Len(e) /\ e[n] = d[n]
    BY <1>2
  <2> QED BY <1>2, <2>1 DEF Ends
<1>4. ASSUME NEW j \in Ends(e) PROVE n <= j
  <2>1. j \in 1 .. Len(e) /\ Value(e[j]) < RADIX
    BY DEF Ends
  <2>2. CASE j <= Len(d)
    <3>1. j \in 1 .. Len(d)
      BY <1>2, <2>1, <2>2
    <3>2. j \in Ends(d)
      BY <1>2, <2>1, <3>1 DEF Ends
    <3> QED BY <1>1, <3>2, Zenon
  <2>3. CASE ~(j <= Len(d))
    BY <1>2, <2>1, <2>3
  <2> QED BY <2>2, <2>3, Zenon
<1>6. SubSeq(d, 1, n) = SubSeq(e, 1, n)
  <2>1. n \in Nat /\ n <= Len(d)
    BY <1>2
  <2> QED BY <2>1, BeginsFront, Zenon
<1> DEFINE A(x) == IF pow(RADIX, n - 1) >= U64 THEN Bail ELSE Ok(number(RADIX, x) % U64, n)
<1>7. decode_uvarint(d) = A(SubSeq(d, 1, n))
  BY <1>1, DecodeEnd, Zenon
<1>8. decode_uvarint(e) = A(SubSeq(e, 1, n))
  BY <1>3, <1>4, DecodeEnd, Zenon
<1> HIDE DEF A
<1> QED BY <1>6, <1>7, <1>8, Zenon

-----------------------------------------------------------------------------
(* Parts written one behind the other.                                     *)

JoinEqs(ss, g) == g = [i \in 0 .. Len(ss) |-> IF i = 0 THEN <<>> ELSE g[i - 1] \o ss[i]]

\* c[i] is what the first i parts of ss make; d begins with each of them.
Parts(X, ss, c, d) ==
    /\ c \in [0 .. Len(ss) -> Seq(X)] /\ c[0] = <<>>
    /\ \A i \in 1 .. Len(ss) : c[i] = c[i - 1] \o ss[i]
    /\ \A i \in 0 .. Len(ss) : Begins(c[i], d)

LEMMA JoinedSums ==
    ASSUME NEW X, NEW ss \in Seq(Seq(X))
    PROVE  \E c \in [0 .. Len(ss) -> Seq(X)] :
             /\ c[0] = <<>> /\ Joined(ss) = c[Len(ss)]
             /\ \A i \in 1 .. Len(ss) : c[i] = c[i - 1] \o ss[i]
<1> DEFINE n == Len(ss)
           F == [i \in 1 .. n |-> [x \in Seq(X) |-> x \o ss[i]]]
<1>1. n \in Nat /\ \A i \in 1 .. n : ss[i] \in Seq(X)
  OBVIOUS
<1>2. F \in [1 .. n -> [Seq(X) -> Seq(X)]]
  <2> HIDE DEF n
  <2>1. \A i \in 1 .. n : \A x \in Seq(X) : x \o ss[i] \in Seq(X)
    BY <1>1, JoinFacts, Zenon
  <2> QED BY <2>1, Zenon
<1> HIDE DEF n
<1>3. PICK c \in [0 .. n -> Seq(X)] : c[0] = <<>> /\ \A i \in 1 .. n : c[i] = F[i][c[i - 1]]
  <2> HIDE DEF F
  <2>1. <<>> \in Seq(X)
    OBVIOUS
  <2>2. Iteration(n, Seq(X), <<>>, F)
    BY ONLY <1>1, <1>2, <2>1, Iterates, Zenon
  <2> QED BY <2>2, Zenon DEF Iteration
<1>4. ASSUME NEW i \in 1 .. n PROVE c[i] = c[i - 1] \o ss[i]
  <2>1. c[i - 1] \in Seq(X)
    BY <1>1
  <2> QED BY <1>3, <2>1, Zenon
<1> DEFINE h == CHOOSE g : JoinEqs(ss, g)
<1>5. JoinEqs(ss, c)
  <2>1. ASSUME NEW i \in 0 .. n PROVE c[i] = IF i = 0 THEN <<>> ELSE c[i - 1] \o ss[i]
    <3>1. CASE i = 0
      BY <1>3, <3>1, Zenon
    <3>2. CASE i # 0
      <4>1. i \in 1 .. n
        BY <1>1, <3>2
      <4> QED BY <1>4, <3>2, <4>1, Zenon
    <3> QED BY <3>1, <3>2, Zenon
  <2>2. c = [i \in 0 .. n |-> c[i]]
    BY <1>3, Zenon
  <2>3. c = [i \in 0 .. n |-> IF i = 0 THEN <<>> ELSE c[i - 1] \o ss[i]]
    BY <2>1, <2>2, Zenon
  <2> QED BY <2>3, Zenon DEF JoinEqs, n
<1>6. JoinEqs(ss, h)
  BY <1>5, Zenon
<1>7. Joined(ss) = h[n]
  BY Zenon DEF Joined, JoinEqs, n
<1> HIDE DEF h
<1>8. \A i \in 0 .. n : h[i] = IF i = 0 THEN <<>> ELSE h[i - 1] \o ss[i]
  <2>1. h = [i \in 0 .. n |-> IF i = 0 THEN <<>> ELSE h[i - 1] \o ss[i]]
    BY <1>6, Zenon DEF JoinEqs, n
  <2> QED BY <2>1, Zenon
<1> DEFINE T == {k \in 0 .. n : h[k] # c[k]}
<1>9. T = {}
  <2> SUFFICES ASSUME T # {} PROVE FALSE
    BY Zenon
  <2>1. PICK k \in T : \A y \in T : k <= y
    <3>1. T \in SUBSET Nat
      BY <1>1
    <3> HIDE DEF T
    <3> QED BY <3>1, LeastNat, Zenon
  <2>2. k \in 0 .. n /\ h[k] # c[k]
    BY <2>1, Zenon
  <2>3. k # 0
    BY <1>3, <1>8, <2>2, Zenon
  <2>4. k - 1 \in 0 .. n /\ k - 1 \notin T /\ k \in 1 .. n
    <3> HIDE DEF T
    <3> QED BY <1>1, <2>1, <2>2, <2>3
  <2>5. h[k - 1] = c[k - 1]
    BY <2>4, Zenon
  <2> HIDE DEF T
  <2> QED BY <1>4, <1>8, <2>2, <2>3, <2>4, <2>5, Zenon
<1>10. Joined(ss) = c[n]
  <2>1. n \in 0 .. n
    BY <1>1
  <2> QED BY <1>7, <1>9, <2>1, Zenon
<1> HIDE DEF T
<1> QED BY <1>3, <1>4, <1>10, Zenon DEF n

LEMMA BeginsJoin ==
    ASSUME NEW X, NEW x \in Seq(X), NEW y \in Seq(X), NEW d \in Seq(X), Begins(x \o y, d)
    PROVE  Begins(x, d)
<1>1. Len(x) \in Nat /\ Len(y) \in Nat /\ Len(x \o y) = Len(x) + Len(y) /\ Len(d) \in Nat
      /\ \A i \in 1 .. Len(x) : (x \o y)[i] = x[i]
  BY JoinFacts
<1>2. Len(x) + Len(y) <= Len(d) /\ \A i \in 1 .. Len(x) + Len(y) : d[i] = (x \o y)[i]
  BY <1>1, Zenon DEF Begins
<1>3. Len(x) <= Len(d) /\ \A i \in 1 .. Len(x) : i \in 1 .. Len(x) + Len(y)
  BY <1>1, <1>2
<1> QED BY <1>1, <1>2, <1>3, Zenon DEF Begins

LEMMA JoinedParts ==
    ASSUME NEW X, NEW ss \in Seq(Seq(X)), NEW z \in Seq(X)
    PROVE  /\ Joined(ss) \in Seq(X)
           /\ \E c : Parts(X, ss, c, Joined(ss) \o z) /\ c[Len(ss)] = Joined(ss)
<1>1. PICK c \in [0 .. Len(ss) -> Seq(X)] :
             /\ c[0] = <<>> /\ Joined(ss) = c[Len(ss)]
             /\ \A i \in 1 .. Len(ss) : c[i] = c[i - 1] \o ss[i]
  BY JoinedSums, Zenon
<1> DEFINE n == Len(ss)
           d == Joined(ss) \o z
<1>2. n \in Nat /\ n \in 0 .. n /\ \A i \in 1 .. n : ss[i] \in Seq(X)
  OBVIOUS
<1>3. Joined(ss) \in Seq(X)
  BY <1>1, <1>2, Zenon
<1>4. d \in Seq(X) /\ Begins(Joined(ss), d)
  BY <1>3, JoinFacts DEF Begins
<1> HIDE DEF n, d
<1> DEFINE T == {k \in 0 .. n : ~Begins(c[n - k], d)}
<1>5. T = {}
  <2> SUFFICES ASSUME T # {} PROVE FALSE
    BY Zenon
  <2>1. PICK k \in T : \A y \in T : k <= y
    <3>1. T \in SUBSET Nat
      BY <1>2
    <3> HIDE DEF T
    <3> QED BY <3>1, LeastNat, Zenon
  <2>2. k \in 0 .. n /\ ~Begins(c[n - k], d)
    BY <2>1, Zenon
  <2>3. k # 0
    <3>1. n - 0 = n
      BY <1>2
    <3> QED BY <1>1, <1>4, <2>2, <3>1, Zenon DEF n
  <2>4. k - 1 \in 0 .. n /\ k - 1 \notin T
    <3> HIDE DEF T
    <3> QED BY <1>2, <2>1, <2>2, <2>3
  <2> DEFINE i == n - (k - 1)
  <2>5. i \in 1 .. n /\ n - k = i - 1 /\ i - 1 \in 0 .. n
    BY <1>2, <2>2, <2>3
  <2>6. Begins(c[i], d)
    BY <2>4, Zenon
  <2> HIDE DEF i
  <2>7. c[i] = c[i - 1] \o ss[i] /\ c[i - 1] \in Seq(X) /\ ss[i] \in Seq(X)
    BY <1>1, <1>2, <2>5, Zenon DEF n
  <2>8. Begins(c[i - 1], d)
    BY <1>4, <2>6, <2>7, BeginsJoin
  <2> QED BY <2>2, <2>5, <2>8, Zenon
<1>6. \A i \in 0 .. n : Begins(c[i], d)
  <2> TAKE i \in 0 .. n
  <2>1. n - i \in 0 .. n /\ n - (n - i) = i
    BY <1>2
  <2> QED BY <1>5, <2>1, Zenon
<1>7. Parts(X, ss, c, d)
  BY <1>1, <1>6, Zenon DEF Parts, n
<1> QED BY <1>1, <1>3, <1>7, Zenon DEF d

\* What is left of d behind its first a bytes.
Rest(d, a) == SubSeq(d, a + 1, Len(d))

\* What is left behind i - 1 parts is the i-th, and what is left behind it.
PartAt(ss, c, d, i) ==
    /\ Len(c[i - 1]) \in Nat /\ Len(ss[i]) \in Nat
    /\ Len(c[i]) = Len(c[i - 1]) + Len(ss[i]) /\ Len(c[i]) <= Len(d)
    /\ Rest(d, Len(c[i])) \in Seq(Byte)
    /\ Len(Rest(d, Len(c[i]))) = Len(d) - Len(c[i])
    /\ Rest(d, Len(c[i - 1])) = ss[i] \o Rest(d, Len(c[i]))

LEMMA PartRead ==
    ASSUME NEW ss \in Seq(Seq(Byte)), NEW c, NEW d \in Seq(Byte), Parts(Byte, ss, c, d),
           NEW i \in 1 .. Len(ss)
    PROVE  PartAt(ss, c, d, i)
<1> DEFINE x == c[i - 1]
           y == ss[i]
<1>1. x \in Seq(Byte) /\ y \in Seq(Byte) /\ c[i] = x \o y /\ Begins(c[i], d) /\ c[i] \in Seq(Byte)
  <2>1. i \in 0 .. Len(ss) /\ i - 1 \in 0 .. Len(ss) /\ y \in Seq(Byte)
    OBVIOUS
  <2> QED BY <2>1, Zenon DEF Parts
<1> HIDE DEF x, y
<1>2. /\ Len(x) \in Nat /\ Len(y) \in Nat /\ Len(d) \in Nat /\ Len(c[i]) = Len(x) + Len(y)
      /\ \A j \in 1 .. Len(y) : (x \o y)[Len(x) + j] = y[j]
  BY <1>1, JoinFacts
<1>3. Len(x) + Len(y) <= Len(d) /\ \A j \in 1 .. Len(x) + Len(y) : d[j] = (x \o y)[j]
  BY <1>1, <1>2, Zenon DEF Begins
<1> DEFINE a == Len(x)
           b == Len(x) + Len(y)
           s == SubSeq(d, a + 1, Len(d))
           z == SubSeq(d, b + 1, Len(d))
<1>4. a \in Nat /\ b \in Nat /\ a <= b /\ b <= Len(d) /\ a <= Len(d) /\ Len(d) <= Len(d)
  BY <1>2, <1>3
<1>5. /\ s \in Seq(Byte) /\ Len(s) = Len(d) - a /\ \A j \in 1 .. Len(d) - a : s[j] = d[a + j]
      /\ z \in Seq(Byte) /\ Len(z) = Len(d) - b /\ \A j \in 1 .. Len(d) - b : z[j] = d[b + j]
  <2> HIDE DEF a, b
  <2> QED BY <1>2, <1>4, SliceFacts
<1> HIDE DEF s, z
<1>6. /\ y \o z \in Seq(Byte) /\ Len(y \o z) = Len(y) + Len(z)
      /\ \A j \in 1 .. Len(y) : (y \o z)[j] = y[j]
      /\ \A j \in 1 .. Len(z) : (y \o z)[Len(y) + j] = z[j]
  <2>1. y \in Seq(Byte) /\ z \in Seq(Byte)
    BY <1>1, <1>5, Zenon
  <2> QED BY ONLY <2>1, JoinFacts
<1>7. ASSUME NEW j \in 1 .. Len(s) PROVE s[j] = (y \o z)[j]
  <2>1. CASE j <= Len(y)
    <3>1. j \in 1 .. Len(y) /\ a + j \in 1 .. Len(x) + Len(y) /\ j \in 1 .. Len(d) - a
      BY <1>2, <1>3, <1>5, <2>1
    <3> QED BY <1>2, <1>3, <1>5, <1>6, <3>1, Zenon
  <2>2. CASE ~(j <= Len(y))
    <3> DEFINE k == j - Len(y)
    <3>1. k \in 1 .. Len(z) /\ j = Len(y) + k /\ a + j = b + k /\ j \in 1 .. Len(d) - a
          /\ k \in 1 .. Len(d) - b
      BY <1>2, <1>3, <1>5, <2>2
    <3> HIDE DEF k
    <3> QED BY <1>5, <1>6, <3>1, Zenon
  <2> QED BY <2>1, <2>2, Zenon
<1>8. Len(s) = Len(y \o z)
  BY <1>2, <1>3, <1>5, <1>6
<1>9. s = y \o z
  BY <1>5, <1>6, <1>7, <1>8, SameSeq, Zenon
<1> QED BY <1>2, <1>3, <1>5, <1>9, Zenon DEF s, z, x, y, PartAt, Rest

-----------------------------------------------------------------------------
(* Paths.                                                                  *)

LEMMA RestFacts ==
    ASSUME NEW d \in Seq(Byte), NEW e \in Seq(Byte), Begins(d, e), NEW a \in Nat, a <= Len(d)
    PROVE  /\ Rest(d, a) \in Seq(Byte) /\ Rest(e, a) \in Seq(Byte) /\ Begins(Rest(d, a), Rest(e, a))
           /\ Len(Rest(d, a)) = Len(d) - a /\ Len(Rest(e, a)) = Len(e) - a
BY BeginsRest DEF Rest

HopRec == [out : {"ok", "bail"}, v : Nat, n : Nat]

Hop(d, at) == LET u == decode_uvarint(Rest(d, at))
              IN [out |-> u.out, v |-> u.v, n |-> at + u.n]

HopEqs(d, g) ==
    g = [i \in 0 .. (PathMax + 1) |-> IF i = 0 THEN Ok(0, 0) ELSE Hop(d, g[i - 1].n)]

\* The varints decode_path reads, and those at which it ends.
IsHops(d, h) ==
    /\ h \in [0 .. (PathMax + 1) -> HopRec] /\ h[0] = Ok(0, 0)
    /\ \A i \in 1 .. (PathMax + 1) : h[i] = Hop(d, h[i - 1].n)

PathEnds(h) ==
    {i \in 1 .. (PathMax + 1) : \A j \in 1 .. i : h[j].out = "ok" /\ (h[j].v = 0 <=> j = i)}

PathAt(h, n) == Ok([j \in 1 .. (n - 1) |-> h[j].v - 1], h[n].n)

LEMMA RestSeq ==
    ASSUME NEW d \in Seq(Byte), NEW a \in Nat
    PROVE  Rest(d, a) \in Seq(Byte)
BY DEF Rest

LEMMA UvarintRec ==
    ASSUME NEW d \in Seq(Byte)
    PROVE  decode_uvarint(d) \in HopRec
           /\ (decode_uvarint(d).out = "ok"
               => decode_uvarint(d).n \in 1 .. Len(d) /\ decode_uvarint(d).v < U64)
<1>1. Bail \in HopRec /\ Bail.out = "bail"
  BY Zenon DEF Bail, HopRec
<1>2. ASSUME NEW n \in Ends(d), NEW v \in Nat, v < U64, decode_uvarint(d) = Ok(v, n)
      PROVE  /\ decode_uvarint(d) \in HopRec
             /\ decode_uvarint(d).n \in 1 .. Len(d) /\ decode_uvarint(d).v < U64
  <2>1. n \in 1 .. Len(d) /\ n \in Nat
    BY DEF Ends
  <2> QED BY <1>2, <2>1 DEF Ok, HopRec
<1> QED BY <1>1, <1>2, UvarintOut, Zenon

LEMMA HopType ==
    ASSUME NEW d \in Seq(Byte), NEW a \in Nat
    PROVE  Hop(d, a) \in HopRec
<1> DEFINE u == decode_uvarint(Rest(d, a))
<1>1. u \in HopRec
  BY RestSeq, UvarintRec, Zenon
<1> HIDE DEF u
<1>2. [out |-> u.out, v |-> u.v, n |-> a + u.n] \in HopRec
  BY <1>1 DEF HopRec
<1> QED BY <1>2, Zenon DEF Hop, u

LEMMA HopOk ==
    ASSUME NEW d, NEW a
    PROVE  /\ Hop(d, a).out = decode_uvarint(Rest(d, a)).out
           /\ Hop(d, a).v = decode_uvarint(Rest(d, a)).v
           /\ Hop(d, a).n = a + decode_uvarint(Rest(d, a)).n
<1> DEFINE u == decode_uvarint(Rest(d, a))
<1> HIDE DEF u
<1>2. Hop(d, a) = [out |-> u.out, v |-> u.v, n |-> a + u.n]
  BY Zenon DEF Hop, u
<1>3. Hop(d, a).out = u.out /\ Hop(d, a).v = u.v /\ Hop(d, a).n = a + u.n
  BY <1>2
<1> QED BY <1>3, Zenon DEF u

LEMMA HopsExist ==
    ASSUME NEW d \in Seq(Byte)
    PROVE  \E h : IsHops(d, h)
                  /\ decode_path(d) = IF PathEnds(h) = {} THEN Bail
                                      ELSE PathAt(h, CHOOSE i \in PathEnds(h) : TRUE)
<1> DEFINE n == PathMax + 1
           F == [i \in 1 .. n |-> [x \in HopRec |-> Hop(d, x.n)]]
           h == CHOOSE g : HopEqs(d, g)
<1>1. n \in Nat
  BY CodecAssumption
<1>2. F \in [1 .. n -> [HopRec -> HopRec]] /\ Ok(0, 0) \in HopRec
  <2>1. \A x \in HopRec : x.n \in Nat
    BY Zenon DEF HopRec
  <2>2. \A x \in HopRec : Hop(d, x.n) \in HopRec
    BY <2>1, HopType, Zenon
  <2>3. Ok(0, 0) \in HopRec
    BY Zenon DEF Ok, HopRec
  <2> QED BY <2>2, <2>3, Zenon
<1> HIDE DEF n
<1>3. PICK g \in [0 .. n -> HopRec] : g[0] = Ok(0, 0) /\ \A i \in 1 .. n : g[i] = F[i][g[i - 1]]
  <2> HIDE DEF F
  <2>2. Iteration(n, HopRec, Ok(0, 0), F)
    BY ONLY <1>1, <1>2, Iterates, Zenon
  <2> QED BY <2>2, Zenon DEF Iteration
<1>4. ASSUME NEW i \in 1 .. n PROVE g[i] = Hop(d, g[i - 1].n)
  <2>1. g[i - 1] \in HopRec
    BY <1>1
  <2> QED BY <1>3, <2>1, Zenon
<1>5. HopEqs(d, g)
  <2>1. ASSUME NEW i \in 0 .. n PROVE g[i] = IF i = 0 THEN Ok(0, 0) ELSE Hop(d, g[i - 1].n)
    BY <1>1, <1>3, <1>4
  <2>2. g = [i \in 0 .. n |-> g[i]]
    BY Zenon
  <2>3. g = [i \in 0 .. n |-> IF i = 0 THEN Ok(0, 0) ELSE Hop(d, g[i - 1].n)]
    BY <2>1, <2>2, Zenon
  <2> QED BY <2>3, Zenon DEF HopEqs, n
<1>6. HopEqs(d, h)
  BY <1>5, Zenon
<1>7. decode_path(d) = IF PathEnds(h) = {} THEN Bail
                       ELSE PathAt(h, CHOOSE i \in PathEnds(h) : TRUE)
  BY Zenon DEF decode_path, HopEqs, Hop, Rest, PathEnds, PathAt
<1> HIDE DEF h
<1>8. /\ h = [i \in 0 .. n |-> h[i]] /\ h[0] = Ok(0, 0)
      /\ \A i \in 1 .. n : h[i] = Hop(d, h[i - 1].n)
  <2>1. h = [i \in 0 .. n |-> IF i = 0 THEN Ok(0, 0) ELSE Hop(d, h[i - 1].n)]
    BY <1>6, Zenon DEF HopEqs, n
  <2>2. \A i \in 0 .. n : h[i] = IF i = 0 THEN Ok(0, 0) ELSE Hop(d, h[i - 1].n)
    BY <2>1, Zenon
  <2>3. h = [i \in 0 .. n |-> h[i]]
    BY <2>1, Zenon
  <2>4. 0 \in 0 .. n /\ \A i \in 1 .. n : i \in 0 .. n /\ i # 0
    BY ONLY <1>1
  <2> QED BY <2>2, <2>3, <2>4, Zenon
<1> DEFINE T == {k \in 0 .. n : h[k] # g[k]}
<1>9. T = {}
  <2> SUFFICES ASSUME T # {} PROVE FALSE
    BY Zenon
  <2>1. PICK k \in T : \A y \in T : k <= y
    <3>1. T \in SUBSET Nat
      BY <1>1
    <3> HIDE DEF T
    <3> QED BY <3>1, LeastNat, Zenon
  <2>2. k \in 0 .. n /\ h[k] # g[k]
    BY <2>1, Zenon
  <2>3. k # 0
    BY <1>3, <1>8, <2>2, Zenon
  <2>4. k - 1 \in 0 .. n /\ k - 1 \notin T /\ k \in 1 .. n
    <3> HIDE DEF T
    <3> QED BY <1>1, <2>1, <2>2, <2>3
  <2>5. h[k - 1] = g[k - 1]
    BY <2>4, Zenon
  <2> QED BY <1>4, <1>8, <2>2, <2>4, <2>5, Zenon
<1>10. \A i \in 0 .. n : h[i] = g[i]
  BY <1>9, Zenon
<1>11. h \in [0 .. n -> HopRec]
  BY <1>3, <1>8, <1>10, Zenon
<1>12. IsHops(d, h)
  BY <1>8, <1>11, Zenon DEF IsHops, n
<1> QED BY <1>7, <1>12, Zenon

\* decode_path ends at the first zero.
LEMMA PathFirst ==
    ASSUME NEW d \in Seq(Byte), NEW h, IsHops(d, h), NEW n \in PathEnds(h),
           decode_path(d) = IF PathEnds(h) = {} THEN Bail
                            ELSE PathAt(h, CHOOSE i \in PathEnds(h) : TRUE)
    PROVE  decode_path(d) = PathAt(h, n)
<1> DEFINE c == CHOOSE i \in PathEnds(h) : TRUE
<1>1. c \in PathEnds(h) /\ decode_path(d) = PathAt(h, c)
  <2>1. PathEnds(h) # {} /\ c \in PathEnds(h)
    BY Zenon
  <2> HIDE DEF c
  <2> USE DEF c
  <2> QED BY <2>1, Zenon
<1> HIDE DEF c
<1>2. PathMax + 1 \in Nat
  BY CodecAssumption
<1>3. c = n
  <2>1. /\ c \in 1 .. (PathMax + 1) /\ \A j \in 1 .. c : h[j].v = 0 <=> j = c
        /\ n \in 1 .. (PathMax + 1) /\ \A j \in 1 .. n : h[j].v = 0 <=> j = n
    BY <1>1, Zenon DEF PathEnds
  <2>2. c < n => FALSE
    <3>1. c < n => c \in 1 .. n /\ c \in 1 .. c
      BY <1>2, <2>1
    <3> QED BY <1>2, <2>1, <3>1
  <2>3. n < c => FALSE
    <3>1. n < c => n \in 1 .. c /\ n \in 1 .. n
      BY <1>2, <2>1
    <3> QED BY <1>2, <2>1, <3>1
  <2> QED BY <1>2, <2>1, <2>2, <2>3
<1> QED BY <1>1, <1>3, Zenon

\* While the varints of d are complete, more bytes behind them change nothing.
LEMMA HopsAgree ==
    ASSUME NEW d \in Seq(Byte), NEW e \in Seq(Byte), Begins(d, e),
           NEW h, IsHops(d, h), NEW g, IsHops(e, g),
           NEW n \in 0 .. (PathMax + 1), \A j \in 1 .. n : h[j].out = "ok", NEW k \in 0 .. n
    PROVE  h[k] = g[k] /\ h[k].n <= Len(d)
<1>1. PathMax + 1 \in Nat /\ n \in Nat /\ Len(d) \in Nat
  BY CodecAssumption
<1> DEFINE T == {x \in 0 .. n : ~(h[x] = g[x] /\ h[x].n <= Len(d))}
<1>2. T = {}
  <2> SUFFICES ASSUME T # {} PROVE FALSE
    BY Zenon
  <2>1. PICK x \in T : \A y \in T : x <= y
    <3>1. T \in SUBSET Nat
      BY <1>1
    <3> HIDE DEF T
    <3> QED BY <3>1, LeastNat, Zenon
  <2>2. x \in 0 .. n /\ ~(h[x] = g[x] /\ h[x].n <= Len(d))
    BY <2>1, Zenon
  <2>3. x # 0
    BY <1>1, <2>2 DEF IsHops, Ok
  <2>4. x - 1 \in 0 .. n /\ x - 1 \notin T /\ x \in 1 .. (PathMax + 1) /\ x \in 1 .. n
        /\ x - 1 \in 0 .. (PathMax + 1)
    <3> HIDE DEF T
    <3> QED BY <1>1, <2>1, <2>2, <2>3
  <2>5. h[x - 1] = g[x - 1] /\ h[x - 1].n <= Len(d)
    BY <2>4, Zenon
  <2> DEFINE a == h[x - 1].n
             y == Rest(d, a)
             z == Rest(e, a)
  <2>6. a \in Nat /\ a <= Len(d)
    BY <2>4, <2>5, Zenon DEF IsHops, HopRec
  <2>7. h[x] = Hop(d, a) /\ g[x] = Hop(e, a) /\ h[x].out = "ok"
    BY <2>4, <2>5, Zenon DEF IsHops
  <2> HIDE DEF a, T
  <2>8. /\ y \in Seq(Byte) /\ z \in Seq(Byte) /\ Begins(y, z) /\ Len(y) = Len(d) - a
    <3>1. d \in Seq(Byte) /\ e \in Seq(Byte) /\ Begins(d, e)
      BY Zenon
    <3> QED BY ONLY <2>6, <3>1, RestFacts, Zenon
  <2>9. h[x] = [out |-> decode_uvarint(y).out, v |-> decode_uvarint(y).v, n |-> a + decode_uvarint(y).n]
        /\ g[x] = [out |-> decode_uvarint(z).out, v |-> decode_uvarint(z).v, n |-> a + decode_uvarint(z).n]
    BY <2>7, Zenon DEF Hop
  <2> HIDE DEF y, z
  <2>10. decode_uvarint(y).out = "ok"
    BY <2>7, <2>9
  <2>11. decode_uvarint(z) = decode_uvarint(y) /\ decode_uvarint(y).n \in 1 .. Len(y)
    BY <2>8, <2>10, UvarintExtends, UvarintRec, Zenon
  <2>12. h[x] = g[x]
    BY <2>9, <2>11, Zenon
  <2>13. h[x].n = a + decode_uvarint(y).n
    BY <2>9
  <2>14. h[x].n <= Len(d)
    BY <1>1, <2>6, <2>8, <2>11, <2>13
  <2> QED BY <2>2, <2>12, <2>14, Zenon
<1> QED BY <1>2, Zenon

\* What decode_path can return.
LEMMA PathOut ==
    ASSUME NEW d \in Seq(Byte)
    PROVE  \/ decode_path(d) = Bail
           \/ decode_path(d).out = "ok" /\ decode_path(d).n \in 0 .. Len(d)
<1>1. PICK h : IsHops(d, h)
               /\ decode_path(d) = IF PathEnds(h) = {} THEN Bail
                                   ELSE PathAt(h, CHOOSE i \in PathEnds(h) : TRUE)
  BY HopsExist, Zenon
<1>2. CASE PathEnds(h) = {}
  BY <1>1, <1>2, Zenon
<1>3. CASE PathEnds(h) # {}
  <2>1. PICK n \in PathEnds(h) : TRUE
    BY <1>3, Zenon
  <2>2. decode_path(d) = PathAt(h, n)
    BY <1>1, PathFirst, Zenon
  <2>3. n \in 0 .. (PathMax + 1) /\ n \in 0 .. n /\ \A j \in 1 .. n : h[j].out = "ok"
    BY CodecAssumption DEF PathEnds
  <2>4. Begins(d, d) /\ Len(d) \in Nat
    BY DEF Begins
  <2>5. h[n].n <= Len(d)
    BY <1>1, <2>3, <2>4, HopsAgree, Zenon
  <2>6. h[n].n \in Nat
    BY <1>1, <2>3, Zenon DEF IsHops, HopRec
  <2>7. decode_path(d).out = "ok" /\ decode_path(d).n = h[n].n
    BY <2>2 DEF PathAt, Ok
  <2> QED BY <2>4, <2>5, <2>6, <2>7
<1> QED BY <1>2, <1>3, Zenon

\* decode_path does not look behind the zero.
LEMMA PathExtends ==
    ASSUME NEW d \in Seq(Byte), NEW e \in Seq(Byte), Begins(d, e), decode_path(d).out = "ok"
    PROVE  decode_path(e) = decode_path(d)
<1>1. PICK h : IsHops(d, h)
               /\ decode_path(d) = IF PathEnds(h) = {} THEN Bail
                                   ELSE PathAt(h, CHOOSE i \in PathEnds(h) : TRUE)
  BY HopsExist, Zenon
<1>2. PICK g : IsHops(e, g)
               /\ decode_path(e) = IF PathEnds(g) = {} THEN Bail
                                   ELSE PathAt(g, CHOOSE i \in PathEnds(g) : TRUE)
  BY HopsExist, Zenon
<1>3. PICK n \in PathEnds(h) : TRUE
  BY <1>1 DEF Bail
<1>4. PathMax + 1 \in Nat /\ n \in 1 .. (PathMax + 1)
      /\ \A j \in 1 .. n : h[j].out = "ok" /\ (h[j].v = 0 <=> j = n)
  BY <1>3, CodecAssumption DEF PathEnds
<1>5. ASSUME NEW j \in 0 .. n PROVE h[j] = g[j]
  <2>1. n \in 0 .. (PathMax + 1) /\ \A i \in 1 .. n : h[i].out = "ok"
    BY <1>4
  <2> QED BY <1>1, <1>2, <2>1, HopsAgree
<1>6. \A j \in 1 .. n : h[j] = g[j]
  BY <1>4, <1>5
<1>7. n \in PathEnds(g)
  BY <1>4, <1>6, Zenon DEF PathEnds
<1>8. decode_path(d) = PathAt(h, n) /\ decode_path(e) = PathAt(g, n)
  BY <1>1, <1>2, <1>3, <1>7, PathFirst, Zenon
<1>9. PathAt(h, n) = PathAt(g, n)
  <2>1. n \in 1 .. n /\ \A j \in 1 .. (n - 1) : j \in 1 .. n
    BY <1>4
  <2>2. h[n] = g[n] /\ \A j \in 1 .. (n - 1) : h[j].v - 1 = g[j].v - 1
    BY <1>6, <2>1, Zenon
  <2>3. [j \in 1 .. (n - 1) |-> h[j].v - 1] = [j \in 1 .. (n - 1) |-> g[j].v - 1]
    BY <2>2, Zenon
  <2> QED BY <2>2, <2>3, Zenon DEF PathAt
<1> QED BY <1>8, <1>9, Zenon


LEMMA ZeroByte == encode_uvarint(0) = <<Digit(0)>>
<1>1. digits(0) = 1
  BY DigitCount
<1>2. digit(RADIX, 0, 1) = 0
  <2>1. pow(RADIX, 0) = 1 /\ RADIX \in Nat /\ RADIX # 0
    <3>1. RADIX \in Nat /\ RADIX # 0
      BY Radices
    <3> QED BY <3>1, PowFacts, Zenon
  <2>2. 0 \div 1 = 0
    BY DivUnique
  <2>3. 0 % RADIX = 0
    BY <2>1, ModSmall
  <2> QED BY <2>1, <2>2, <2>3 DEF digit
<1>3. encode_uvarint(0) = [i \in 1 .. 1 |-> Digit((IF i < 1 THEN RADIX ELSE 0) + digit(RADIX, 0, i))]
  BY <1>1, Zenon DEF encode_uvarint
<1>4. \A i \in 1 .. 1 : (IF i < 1 THEN RADIX ELSE 0) + digit(RADIX, 0, i) = 0
  BY <1>2
<1>5. encode_uvarint(0) = [i \in 1 .. 1 |-> Digit(0)]
  BY <1>3, <1>4, Zenon
<1> QED BY <1>5

\* The hops that encode_path can write and decode_path read back.
GoodPath(p) == p \in Seq(Nat) /\ Len(p) <= PathMax /\ \A i \in DOMAIN p : p[i] + 1 < U64

\* Whatever follows the path, decode_path gives it back.
LEMMA PathRoundTrip ==
    ASSUME NEW p, GoodPath(p), NEW z \in Seq(Byte)
    PROVE  /\ encode_path(p) \in Seq(Byte) /\ Len(encode_path(p)) >= 1
           /\ decode_path(encode_path(p) \o z) = Ok(p, Len(encode_path(p)))
<1> DEFINE ss == [i \in DOMAIN p |-> encode_uvarint((p[i] + 1) % U64)]
           E  == Joined(ss)
           y  == <<Digit(0)>> \o z
           d  == E \o y
<1>1. p \in Seq(Nat) /\ Len(p) \in Nat /\ DOMAIN p = 1 .. Len(p) /\ Len(p) <= PathMax
      /\ \A i \in 1 .. Len(p) : p[i] \in Nat /\ p[i] + 1 < U64
  BY DEF GoodPath
<1>2. ASSUME NEW i \in 1 .. Len(p)
      PROVE  /\ ss[i] = encode_uvarint(p[i] + 1) /\ ss[i] \in Seq(Byte)
             /\ \A x \in Seq(Byte) : decode_uvarint(ss[i] \o x) = Ok(p[i] + 1, Len(ss[i]))
  <2>1. p[i] + 1 \in Nat /\ p[i] + 1 < U64 /\ U64 \in Nat
    BY <1>1, Radices
  <2>2. (p[i] + 1) % U64 = p[i] + 1
    BY <2>1, ModSmall, Zenon
  <2>3. ss[i] = encode_uvarint(p[i] + 1)
    BY <1>1, <2>2, Zenon
  <2> HIDE DEF ss
  <2>4. ss[i] \in Seq(Byte)
    BY <2>1, <2>3, UvarintBytes, Zenon
  <2> QED BY <2>1, <2>3, <2>4, UvarintRoundTrip, Zenon
<1>3. ss \in Seq(Seq(Byte)) /\ Len(ss) = Len(p)
  <2>1. ss = [i \in 1 .. Len(p) |-> ss[i]]
    BY <1>1, Zenon
  <2> HIDE DEF ss
  <2> QED BY <1>1, <1>2, <2>1
<1> HIDE DEF ss
<1>4. Digit(0) \in Byte /\ <<Digit(0)>> \in Seq(Byte) /\ Len(<<Digit(0)>>) = 1 /\ y \in Seq(Byte)
  BY ByteFacts
<1>5. E \in Seq(Byte) /\ \E c : Parts(Byte, ss, c, E \o y) /\ c[Len(ss)] = E
  BY <1>3, <1>4, JoinedParts, Zenon
<1>6. PICK c : Parts(Byte, ss, c, d) /\ c[Len(ss)] = E
  BY <1>5, Zenon
<1>7. encode_path(p) = E \o <<Digit(0)>>
  BY Zenon DEF encode_path, ss
<1> HIDE DEF E
<1>8. /\ encode_path(p) \in Seq(Byte) /\ Len(encode_path(p)) = Len(E) + 1 /\ Len(E) \in Nat
      /\ encode_path(p) \o z = d /\ d \in Seq(Byte)
  <2>1. encode_path(p) \in Seq(Byte) /\ Len(encode_path(p)) = Len(E) + 1 /\ d \in Seq(Byte)
    BY <1>4, <1>5, <1>7, JoinFacts
  <2>2. (E \o <<Digit(0)>>) \o z = E \o (<<Digit(0)>> \o z)
    <3> DEFINE w == <<Digit(0)>>
    <3>1. w \in Seq(Byte)
      BY <1>4, Zenon
    <3> HIDE DEF w
    <3>2. (E \o w) \o z = E \o (w \o z)
      BY <1>5, <3>1, JoinAssoc
    <3> QED BY <3>2, Zenon DEF w
  <2> QED BY <1>5, <1>7, <2>1, <2>2
<1> HIDE DEF d, y
<1>9. PICK h : IsHops(d, h)
               /\ decode_path(d) = IF PathEnds(h) = {} THEN Bail
                                   ELSE PathAt(h, CHOOSE i \in PathEnds(h) : TRUE)
  BY <1>8, HopsExist, Zenon
<1>10. PathMax + 1 \in Nat /\ Len(p) + 1 \in 1 .. (PathMax + 1)
  BY <1>1, CodecAssumption
<1>11. /\ h[0] = Ok(0, 0) /\ c[0] = <<>> /\ \A i \in 1 .. (PathMax + 1) : h[i] = Hop(d, h[i - 1].n)
  BY <1>6, <1>9, Zenon DEF IsHops, Parts
<1> DEFINE T == {k \in 0 .. Len(p) : ~(h[k].n = Len(c[k]) /\ (k # 0 => h[k].out = "ok" /\ h[k].v = p[k] + 1))}
<1>12. T = {}
  <2> SUFFICES ASSUME T # {} PROVE FALSE
    BY Zenon
  <2>1. PICK k \in T : \A x \in T : k <= x
    <3>1. T \in SUBSET Nat
      BY <1>1
    <3> HIDE DEF T
    <3> QED BY <3>1, LeastNat, Zenon
  <2>2. k \in 0 .. Len(p) /\ ~(h[k].n = Len(c[k]) /\ (k # 0 => h[k].out = "ok" /\ h[k].v = p[k] + 1))
    BY <2>1, Zenon
  <2>3. k # 0
    BY <1>11, <2>2 DEF Ok
  <2>4. k - 1 \in 0 .. Len(p) /\ k - 1 \notin T /\ k \in 1 .. (PathMax + 1) /\ k \in 1 .. Len(p)
    <3> HIDE DEF T
    <3> QED BY <1>1, <1>10, <2>1, <2>2, <2>3
  <2>5. h[k - 1].n = Len(c[k - 1])
    BY <2>4, Zenon
  <2> HIDE DEF T
  <2> DEFINE x == Rest(d, Len(c[k]))
  <2>6. /\ x \in Seq(Byte) /\ Len(c[k - 1]) \in Nat /\ Len(c[k]) = Len(c[k - 1]) + Len(ss[k])
        /\ Rest(d, Len(c[k - 1])) = ss[k] \o x
    <3>1. k \in 1 .. Len(ss)
      BY <1>3, <2>4, Zenon
    <3>2. ss \in Seq(Seq(Byte)) /\ d \in Seq(Byte) /\ Parts(Byte, ss, c, d)
      BY <1>3, <1>6, <1>8, Zenon
    <3> HIDE DEF x
    <3>3. PartAt(ss, c, d, k)
      BY ONLY <3>1, <3>2, PartRead, Zenon
    <3> QED BY ONLY <3>3, Zenon DEF x, PartAt
  <2>7. decode_uvarint(Rest(d, Len(c[k - 1]))) = Ok(p[k] + 1, Len(ss[k]))
    BY <1>2, <2>4, <2>6, Zenon
  <2>8. h[k] = Hop(d, Len(c[k - 1]))
    BY <1>11, <2>4, <2>5, Zenon
  <2>9. h[k].out = "ok" /\ h[k].v = p[k] + 1 /\ h[k].n = Len(c[k - 1]) + Len(ss[k])
    <3> DEFINE a == Len(c[k - 1])
               u == decode_uvarint(Rest(d, a))
    <3>1. u.out = "ok" /\ u.v = p[k] + 1 /\ u.n = Len(ss[k])
      BY ONLY <2>7 DEF Ok
    <3> HIDE DEF a
    <3>2. Hop(d, a).out = u.out /\ Hop(d, a).v = u.v /\ Hop(d, a).n = a + u.n
      BY ONLY HopOk, Zenon
    <3>3. h[k] = Hop(d, a)
      BY ONLY <2>8, Zenon DEF a
    <3> HIDE DEF u
    <3>4. h[k].out = "ok" /\ h[k].v = p[k] + 1 /\ h[k].n = a + Len(ss[k])
      BY ONLY <3>1, <3>2, <3>3, Zenon
    <3> QED BY ONLY <3>4, Zenon DEF a
  <2> QED BY <2>2, <2>6, <2>9, Zenon
<1> DEFINE n == Len(p) + 1
<1>13. h[Len(p)].n = Len(E) /\ \A j \in 1 .. Len(p) : h[j].out = "ok" /\ h[j].v = p[j] + 1
  <2>1. Len(p) \in 0 .. Len(p) /\ \A j \in 1 .. Len(p) : j \in 0 .. Len(p) /\ j # 0
    BY <1>1
  <2> QED BY <1>3, <1>6, <1>12, <2>1, Zenon
<1>14. h[n].out = "ok" /\ h[n].v = 0 /\ h[n].n = Len(E) + 1
  <2>1. Rest(d, Len(E)) = y
    BY <1>4, <1>5, BackPart, Zenon DEF d, Rest
  <2>2. decode_uvarint(y) = Ok(0, 1)
    <3>1. decode_uvarint(encode_uvarint(0) \o z) = Ok(0, Len(encode_uvarint(0)))
      BY Radices, UvarintRoundTrip
    <3> QED BY <1>4, <3>1, ZeroByte, Zenon DEF y
  <2>3. h[n] = Hop(d, Len(E))
    <3>1. n \in 1 .. (PathMax + 1) /\ n - 1 = Len(p)
      BY <1>1, <1>10
    <3> QED BY <1>11, <1>13, <3>1, Zenon
  <2> QED BY <2>1, <2>2, <2>3, HopOk DEF Ok
<1>15. n \in PathEnds(h)
  <2>1. ASSUME NEW j \in 1 .. n PROVE h[j].out = "ok" /\ (h[j].v = 0 <=> j = n)
    <3>1. CASE j = n
      BY <1>14, <3>1, Zenon
    <3>2. CASE j # n
      <4>1. j \in 1 .. Len(p)
        BY <1>1, <3>2
      <4> QED BY <1>1, <1>13, <3>2, <4>1
    <3> QED BY <3>1, <3>2, Zenon
  <2> QED BY <1>10, <2>1, Zenon DEF PathEnds
<1>16. decode_path(d) = PathAt(h, n)
  BY <1>8, <1>9, <1>15, PathFirst, Zenon
<1>17. PathAt(h, n) = Ok(p, Len(E) + 1)
  <2>1. n - 1 = Len(p)
    BY <1>1
  <2>2. \A j \in 1 .. Len(p) : h[j].v - 1 = p[j]
    BY <1>1, <1>13
  <2>3. [j \in 1 .. Len(p) |-> h[j].v - 1] = [j \in 1 .. Len(p) |-> p[j]]
    BY <2>2, Zenon
  <2>4. [j \in 1 .. Len(p) |-> p[j]] = p
    BY <1>1
  <2> QED BY <1>14, <2>1, <2>3, <2>4, Zenon DEF PathAt
<1> QED BY <1>8, <1>16, <1>17
-----------------------------------------------------------------------------
(* One field.                                                              *)

Ints   == {"u8", "u16", "u32", "u64"}
Blobs  == {"key", "sig", "tag", "coord", "header", "filter", "kem", "ct", "dsa", "dsasig"}
Fixed  == Ints \cup Blobs
FieldKind == Fixed \cup {"uv", "depth", "path", "opt", "str", "vec"}
ReadKind  == FieldKind \cup {"cell", "v5"}

\* The values a field of kind k can carry.
Good(k, v) ==
    /\ k \in Ints => v \in Nat /\ v < pow(BASE, Width[k])
    /\ k \in Blobs => v \in Seq(Byte) /\ Len(v) = Width[k]
    /\ k = "uv" => v \in Nat /\ v < U64
    /\ k = "depth" => v \in Nat /\ v < U32
    /\ k = "path" => GoodPath(v)
    /\ k = "opt" => v = <<>> \/ (v \in Seq(Byte) /\ Len(v) = Width["coord"])
    /\ k = "str" => v \in Seq(Byte)
    /\ k = "vec" => v \in Seq(Byte) /\ Len(v) < U64

\* What the decoder gives back of v, and the reads that do.
Seen(k, v) == IF k = "str" THEN Clamp(v) ELSE v
Reads(kk, k, v) == \/ kk = k /\ (k = "str" => Utf8(Clamp(v)))
                   \/ kk = "v5" /\ k = "u8" /\ v = COORD_FORMAT_V5
                   \/ kk = "cell" /\ k = "vec" /\ Len(v) <= CellSize

\* The fewest bytes a field takes.
Least(k) == IF k \in Fixed THEN Width[k] ELSE 1

LEMMA Widths ==
    /\ \A k \in Fixed : Width[k] \in Nat
    /\ Width["u8"] = 1 /\ Width["sig"] \in Nat /\ Width["coord"] \in Nat
BY CodecAssumption, Zenon DEF Fixed, Ints, Blobs

LEMMA PutForms ==
    /\ \A k \in Ints : \A v : Put(k, v) = le(Width[k], v)
    /\ \A k \in Blobs : \A v : Put(k, v) = v
    /\ \A v : /\ Put("uv", v) = encode_uvarint(v) /\ Put("depth", v) = encode_uvarint(v)
              /\ Put("path", v) = encode_path(v)
              /\ Put("opt", v) = IF v = <<>> THEN <<Digit(0)>> ELSE <<Digit(1)>> \o v
              /\ Put("str", v) = <<Digit(Len(Clamp(v)))>> \o Clamp(v)
              /\ Put("vec", v) = encode_uvarint(Len(v)) \o v
BY Zenon DEF Put, Ints, Blobs

LEMMA GetForms ==
    ASSUME NEW d
    PROVE  /\ \A k \in Ints : Get(k, d) = IF Len(d) < Width[k] THEN Panic
                                          ELSE Ok(fromLe(SubSeq(d, 1, Width[k])), Width[k])
           /\ \A k \in Blobs : Get(k, d) = IF Len(d) < Width[k] THEN Panic
                                           ELSE Ok(SubSeq(d, 1, Width[k]), Width[k])
           /\ Get("uv", d) = decode_uvarint(d)
           /\ Get("path", d) = decode_path(d)
BY Zenon DEF Get, Ints, Blobs

LEMMA GetOther ==
    ASSUME NEW d
    PROVE  /\ Get("depth", d) = IF d = <<>> THEN Ok(0, 0)
                                ELSE IF decode_uvarint(d).out = "ok"
                                THEN Ok(decode_uvarint(d).v % U32, decode_uvarint(d).n)
                                ELSE decode_uvarint(d)
           /\ Get("opt", d) = IF d = <<>> THEN Bail ELSE IF Value(d[1]) = 0 THEN Ok(<<>>, 1)
                              ELSE IF Len(d) < 1 + Width["coord"] THEN Bail
                              ELSE Ok(SubSeq(d, 2, 1 + Width["coord"]), 1 + Width["coord"])
           /\ Get("str", d) = IF d = <<>> THEN Panic
                              ELSE IF Len(d) < (1 + Value(d[1])) + Width["sig"] THEN Bail
                              ELSE IF ~Utf8(SubSeq(d, 2, 1 + Value(d[1]))) THEN Bail
                              ELSE Ok(SubSeq(d, 2, 1 + Value(d[1])), 1 + Value(d[1]))
           /\ Get("v5", d) = IF d = <<>> THEN Panic
                             ELSE IF Value(d[1]) # COORD_FORMAT_V5 THEN Bail ELSE Ok(COORD_FORMAT_V5, 1)
BY Zenon DEF Get

LEMMA GetCounted ==
    ASSUME NEW d, NEW k \in {"vec", "cell"}
    PROVE  LET u == decode_uvarint(d) IN
           Get(k, d) = IF u.out # "ok" THEN u
                       ELSE IF (k = "cell" /\ u.v > CellSize) \/ Len(d) < u.n + u.v THEN Bail
                       ELSE Ok(SubSeq(d, u.n + 1, u.n + u.v), u.n + u.v)
BY Zenon DEF Get

\* The bytes a read takes for granted, and how many it leaves of the a that were checked.
Needs(k) == IF k \in Fixed THEN Width[k] ELSE IF k \in {"str", "v5"} THEN 1 ELSE 0
Left(k, a) == IF k \in Fixed THEN a - Width[k] ELSE IF k = "str" THEN Width["sig"]
              ELSE IF k = "v5" THEN a - 1 ELSE 0

ReadOut(k, d, a) ==
    /\ Get(k, d).out \in {"ok", "bail", "panic"}
    /\ Needs(k) <= Len(d) => Get(k, d).out # "panic"
    /\ Get(k, d).out = "ok" => Get(k, d).n \in 0 .. Len(d) /\ Len(d) - Get(k, d).n >= Left(k, a)

\* A read stays in the buffer, and panics only where a check is missing.
LEMMA GetOut ==
    ASSUME NEW k \in ReadKind, NEW d \in Seq(Byte), NEW a \in Nat, a <= Len(d)
    PROVE  ReadOut(k, d, a)
<1> DEFINE u == decode_uvarint(d)
<1>1. Len(d) \in Nat /\ (d # <<>> => Len(d) >= 1 /\ Value(d[1]) \in Nat)
  <2>1. d # <<>> => d[1] \in Byte /\ Len(d) >= 1
    OBVIOUS
  <2> QED BY <2>1, ByteFacts
<1>2. u.out \in {"ok", "bail"} /\ u.v \in Nat /\ u.n \in Nat /\ (u.out = "ok" => u.n <= Len(d))
  <2>1. u \in HopRec /\ (u.out = "ok" => u.n \in 1 .. Len(d))
    BY UvarintRec, Zenon
  <2> HIDE DEF u
  <2> QED BY <1>1, <2>1 DEF HopRec
<1> HIDE DEF u
<1> USE DEF ReadOut, Needs, Left, Ok, Bail, Panic, Fixed, Ints, Blobs
<1>3. CASE k \in Fixed
  <2>1. \/ Get(k, d) = Panic /\ Len(d) < Width[k]
        \/ \E v : Get(k, d) = Ok(v, Width[k]) /\ ~(Len(d) < Width[k])
    BY <1>3, GetForms, Zenon
  <2>2. Width[k] \in Nat
    BY <1>3, Widths, Zenon
  <2>3. CASE Get(k, d) = Panic /\ Len(d) < Width[k]
    BY <1>1, <1>3, <2>2, <2>3
  <2>4. CASE \E v : Get(k, d) = Ok(v, Width[k]) /\ ~(Len(d) < Width[k])
    BY <1>1, <1>3, <2>2, <2>4
  <2> QED BY <2>1, <2>3, <2>4, Zenon
<1>4. CASE k = "uv"
  BY <1>1, <1>2, <1>4, GetForms DEF u
<1>5. CASE k = "path"
  BY <1>1, <1>5, GetForms, PathOut
<1>6. CASE k = "depth"
  <2>1. Get(k, d) = IF d = <<>> THEN Ok(0, 0) ELSE IF u.out = "ok" THEN Ok(u.v % U32, u.n) ELSE u
    BY <1>6, GetOther, Zenon DEF u
  <2> QED BY <1>1, <1>2, <1>6, <2>1
<1>7. CASE k = "opt"
  <2>1. \/ Get(k, d) = Bail
        \/ \E v : Get(k, d) = Ok(v, 1) /\ d # <<>>
        \/ \E v : Get(k, d) = Ok(v, 1 + Width["coord"]) /\ ~(Len(d) < 1 + Width["coord"])
    BY <1>7, GetOther, Zenon
  <2> DEFINE w == Width["coord"]
  <2>2. w \in Nat
    BY Widths, Zenon
  <2> HIDE DEF w
  <2>3. \/ Get(k, d) = Bail
        \/ \E v : Get(k, d) = Ok(v, 1) /\ d # <<>>
        \/ \E v : Get(k, d) = Ok(v, 1 + w) /\ ~(Len(d) < 1 + w)
    BY <2>1, Zenon DEF w
  <2>4. Needs(k) = 0 /\ Left(k, a) = 0
    BY <1>7, Zenon
  <2>5. \/ Get(k, d) = Bail
        \/ \E v, n : Get(k, d) = Ok(v, n) /\ n \in 0 .. Len(d)
    BY <1>1, <2>2, <2>3
  <2> QED BY ONLY <1>1, <2>4, <2>5 DEF ReadOut, Ok, Bail
<1>8. CASE k = "str"
  <2>1. \/ Get(k, d) = Panic /\ d = <<>>
        \/ d # <<>> /\ Get(k, d) = Bail
        \/ d # <<>> /\ \E v : Get(k, d) = Ok(v, 1 + Value(d[1])) /\ ~(Len(d) < (1 + Value(d[1])) + Width["sig"])
    BY <1>8, GetOther, Zenon
  <2> DEFINE n == 1 + Value(d[1])
             w == Width["sig"]
  <2>2. w \in Nat /\ (d # <<>> => n \in Nat)
    BY <1>1, Widths
  <2>3. Needs(k) = 1 /\ Left(k, a) = w
    BY <1>8, Zenon
  <2> HIDE DEF w, n
  <2>4. \/ Get(k, d) = Panic /\ d = <<>>
        \/ Get(k, d) = Bail
        \/ d # <<>> /\ \E v : Get(k, d) = Ok(v, n) /\ ~(Len(d) < n + w)
    BY ONLY <2>1, Zenon DEF n, w
  <2>5. \/ Get(k, d) = Panic /\ ~(1 <= Len(d))
        \/ Get(k, d) = Bail
        \/ \E v : Get(k, d) = Ok(v, n) /\ n \in 0 .. Len(d) /\ Len(d) - n >= w
    BY <1>1, <2>2, <2>4
  <2> QED BY ONLY <1>1, <2>3, <2>5 DEF ReadOut, Ok, Bail, Panic
<1>9. CASE k = "v5"
  <2>1. \/ Get(k, d) = Panic /\ d = <<>>
        \/ d # <<>> /\ Get(k, d) = Bail
        \/ d # <<>> /\ \E v : Get(k, d) = Ok(v, 1)
    BY <1>9, GetOther, Zenon
  <2> QED BY <1>1, <1>9, <2>1
<1>10. CASE k \in {"vec", "cell"}
  <2>1. \/ Get(k, d) = u /\ u.out # "ok"
        \/ Get(k, d) = Bail
        \/ \E v : Get(k, d) = Ok(v, u.n + u.v) /\ ~(Len(d) < u.n + u.v)
    BY <1>10, GetCounted, Zenon DEF u
  <2> QED BY <1>1, <1>2, <1>10, <2>1
<1> QED BY <1>3, <1>4, <1>5, <1>6, <1>7, <1>8, <1>9, <1>10, Zenon DEF ReadKind, FieldKind

LEMMA BeginsSame ==
    ASSUME NEW d \in Seq(Byte), NEW e \in Seq(Byte), Begins(d, e)
    PROVE  /\ Len(d) \in Nat /\ Len(e) \in Nat /\ Len(d) <= Len(e)
           /\ d # <<>> => e # <<>> /\ e[1] = d[1] /\ d[1] \in Byte /\ Len(d) >= 1
BY DEF Begins

\* A read that succeeds gives the same with more bytes behind it, except that an absent depth
\* reads as 0.
LEMMA GetExtends ==
    ASSUME NEW k \in ReadKind, NEW d \in Seq(Byte), NEW e \in Seq(Byte), Begins(d, e),
           Get(k, d).out = "ok", k = "depth" => d # <<>>
    PROVE  Get(k, e) = Get(k, d)
<1> DEFINE u == decode_uvarint(d)
<1>1. Len(d) \in Nat /\ Len(e) \in Nat /\ Len(d) <= Len(e)
      /\ (d # <<>> => e # <<>> /\ e[1] = d[1] /\ Value(d[1]) \in Nat)
  BY BeginsSame, ByteFacts, Zenon
<1>2. u.out = "ok" => decode_uvarint(e) = u
  BY UvarintExtends, Zenon
<1>3. ASSUME NEW n \in Nat, n <= Len(d) PROVE SubSeq(d, 1, n) = SubSeq(e, 1, n)
  BY <1>3, BeginsFront, Zenon
<1>4. ASSUME NEW a \in Nat, NEW n \in Nat, a <= n, n <= Len(d)
      PROVE  SubSeq(d, a + 1, n) = SubSeq(e, a + 1, n)
  BY <1>4, BeginsSlice, Zenon
<1>5. Panic.out # "ok" /\ Bail.out # "ok"
  BY Zenon DEF Panic, Bail
<1> HIDE DEF u
<1>6. CASE k \in Fixed
  <2>1. Width[k] \in Nat
    BY <1>6, Widths, Zenon
  <2>2. ~(Len(d) < Width[k])
    BY <1>5, <1>6, GetForms, Zenon DEF Fixed
  <2>3. ~(Len(e) < Width[k]) /\ SubSeq(d, 1, Width[k]) = SubSeq(e, 1, Width[k])
    <3> DEFINE n == Width[k]
    <3> HIDE DEF n
    <3>1. n \in Nat /\ n <= Len(d) /\ ~(Len(e) < n)
      BY <1>1, <2>1, <2>2 DEF n
    <3>2. SubSeq(d, 1, n) = SubSeq(e, 1, n)
      BY ONLY <1>3, <3>1, Zenon
    <3> QED BY <3>1, <3>2, Zenon DEF n
  <2> QED BY <1>6, <2>2, <2>3, GetForms, Zenon DEF Fixed
<1>7. CASE k = "uv"
  BY <1>2, <1>7, GetForms, Zenon DEF u
<1>8. CASE k = "path"
  BY <1>8, GetForms, PathExtends, Zenon
<1>9. CASE k = "depth"
  <2>1. Get(k, d) = IF u.out = "ok" THEN Ok(u.v % U32, u.n) ELSE u
    BY <1>9, GetOther, Zenon DEF u
  <2>2. u.out = "ok"
    BY <2>1, Zenon
  <2> QED BY <1>1, <1>2, <1>9, <2>1, <2>2, GetOther, Zenon
<1>10. CASE k = "opt"
  <2>1. d # <<>>
    BY <1>5, <1>10, GetOther, Zenon
  <2>2. CASE Value(d[1]) = 0
    BY <1>1, <1>10, <2>1, <2>2, GetOther, Zenon
  <2>3. CASE Value(d[1]) # 0
    <3> DEFINE n == 1 + Width["coord"]
    <3>1. n \in Nat /\ 1 <= n
      BY Widths
    <3>2. ~(Len(d) < n)
      BY <1>5, <1>10, <2>1, <2>3, GetOther, Zenon
    <3>3. SubSeq(d, 2, n) = SubSeq(e, 2, n) /\ ~(Len(e) < n)
      <4> HIDE DEF n
      <4>1. SubSeq(d, 1 + 1, n) = SubSeq(e, 1 + 1, n)
        BY <1>1, <1>4, <3>1, <3>2
      <4>2. 1 + 1 = 2
        OBVIOUS
      <4> QED BY <1>1, <3>1, <3>2, <4>1, <4>2
    <3> QED BY <1>1, <1>10, <2>1, <2>3, <3>2, <3>3, GetOther, Zenon
  <2> QED BY <2>2, <2>3, Zenon
<1>11. CASE k = "str"
  <2>1. d # <<>>
    BY <1>5, <1>11, GetOther, Zenon
  <2> DEFINE n == 1 + Value(d[1])
  <2>2. n \in Nat /\ 1 <= n /\ Width["sig"] \in Nat
    BY <1>1, <2>1, Widths
  <2>3. ~(Len(d) < n + Width["sig"]) /\ Utf8(SubSeq(d, 2, n))
    BY <1>5, <1>11, <2>1, GetOther, Zenon
  <2>4. SubSeq(d, 2, n) = SubSeq(e, 2, n) /\ ~(Len(e) < n + Width["sig"])
    <3> HIDE DEF n
    <3>1. SubSeq(d, 1 + 1, n) = SubSeq(e, 1 + 1, n)
      <4>1. 1 \in Nat /\ n \in Nat /\ 1 <= n /\ n <= Len(d)
        BY <1>1, <2>2, <2>3
      <4> QED BY ONLY <1>4, <4>1, Zenon
    <3>2. 1 + 1 = 2
      OBVIOUS
    <3> QED BY <1>1, <2>2, <2>3, <3>1, <3>2
  <2> QED BY <1>1, <1>11, <2>1, <2>3, <2>4, GetOther, Zenon
<1>12. CASE k = "v5"
  BY <1>1, <1>5, <1>12, GetOther, Zenon
<1>13. CASE k \in {"vec", "cell"}
  <2>1. Get(k, d) = IF u.out # "ok" THEN u
                    ELSE IF (k = "cell" /\ u.v > CellSize) \/ Len(d) < u.n + u.v THEN Bail
                    ELSE Ok(SubSeq(d, u.n + 1, u.n + u.v), u.n + u.v)
    BY <1>13, GetCounted, Zenon DEF u
  <2>2. u.out = "ok" /\ ~((k = "cell" /\ u.v > CellSize) \/ Len(d) < u.n + u.v)
    BY <1>5, <2>1, Zenon
  <2>3. u.n \in Nat /\ u.v \in Nat
    BY UvarintRec, Zenon DEF u, HopRec
  <2>4. ~(Len(e) < u.n + u.v) /\ SubSeq(d, u.n + 1, u.n + u.v) = SubSeq(e, u.n + 1, u.n + u.v)
    <3> DEFINE n == u.n + u.v
    <3>1. u.n \in Nat /\ n \in Nat /\ u.n <= n /\ n <= Len(d) /\ ~(Len(e) < n)
      BY <1>1, <2>2, <2>3
    <3> HIDE DEF n
    <3>2. SubSeq(d, u.n + 1, n) = SubSeq(e, u.n + 1, n)
      BY ONLY <1>4, <3>1, Zenon
    <3> QED BY ONLY <3>1, <3>2, Zenon DEF n
  <2>5. Get(k, e) = IF u.out # "ok" THEN u
                    ELSE IF (k = "cell" /\ u.v > CellSize) \/ Len(e) < u.n + u.v THEN Bail
                    ELSE Ok(SubSeq(e, u.n + 1, u.n + u.v), u.n + u.v)
    BY <1>2, <1>13, <2>2, GetCounted, Zenon
  <2> QED BY <2>1, <2>2, <2>4, <2>5, Zenon
<1> QED BY <1>6, <1>7, <1>8, <1>9, <1>10, <1>11, <1>12, <1>13, Zenon DEF ReadKind, FieldKind


LEMMA ClampFacts ==
    ASSUME NEW v \in Seq(Byte)
    PROVE  Clamp(v) \in Seq(Byte) /\ Len(Clamp(v)) < BASE
<1> DEFINE n == IF Len(v) < BASE THEN Len(v) ELSE BASE - 1
<1>1. n \in Nat /\ n <= Len(v) /\ n < BASE
  BY Radices
<1>2. Clamp(v) = SubSeq(v, 1, n)
  BY Zenon DEF Clamp
<1> HIDE DEF n
<1> QED BY <1>1, <1>2, FrontFacts, Zenon

\* A byte in front.
LEMMA ConsFacts ==
    ASSUME NEW n \in Nat, NEW x \in Seq(Byte)
    PROVE  /\ <<Digit(n)>> \o x \in Seq(Byte) /\ Len(<<Digit(n)>> \o x) = 1 + Len(x)
           /\ <<Digit(n)>> \o x # <<>> /\ (<<Digit(n)>> \o x)[1] = Digit(n)
           /\ Value((<<Digit(n)>> \o x)[1]) = n
<1>1. Digit(n) \in Byte /\ Value(Digit(n)) = n
  BY ByteFacts, Zenon
<1> DEFINE b == Digit(n)
<1> HIDE DEF b
<1>2. /\ <<b>> \o x \in Seq(Byte) /\ Len(<<b>> \o x) = 1 + Len(x)
      /\ <<b>> \o x # <<>> /\ (<<b>> \o x)[1] = b
  BY <1>1 DEF b
<1> QED BY <1>1, <1>2, Zenon DEF b

LEMMA OneByte ==
    ASSUME NEW n \in Nat
    PROVE  /\ <<Digit(n)>> \in Seq(Byte) /\ Len(<<Digit(n)>>) = 1
           /\ <<Digit(n)>> = <<Digit(n)>> \o <<>> /\ <<>> \in Seq(Byte) /\ Len(<<>>) = 0
<1>1. Digit(n) \in Byte
  BY ByteFacts, Zenon
<1> DEFINE b == Digit(n)
<1> HIDE DEF b
<1>2. <<b>> \in Seq(Byte) /\ Len(<<b>>) = 1 /\ <<b>> = <<b>> \o <<>> /\ <<>> \in Seq(Byte) /\ Len(<<>>) = 0
  BY <1>1 DEF b
<1> QED BY <1>2, Zenon DEF b

LEMMA PutBytes ==
    ASSUME NEW k \in FieldKind, NEW v, Good(k, v)
    PROVE  Put(k, v) \in Seq(Byte) /\ Len(Put(k, v)) >= Least(k) /\ Len(Put(k, v)) \in Nat
<1> USE DEF Least, Fixed, Ints, Blobs
<1>1. CASE k \in Ints
  <2>1. Width[k] \in Nat /\ v \in Nat /\ v < pow(BASE, Width[k]) /\ Put(k, v) = le(Width[k], v)
    BY <1>1, Widths, PutForms, Zenon DEF Good
  <2>2. le(Width[k], v) \in Seq(Byte) /\ Len(le(Width[k], v)) = Width[k]
    BY <2>1, LeRoundTrip, Zenon
  <2> QED BY <1>1, <2>1, <2>2
<1>2. CASE k \in Blobs
  <2>1. v \in Seq(Byte) /\ Len(v) = Width[k]
    BY <1>2, Zenon DEF Good
  <2>2. Put(k, v) = v /\ Width[k] \in Nat
    BY <1>2, PutForms, Widths, Zenon
  <2> QED BY <1>2, <2>1, <2>2
<1>3. ASSUME NEW n \in Nat
      PROVE  encode_uvarint(n) \in Seq(Byte) /\ Len(encode_uvarint(n)) >= 1 /\ Len(encode_uvarint(n)) \in Nat
  BY UvarintBytes, DigitCount
<1>4. CASE k \in {"uv", "depth"}
  <2>1. v \in Nat /\ Put(k, v) = encode_uvarint(v)
    BY <1>4, PutForms, Zenon DEF Good
  <2> QED BY <1>3, <1>4, <2>1, Zenon
<1>5. CASE k = "path"
  <2>1. <<>> \in Seq(Byte)
    OBVIOUS
  <2>2. GoodPath(v) /\ Put(k, v) = encode_path(v)
    BY <1>5, PutForms, Zenon DEF Good
  <2>3. encode_path(v) \in Seq(Byte) /\ Len(encode_path(v)) >= 1
    BY <2>1, <2>2, PathRoundTrip, Zenon
  <2> QED BY <1>5, <2>2, <2>3
<1>6. CASE k = "opt"
  <2>1. Put(k, v) = IF v = <<>> THEN <<Digit(0)>> ELSE <<Digit(1)>> \o v
    BY <1>6, PutForms, Zenon
  <2>3. v # <<>> => v \in Seq(Byte)
    BY <1>6, Zenon DEF Good
  <2>4. CASE v = <<>>
    <3>1. Put(k, v) \in Seq(Byte) /\ Len(Put(k, v)) = 1
      BY <2>1, <2>4, OneByte, Zenon
    <3> QED BY <1>6, <3>1
  <2>5. CASE v # <<>>
    BY <1>6, <2>1, <2>3, <2>5, ConsFacts
  <2> QED BY <2>4, <2>5, Zenon
<1>7. CASE k = "str"
  <2>1. v \in Seq(Byte) /\ Put(k, v) = <<Digit(Len(Clamp(v)))>> \o Clamp(v)
    BY <1>7, PutForms, Zenon DEF Good
  <2>2. Clamp(v) \in Seq(Byte) /\ Len(Clamp(v)) \in Nat
    BY <2>1, ClampFacts
  <2> DEFINE y == Clamp(v)
  <2> HIDE DEF y
  <2>3. y \in Seq(Byte) /\ Len(y) \in Nat /\ Put(k, v) = <<Digit(Len(y))>> \o y
    BY <2>1, <2>2, Zenon DEF y
  <2>4. Put(k, v) \in Seq(Byte) /\ Len(Put(k, v)) = 1 + Len(y)
    BY ONLY <2>3, ConsFacts, Zenon
  <2> QED BY <1>7, <2>3, <2>4
<1>8. CASE k = "vec"
  <2>1. v \in Seq(Byte) /\ Len(v) \in Nat /\ Put(k, v) = encode_uvarint(Len(v)) \o v
    <3>1. v \in Seq(Byte)
      BY <1>8, Zenon DEF Good
    <3>2. Put(k, v) = encode_uvarint(Len(v)) \o v
      BY <1>8, PutForms, Zenon
    <3> QED BY <3>1, <3>2
  <2>2. /\ encode_uvarint(Len(v)) \in Seq(Byte) /\ Len(encode_uvarint(Len(v))) >= 1
        /\ Len(encode_uvarint(Len(v))) \in Nat
    BY <1>3, <2>1, Zenon
  <2>3. Put(k, v) \in Seq(Byte) /\ Len(Put(k, v)) = Len(encode_uvarint(Len(v))) + Len(v)
    BY <2>1, <2>2, JoinFacts, Zenon
  <2> QED BY <1>8, <2>1, <2>2, <2>3
<1> QED BY <1>1, <1>2, <1>4, <1>5, <1>6, <1>7, <1>8, Zenon DEF FieldKind

\* d is a length byte n, the bytes y and l more.
Headed(d, n, y, l) ==
    /\ Value(d[1]) = n /\ d # <<>> /\ SubSeq(d, 2, 1 + Len(y)) = y /\ Len(d) = (1 + Len(y)) + l

LEMMA HeadRead ==
    ASSUME NEW n \in Nat, NEW y \in Seq(Byte), NEW z \in Seq(Byte)
    PROVE  /\ Headed((<<Digit(n)>> \o y) \o z, n, y, Len(z))
           /\ Len(<<Digit(n)>> \o y) = 1 + Len(y)
<1> DEFINE x == <<Digit(n)>>
           p == x \o y
           d == p \o z
<1>1. x \in Seq(Byte) /\ Len(x) = 1 /\ x[1] = Digit(n) /\ Value(Digit(n)) = n
  BY ByteFacts
<1>2. SubSeq(d, Len(x) + 1, Len(x) + Len(y)) = y
  <2> HIDE DEF x
  <2> QED BY <1>1, MiddlePart, Zenon
<1>3. SubSeq(d, 2, 1 + Len(y)) = y
  <2>1. Len(x) + 1 = 2 /\ Len(x) + Len(y) = 1 + Len(y)
    BY <1>1
  <2> HIDE DEF x, d
  <2> QED BY ONLY <1>2, <2>1, Zenon
<1>4. Len(p) = 1 + Len(y) /\ p[1] = Digit(n)
  BY ConsFacts, Zenon
<1>5. p \in Seq(Byte)
  BY ConsFacts, Zenon
<1> HIDE DEF p
<1>6. d \in Seq(Byte) /\ Len(d) = Len(p) + Len(z) /\ \A i \in 1 .. Len(p) : d[i] = p[i]
  BY <1>5, JoinFacts, Zenon
<1> HIDE DEF d
<1>7. d # <<>> /\ d[1] = p[1] /\ Len(d) = (1 + Len(y)) + Len(z)
  BY <1>4, <1>5, <1>6
<1>8. Headed(d, n, y, Len(z)) /\ Len(p) = 1 + Len(y)
  BY <1>1, <1>3, <1>4, <1>7, Zenon DEF Headed
<1> QED BY <1>8, Zenon DEF d, p, x

\* A string behind its length byte, whatever follows; the decoder refuses it when its bytes are
\* not UTF-8.
LEMMA StrRead ==
    ASSUME NEW v \in Seq(Byte), NEW z \in Seq(Byte)
    PROVE  LET d == Put("str", v) \o z
               y == Clamp(v)
           IN  /\ Value(d[1]) = Len(y) /\ Len(Put("str", v)) = 1 + Len(y) /\ SubSeq(d, 2, 1 + Len(y)) = y
               /\ Width["sig"] <= Len(z)
                  => Get("str", d) = IF Utf8(y) THEN Ok(y, Len(Put("str", v))) ELSE Bail
<1> DEFINE y == Clamp(v)
           p == Put("str", v)
           d == p \o z
<1>1. y \in Seq(Byte) /\ p = <<Digit(Len(y))>> \o y
  BY ClampFacts, PutForms, Zenon
<1> HIDE DEF y, p
<1>0. Len(y) \in Nat
  BY <1>1
<1>2. Headed(d, Len(y), y, Len(z)) /\ Len(p) = 1 + Len(y)
  BY <1>0, <1>1, HeadRead, Zenon
<1> HIDE DEF d
<1>3. Width["sig"] <= Len(z) => ~(Len(d) < (1 + Len(y)) + Width["sig"])
  BY <1>0, <1>2, Widths DEF Headed
<1>4. Width["sig"] <= Len(z) => Get("str", d) = IF Utf8(y) THEN Ok(y, Len(p)) ELSE Bail
  BY <1>2, <1>3, GetOther, Zenon DEF Headed
<1> QED BY <1>2, <1>4, Zenon DEF Headed, d, p, y

\* Whatever follows it, a field reads back as it was written, in every kind.
LEMMA PutRead ==
    ASSUME NEW k \in FieldKind, NEW v, Good(k, v), NEW kk, Reads(kk, k, v),
           NEW z \in Seq(Byte), k = "str" => Width["sig"] <= Len(z)
    PROVE  Get(kk, Put(k, v) \o z) = Ok(Seen(k, v), Len(Put(k, v)))
<1> DEFINE p == Put(k, v)
           d == p \o z
<1>1. p \in Seq(Byte) /\ Len(p) \in Nat /\ Len(z) \in Nat
  BY PutBytes
<1>2. d \in Seq(Byte) /\ Len(d) = Len(p) + Len(z) /\ SubSeq(d, 1, Len(p)) = p
  <2> HIDE DEF p
  <2> QED BY <1>1, JoinFacts, FrontPart, Zenon
<1>3. ASSUME NEW x \in Seq(Byte), NEW y \in Seq(Byte), p = x \o y
      PROVE  SubSeq(d, Len(x) + 1, Len(x) + Len(y)) = y
  <2>1. d = (x \o y) \o z
    BY <1>3, Zenon
  <2> QED BY <2>1, MiddlePart, Zenon
<1>4. ASSUME NEW n \in Nat, NEW y \in Seq(Byte), p = <<Digit(n)>> \o y
      PROVE  /\ Value(d[1]) = n /\ d # <<>> /\ Len(p) = 1 + Len(y)
             /\ SubSeq(d, 2, 1 + Len(y)) = y
  <2>1. Headed((<<Digit(n)>> \o y) \o z, n, y, Len(z)) /\ Len(<<Digit(n)>> \o y) = 1 + Len(y)
    BY HeadRead, Zenon
  <2>2. Headed(d, n, y, Len(z)) /\ Len(p) = 1 + Len(y)
    BY <1>4, <2>1, Zenon
  <2> HIDE DEF d, p
  <2> QED BY <2>2, Zenon DEF Headed
<1> HIDE DEF d
<1>5. CASE k \in Ints /\ kk = k
  <2>1. Width[k] \in Nat /\ v \in Nat /\ v < pow(BASE, Width[k]) /\ p = le(Width[k], v)
    BY <1>5, Widths, PutForms, Zenon DEF Good, Fixed
  <2>2. Len(p) = Width[k] /\ fromLe(p) = v
    BY <2>1, LeRoundTrip, Zenon
  <2>3. ~(Len(d) < Width[k]) /\ SubSeq(d, 1, Width[k]) = p
    BY <1>1, <1>2, <2>1, <2>2
  <2>4. Get(k, d) = Ok(v, Len(p))
    BY <1>5, <2>2, <2>3, GetForms, Zenon
  <2> QED BY <1>5, <2>4, Zenon DEF d, Seen, Ints
<1>6. CASE k \in Blobs
  <2>1. Width[k] \in Nat /\ p = v /\ Len(p) = Width[k] /\ kk = k
    BY <1>6, Widths, PutForms, Zenon DEF Good, Fixed, Blobs, Reads
  <2>2. ~(Len(d) < Width[k]) /\ SubSeq(d, 1, Width[k]) = p
    BY <1>1, <1>2, <2>1
  <2>3. Get(k, d) = Ok(v, Len(p))
    BY <1>6, <2>1, <2>2, GetForms, Zenon
  <2> QED BY <1>6, <2>1, <2>3, Zenon DEF d, Seen, Blobs
<1>7. CASE k = "uv"
  <2>1. v \in Nat /\ v < U64 /\ p = encode_uvarint(v) /\ kk = k
    BY <1>7, PutForms, Zenon DEF Good, Reads
  <2>2. decode_uvarint(d) = Ok(v, Len(p))
    BY <2>1, UvarintRoundTrip, Zenon DEF d
  <2> QED BY <1>7, <2>1, <2>2, GetForms, Zenon DEF d, Seen
<1>8. CASE k = "depth"
  <2>1. v \in Nat /\ v < U32 /\ v < U64 /\ v % U32 = v /\ p = encode_uvarint(v) /\ kk = k
    <3>1. v \in Nat /\ v < U32 /\ p = encode_uvarint(v) /\ kk = k
      BY <1>8, PutForms, Zenon DEF Good, Reads
    <3>2. U32 \in Nat /\ U64 \in Nat /\ U32 <= U64
      BY Radices, Zenon
    <3>3. v % U32 = v
      BY <3>1, <3>2, ModSmall, Zenon
    <3> QED BY <3>1, <3>2, <3>3
  <2>2. decode_uvarint(d) = Ok(v, Len(p))
    BY <2>1, UvarintRoundTrip, Zenon DEF d
  <2>3. Len(p) >= 1
    BY <2>1, UvarintBytes, DigitCount
  <2>4. d # <<>>
    BY <1>1, <1>2, <2>3
  <2>5. decode_uvarint(d).out = "ok" /\ decode_uvarint(d).v = v /\ decode_uvarint(d).n = Len(p)
    BY <2>2 DEF Ok
  <2>6. Get("depth", d) = Ok(v, Len(p))
    BY <2>1, <2>4, <2>5, GetOther, Zenon
  <2> QED BY <1>8, <2>1, <2>6, Zenon DEF d, Seen
<1>9. CASE k = "path"
  <2>1. GoodPath(v) /\ p = encode_path(v) /\ kk = k
    BY <1>9, PutForms, Zenon DEF Good, Reads
  <2>2. decode_path(d) = Ok(v, Len(p))
    BY <2>1, PathRoundTrip, Zenon DEF d
  <2> QED BY <1>9, <2>1, <2>2, GetForms, Zenon DEF d, Seen
<1>10. CASE k = "opt"
  <2>1. kk = k /\ p = (IF v = <<>> THEN <<Digit(0)>> ELSE <<Digit(1)>> \o v)
    BY <1>10, PutForms, Zenon DEF Reads
  <2>2. CASE v = <<>>
    <3>1. p = <<Digit(0)>> \o <<>>
      BY <2>1, <2>2
    <3>2. Value(d[1]) = 0 /\ d # <<>> /\ Len(p) = 1
      <4> DEFINE y == <<>>
      <4>1. 0 \in Nat /\ y \in Seq(Byte) /\ 1 + Len(y) = 1 /\ p = <<Digit(0)>> \o y
        BY <3>1
      <4> HIDE DEF y, p
      <4>2. Value(d[1]) = 0 /\ d # <<>> /\ Len(p) = 1 + Len(y)
        BY ONLY <1>4, <4>1, Zenon
      <4> QED BY ONLY <4>1, <4>2, Zenon
    <3> QED BY <1>10, <2>1, <2>2, <3>2, GetOther, Zenon DEF d, Seen
  <2>3. CASE v # <<>>
    <3>1. v \in Seq(Byte) /\ Len(v) = Width["coord"] /\ p = <<Digit(1)>> \o v
      BY <1>10, <2>1, <2>3, Zenon DEF Good
    <3>2. Value(d[1]) = 1 /\ d # <<>> /\ Len(p) = 1 + Len(v) /\ SubSeq(d, 2, 1 + Len(v)) = v
      BY <1>4, <3>1, Zenon
    <3>3. ~(Len(d) < 1 + Len(v))
      BY <1>1, <1>2, <3>2
    <3>4. Get("opt", d) = Ok(v, Len(p))
      <4>1. Get("opt", d) = IF d = <<>> THEN Bail ELSE IF Value(d[1]) = 0 THEN Ok(<<>>, 1)
                            ELSE IF Len(d) < 1 + Len(v) THEN Bail
                            ELSE Ok(SubSeq(d, 2, 1 + Len(v)), 1 + Len(v))
        BY <3>1, GetOther, Zenon
      <4> DEFINE n == 1 + Len(v)
                 w == SubSeq(d, 2, n)
      <4>2. Value(d[1]) # 0
        BY <3>2
      <4>3. w = v /\ Len(p) = n /\ ~(Len(d) < n) /\ d # <<>>
        BY ONLY <3>2, <3>3, Zenon
      <4>4. Get("opt", d) = IF d = <<>> THEN Bail ELSE IF Value(d[1]) = 0 THEN Ok(<<>>, 1)
                            ELSE IF Len(d) < n THEN Bail ELSE Ok(w, n)
        BY ONLY <4>1, Zenon
      <4> HIDE DEF n, w, p
      <4> QED BY ONLY <4>2, <4>3, <4>4, Zenon
    <3> QED BY <1>10, <2>1, <3>4, Zenon DEF d, Seen
  <2> QED BY <2>2, <2>3, Zenon
<1>11. CASE k = "str"
  <2>1. kk = k /\ v \in Seq(Byte) /\ Utf8(Clamp(v)) /\ Width["sig"] <= Len(z)
    BY <1>11, Zenon DEF Reads, Good
  <2>2. Get("str", Put("str", v) \o z) = Ok(Clamp(v), Len(Put("str", v)))
    BY <2>1, StrRead, Zenon
  <2> QED BY <1>11, <2>1, <2>2, Zenon DEF Seen
<1>12. CASE k = "vec"
  <2> DEFINE x == encode_uvarint(Len(v))
  <2>1. v \in Seq(Byte) /\ Len(v) \in Nat /\ Len(v) < U64 /\ p = x \o v
        /\ (kk = "vec" \/ (kk = "cell" /\ Len(v) <= CellSize))
    <3>1. v \in Seq(Byte) /\ Len(v) < U64
      BY <1>12, Zenon DEF Good
    <3>2. p = x \o v
      BY <1>12, PutForms, Zenon
    <3>3. kk = "vec" \/ (kk = "cell" /\ Len(v) <= CellSize)
      BY <1>12, Zenon DEF Reads
    <3> QED BY <3>1, <3>2, <3>3
  <2>2. x \in Seq(Byte) /\ Len(x) \in Nat
    BY <2>1, UvarintBytes
  <2>3. decode_uvarint(d) = Ok(Len(v), Len(x))
    <3>1. v \o z \in Seq(Byte)
      BY <2>1
    <3>2. decode_uvarint(x \o (v \o z)) = Ok(Len(v), Len(x))
      BY <2>1, <3>1, UvarintRoundTrip, Zenon
    <3>3. d = x \o (v \o z)
      <4> HIDE DEF x
      <4> QED BY <2>1, <2>2, JoinAssoc DEF d
    <3> QED BY <3>2, <3>3, Zenon
  <2>4. SubSeq(d, Len(x) + 1, Len(x) + Len(v)) = v
    BY <1>3, <2>1, <2>2, Zenon
  <2> HIDE DEF x
  <2>5. Len(p) = Len(x) + Len(v)
    BY <2>1, <2>2, JoinFacts, Zenon
  <2>6. ~(Len(d) < Len(x) + Len(v)) /\ ~(kk = "cell" /\ Len(v) > CellSize)
    BY <1>1, <1>2, <2>1, <2>2, <2>5, CodecAssumption
  <2> DEFINE u == decode_uvarint(d)
  <2>7. u.out = "ok" /\ u.v = Len(v) /\ u.n = Len(x)
    BY <2>3 DEF Ok
  <2>8. Get(kk, d) = IF u.out # "ok" THEN u
                     ELSE IF (kk = "cell" /\ u.v > CellSize) \/ Len(d) < u.n + u.v THEN Bail
                     ELSE Ok(SubSeq(d, u.n + 1, u.n + u.v), u.n + u.v)
    BY <2>1, GetCounted, Zenon
  <2> HIDE DEF u
  <2>9. Get(kk, d) = Ok(v, Len(p))
    BY <2>4, <2>5, <2>6, <2>7, <2>8, Zenon
  <2> QED BY <1>12, <2>9, Zenon DEF d, Seen
<1>13. CASE k = "u8" /\ kk = "v5" /\ v = COORD_FORMAT_V5
  <2>1. p = le(1, 5) /\ 5 < pow(BASE, 1)
    BY <1>13, Widths, PutForms, Zenon DEF Good, Ints, COORD_FORMAT_V5
  <2>2. le(1, 5) = <<Digit(digit(BASE, 5, 1))>>
    BY DEF le
  <2>3. digit(BASE, 5, 1) = 5
    <3>1. BASE \in Nat /\ 5 < BASE /\ BASE # 0
      BY Radices
    <3>2. pow(BASE, 0) = 1
      BY <3>1, PowFacts, Zenon
    <3>3. 5 \div 1 = 5
      BY DivUnique
    <3>4. 5 % BASE = 5
      BY <3>1, ModSmall, Zenon
    <3> QED BY <3>2, <3>3, <3>4 DEF digit
  <2>4. p = <<Digit(5)>> \o <<>>
    BY <2>1, <2>2, <2>3, OneByte, Zenon
  <2>5. Value(d[1]) = 5 /\ d # <<>> /\ Len(p) = 1
    <3> DEFINE y == <<>>
    <3>1. 5 \in Nat /\ y \in Seq(Byte) /\ 1 + Len(y) = 1 /\ p = <<Digit(5)>> \o y
      BY <2>4
    <3> HIDE DEF y, p
    <3>2. Value(d[1]) = 5 /\ d # <<>> /\ Len(p) = 1 + Len(y)
      BY ONLY <1>4, <3>1, Zenon
    <3> QED BY ONLY <3>1, <3>2, Zenon
  <2>6. Get("v5", d) = Ok(5, 1)
    BY <2>5, GetOther, Zenon DEF COORD_FORMAT_V5
  <2> QED BY <1>13, <2>5, <2>6, Zenon DEF d, Seen, COORD_FORMAT_V5
<1> QED BY <1>5, <1>6, <1>7, <1>8, <1>9, <1>10, <1>11, <1>12, <1>13, Zenon
        DEF FieldKind, Fixed, Reads, Ints

-----------------------------------------------------------------------------
(* Runs of a decoder.                                                      *)

LEMMA AssignFacts ==
    ASSUME NEW m, NEW f, NEW v
    PROVE  /\ DOMAIN Assign(m, f, v) = DOMAIN m \cup {f} /\ Assign(m, f, v)[f] = v
           /\ \A x \in DOMAIN m : x # f => Assign(m, f, v)[x] = m[x]
           /\ Assign(m, f, v) = [x \in DOMAIN m \cup {f} |-> Assign(m, f, v)[x]]
BY Zenon DEF Assign

Start == [out |-> "ok", pos |-> 0, m |-> <<>>]
Stopped(o, st) == [out |-> o, pos |-> st.pos, m |-> st.m]
Next1(st, r, f) == [out |-> "ok", pos |-> st.pos + r.n, m |-> Assign(st.m, f, r.v)]

\* The read that step s makes in the state st.
ReadAt(d, st, s) == Get(s[3], Rest(d, st.pos))

LEMMA StepCases ==
    ASSUME NEW d, NEW st, NEW s
    PROVE  /\ st.out # "ok" => Step(d, st, s) = st
           /\ st.out = "ok" /\ s[1] = "need"
              => Step(d, st, s) = IF Len(d) - st.pos < s[2] THEN Stopped("bail", st) ELSE st
           /\ st.out = "ok" /\ s[1] # "need" /\ ReadAt(d, st, s).out # "ok"
              => Step(d, st, s) = Stopped(ReadAt(d, st, s).out, st)
           /\ st.out = "ok" /\ s[1] # "need" /\ ReadAt(d, st, s).out = "ok"
              => Step(d, st, s) = Next1(st, ReadAt(d, st, s), s[2])
<1> DEFINE r == Get(s[3], Rest(d, st.pos))
<1> HIDE DEF r
<1>1. Step(d, st, s) =
        IF st.out # "ok" THEN st
        ELSE IF s[1] = "need" THEN IF Len(d) - st.pos < s[2] THEN Stopped("bail", st) ELSE st
        ELSE IF r.out # "ok" THEN Stopped(r.out, st) ELSE Next1(st, r, s[2])
  BY Zenon DEF Step, Taken, Rest, Stopped, Next1, r
<1>2. r = ReadAt(d, st, s)
  BY Zenon DEF r, ReadAt
<1> QED BY <1>1, <1>2, Zenon

IsStep(s) == IF s[1] = "need" THEN s[2] \in Nat ELSE s[3] \in ReadKind
Program(D) == Len(D) \in Nat /\ \A i \in 1 .. Len(D) : IsStep(D[i])

RunEqs(D, d, g) ==
    g = [i \in 0 .. Len(D) |-> IF i = 0 THEN Start ELSE Step(d, g[i - 1], D[i])]

IsRun(D, d, at) ==
    /\ at[0] = Start
    /\ \A i \in 1 .. Len(D) : at[i] = Step(d, at[i - 1], D[i])
    /\ \A i \in 0 .. Len(D) : /\ at[i].pos \in Nat /\ at[i].out \in {"ok", "bail", "panic"}
                              /\ at[i] = Stopped(at[i].out, at[i])

LEMMA RunExists ==
    ASSUME NEW D, Program(D), NEW d \in Seq(Byte)
    PROVE  \E at : IsRun(D, d, at) /\ Run(D, d) = [out |-> at[Len(D)].out, m |-> at[Len(D)].m]
<1> DEFINE n == Len(D)
           V == {Get(q[1], Rest(d, q[2])).v : q \in ReadKind \X Nat}
           Names == {D[i][2] : i \in 1 .. n}
           M == UNION {[A -> V] : A \in SUBSET Names}
           S == [out : {"ok", "bail", "panic"}, pos : Nat, m : M]
           F == [i \in 1 .. n |-> [st \in S |-> Step(d, st, D[i])]]
           h == CHOOSE g : RunEqs(D, d, g)
<1>1. n \in Nat /\ \A i \in 1 .. n : D[i][1] # "need" => D[i][3] \in ReadKind
  BY Zenon DEF Program, IsStep
<1>2. ASSUME NEW m \in M, NEW f \in Names, NEW v \in V PROVE Assign(m, f, v) \in M
  <2> HIDE DEF V, Names
  <2>1. PICK A \in SUBSET Names : m \in [A -> V]
    BY Zenon
  <2>2. Assign(m, f, v) \in [A \cup {f} -> V]
    BY <2>1, Zenon DEF Assign
  <2>3. A \cup {f} \in SUBSET Names
    BY Zenon
  <2> QED BY <2>2, <2>3, Zenon
<1>3. <<>> \in M
  <2> HIDE DEF V, Names
  <2>1. <<>> \in [{} -> V] /\ {} \in SUBSET Names
    OBVIOUS
  <2> QED BY <2>1, Zenon
<1>4. ASSUME NEW k \in ReadKind, NEW a \in Nat PROVE Get(k, Rest(d, a)).v \in V
  <2>1. <<k, a>> \in ReadKind \X Nat /\ <<k, a>>[1] = k /\ <<k, a>>[2] = a
    BY Zenon
  <2> QED BY <2>1, Zenon
<1> HIDE DEF n, V, M
<1>5. Start \in S
  BY <1>3, Zenon DEF Start
<1>6. ASSUME NEW st \in S, NEW i \in 1 .. n PROVE Step(d, st, D[i]) \in S
  <2> DEFINE s == D[i]
             r == ReadAt(d, st, s)
  <2>1. st.out \in {"ok", "bail", "panic"} /\ st.pos \in Nat /\ st.m \in M
    BY Zenon
  <2>2. s[2] \in Names
    BY Zenon
  <2>3. s[1] # "need" => s[3] \in ReadKind
    BY <1>1, Zenon
  <2> HIDE DEF s, Names
  <2>4. Stopped("bail", st) \in S
    BY <2>1, Zenon DEF Stopped
  <2>5. s[1] # "need" => /\ r.out \in {"ok", "bail", "panic"} /\ r.v \in V
                         /\ (r.out = "ok" => r.n \in Nat)
    <3>1. Rest(d, st.pos) \in Seq(Byte)
      BY <2>1, RestSeq, Zenon
    <3>2. 0 \in Nat /\ 0 <= Len(Rest(d, st.pos)) /\ Len(Rest(d, st.pos)) \in Nat
      BY <3>1
    <3>3. s[1] # "need" => ReadOut(s[3], Rest(d, st.pos), 0)
      BY <2>3, <3>1, <3>2, GetOut, Zenon
    <3>4. s[1] # "need" => r.v \in V
      BY <1>4, <2>1, <2>3, Zenon DEF ReadAt
    <3>5. s[1] # "need" => r.out \in {"ok", "bail", "panic"} /\ (r.out = "ok" => r.n \in Nat)
      BY <3>2, <3>3 DEF ReadOut, ReadAt
    <3> QED BY <3>4, <3>5, Zenon
  <2> HIDE DEF r
  <2>6. s[1] # "need" => Stopped(r.out, st) \in S
    BY <2>1, <2>5, Zenon DEF Stopped
  <2>7. s[1] # "need" /\ r.out = "ok" => Next1(st, r, s[2]) \in S
    <3>1. s[1] # "need" => Assign(st.m, s[2], r.v) \in M
      BY <1>2, <2>1, <2>2, <2>5, Zenon
    <3> QED BY <2>1, <2>5, <3>1 DEF Next1
  <2> HIDE DEF S
  <2>8. Step(d, st, s) \in S
    <3>1. st.out # "ok" => Step(d, st, s) = st
      BY StepCases, Zenon
    <3>2. st.out = "ok" /\ s[1] = "need" => Step(d, st, s) = Stopped("bail", st) \/ Step(d, st, s) = st
      BY StepCases
    <3>3. st.out = "ok" /\ s[1] # "need" => Step(d, st, s) = Stopped(r.out, st)
                                            \/ (r.out = "ok" /\ Step(d, st, s) = Next1(st, r, s[2]))
      BY StepCases DEF r
    <3> QED BY <2>4, <2>6, <2>7, <3>1, <3>2, <3>3, Zenon
  <2> QED BY <2>8, Zenon DEF s
<1>7. F \in [1 .. n -> [S -> S]]
  <2> HIDE DEF S
  <2> QED BY <1>6, Zenon
<1>8. PICK g \in [0 .. n -> S] : g[0] = Start /\ \A i \in 1 .. n : g[i] = F[i][g[i - 1]]
  <2> HIDE DEF F, S
  <2>1. n \in Nat
    BY <1>1, Zenon DEF n
  <2>2. Iteration(n, S, Start, F)
    BY ONLY <1>5, <1>7, <2>1, Iterates, Zenon
  <2> QED BY <2>2, Zenon DEF Iteration
<1>9. n \in Nat
  BY <1>1, Zenon DEF n
<1>10. ASSUME NEW i \in 1 .. n PROVE g[i] = Step(d, g[i - 1], D[i])
  <2> HIDE DEF S
  <2>1. g[i - 1] \in S
    BY <1>9
  <2> QED BY <1>8, <2>1, Zenon
<1> HIDE DEF F
<1>11. RunEqs(D, d, g)
  <2> HIDE DEF S
  <2>1. ASSUME NEW i \in 0 .. n PROVE g[i] = IF i = 0 THEN Start ELSE Step(d, g[i - 1], D[i])
    BY <1>8, <1>9, <1>10
  <2>2. g = [i \in 0 .. n |-> g[i]]
    BY Zenon
  <2>3. g = [i \in 0 .. n |-> IF i = 0 THEN Start ELSE Step(d, g[i - 1], D[i])]
    BY <2>1, <2>2, Zenon
  <2> QED BY <2>3, Zenon DEF RunEqs, n
<1>12. RunEqs(D, d, h)
  BY <1>11, Zenon
<1>13. Run(D, d) = [out |-> h[Len(D)].out, m |-> h[Len(D)].m]
  BY Zenon DEF Run, RunEqs, Start
<1> HIDE DEF h
<1>14. h[0] = Start /\ \A i \in 1 .. n : h[i] = Step(d, h[i - 1], D[i])
  <2>1. h = [i \in 0 .. n |-> IF i = 0 THEN Start ELSE Step(d, h[i - 1], D[i])]
    BY <1>12, Zenon DEF RunEqs, n
  <2>2. \A i \in 0 .. n : h[i] = IF i = 0 THEN Start ELSE Step(d, h[i - 1], D[i])
    BY <2>1, Zenon
  <2> QED BY <1>9, <2>2
<1> DEFINE T == {k \in 0 .. n : h[k] # g[k]}
<1>15. T = {}
  <2> SUFFICES ASSUME T # {} PROVE FALSE
    BY Zenon
  <2>1. PICK k \in T : \A y \in T : k <= y
    <3>1. T \in SUBSET Nat
      BY <1>9
    <3> HIDE DEF T, S
    <3> QED BY <3>1, LeastNat, Zenon
  <2>2. k \in 0 .. n /\ h[k] # g[k]
    BY <2>1, Zenon
  <2>3. k # 0
    BY <1>8, <1>14, <2>2, Zenon
  <2>4. k - 1 \in 0 .. n /\ k - 1 \notin T /\ k \in 1 .. n
    <3> HIDE DEF T, S
    <3> QED BY <1>9, <2>1, <2>2, <2>3
  <2>5. h[k - 1] = g[k - 1]
    BY <2>4, Zenon
  <2> QED BY <1>10, <1>14, <2>2, <2>4, <2>5, Zenon
<1>16. ASSUME NEW i \in 0 .. n
       PROVE  /\ h[i].pos \in Nat /\ h[i].out \in {"ok", "bail", "panic"}
              /\ h[i] = Stopped(h[i].out, h[i])
  <2>1. h[i] \in S
    BY <1>15, Zenon
  <2> QED BY <2>1, Zenon DEF Stopped
<1>17. IsRun(D, d, h)
  BY <1>14, <1>16, Zenon DEF IsRun, n
<1> QED BY <1>13, <1>17, Zenon


\* A run goes on only from a state that is ok.
LEMMA RunOk ==
    ASSUME NEW D, Program(D), NEW d, NEW at, IsRun(D, d, at), NEW n \in 0 .. Len(D), at[n].out = "ok",
           NEW i \in 0 .. n
    PROVE  at[i].out = "ok"
<1>1. Len(D) \in Nat /\ n \in Nat /\ i \in Nat /\ i <= n /\ n <= Len(D)
  BY DEF Program
<1> DEFINE T == {k \in 0 .. n : at[n - k].out # "ok"}
<1>2. T = {}
  <2> SUFFICES ASSUME T # {} PROVE FALSE
    BY Zenon
  <2>1. PICK k \in T : \A y \in T : k <= y
    <3>1. T \in SUBSET Nat
      BY <1>1
    <3> HIDE DEF T
    <3> QED BY <3>1, LeastNat, Zenon
  <2>2. k \in 0 .. n /\ at[n - k].out # "ok"
    BY <2>1, Zenon
  <2>3. k # 0
    BY <1>1, <2>2
  <2>4. k - 1 \in 0 .. n /\ k - 1 \notin T /\ n - (k - 1) \in 1 .. Len(D) /\ (n - (k - 1)) - 1 = n - k
    <3> HIDE DEF T
    <3> QED BY <1>1, <2>1, <2>2, <2>3
  <2>5. at[n - (k - 1)].out = "ok"
    BY <2>4, Zenon
  <2> HIDE DEF T
  <2> DEFINE x == n - (k - 1)
  <2>6. at[x] = Step(d, at[x - 1], D[x]) /\ at[x - 1].out # "ok" /\ at[x].out = "ok"
    BY <2>2, <2>4, <2>5, Zenon DEF IsRun
  <2> HIDE DEF x
  <2>7. at[x] = at[x - 1]
    BY <2>6, StepCases
  <2> QED BY <2>6, <2>7, Zenon
<1>3. n - i \in 0 .. n /\ n - (n - i) = i
  BY <1>1
<1> QED BY <1>2, <1>3, Zenon

\* A step that succeeds does the same when more bytes follow.
LEMMA SameStep ==
    ASSUME NEW d \in Seq(Byte), NEW e \in Seq(Byte), Begins(d, e), NEW st, NEW s, IsStep(s),
           st.out = "ok", st.pos \in 0 .. Len(d), Step(d, st, s).out = "ok",
           s[1] # "need" /\ s[3] = "depth" => st.pos # Len(d)
    PROVE  Step(e, st, s) = Step(d, st, s) /\ Step(d, st, s).pos \in 0 .. Len(d)
<1> DEFINE a == st.pos
           x == Rest(d, a)
           y == Rest(e, a)
<1>1. Len(d) \in Nat /\ Len(e) \in Nat /\ Len(d) <= Len(e) /\ a \in Nat /\ a <= Len(d)
  BY BeginsSame
<1>2. x \in Seq(Byte) /\ y \in Seq(Byte) /\ Begins(x, y) /\ Len(x) = Len(d) - a
  <2> HIDE DEF a
  <2> QED BY <1>1, RestFacts, Zenon
<1> HIDE DEF x, y
<1>3. CASE s[1] = "need"
  <2>1. s[2] \in Nat
    BY <1>3, Zenon DEF IsStep
  <2>2. Step(d, st, s) = IF Len(d) - a < s[2] THEN Stopped("bail", st) ELSE st
    BY <1>3, StepCases, Zenon
  <2>3. Step(e, st, s) = IF Len(e) - a < s[2] THEN Stopped("bail", st) ELSE st
    BY <1>3, StepCases, Zenon
  <2>4. Stopped("bail", st).out # "ok"
    BY Zenon DEF Stopped
  <2> HIDE DEF a
  <2>5. ~(Len(d) - a < s[2])
    BY <2>2, <2>4, Zenon
  <2>6. ~(Len(e) - a < s[2])
    BY <1>1, <2>1, <2>5
  <2>7. Step(d, st, s) = st /\ Step(e, st, s) = st
    BY ONLY <2>2, <2>3, <2>5, <2>6, Zenon
  <2> QED BY <2>7, Zenon
<1>4. CASE s[1] # "need"
  <2> DEFINE u == ReadAt(d, st, s)
  <2>1. s[3] \in ReadKind
    BY <1>4, Zenon DEF IsStep
  <2>2. u = Get(s[3], x) /\ ReadAt(e, st, s) = Get(s[3], y)
    BY Zenon DEF ReadAt, x, y
  <2>3. u.out = "ok"
    <3>1. u.out # "ok" => Step(d, st, s) = Stopped(u.out, st)
      BY <1>4, StepCases
    <3>2. Stopped(u.out, st).out = u.out
      BY Zenon DEF Stopped
    <3> QED BY <3>1, <3>2, Zenon
  <2> HIDE DEF u
  <2>4. s[3] = "depth" => x # <<>>
    BY <1>1, <1>2, <1>4
  <2>5. Get(s[3], y) = Get(s[3], x)
    BY <1>2, <2>1, <2>2, <2>3, <2>4, GetExtends, Zenon
  <2>6. ReadAt(e, st, s) = u
    BY <2>2, <2>5, Zenon
  <2>7. Step(d, st, s) = Next1(st, u, s[2]) /\ Step(e, st, s) = Next1(st, u, s[2])
    BY <1>4, <2>3, <2>6, StepCases DEF u
  <2>8. u.n \in 0 .. Len(x)
    <3>1. 0 \in Nat /\ 0 <= Len(x)
      BY <1>1, <1>2
    <3>2. ReadOut(s[3], x, 0)
      BY <1>2, <2>1, <3>1, GetOut, Zenon
    <3> QED BY <2>2, <2>3, <3>2, Zenon DEF ReadOut
  <2>9. Next1(st, u, s[2]).pos = a + u.n
    BY Zenon DEF Next1
  <2> HIDE DEF a
  <2>10. a + u.n \in 0 .. Len(d)
    BY <1>1, <1>2, <2>8
  <2> QED BY <2>7, <2>9, <2>10, Zenon
<1> QED BY <1>3, <1>4, Zenon

\* A run that is ok after n steps is the same when more bytes follow, unless a missing depth
\* was read as 0.
LEMMA RunExtends ==
    ASSUME NEW D, Program(D), NEW d \in Seq(Byte), NEW e \in Seq(Byte), Begins(d, e),
           NEW at, IsRun(D, d, at), NEW bt, IsRun(D, e, bt), NEW n \in 0 .. Len(D), at[n].out = "ok",
           \A i \in 1 .. n : D[i][1] # "need" /\ D[i][3] = "depth" => at[i - 1].pos # Len(d),
           NEW i \in 0 .. n
    PROVE  at[i] = bt[i] /\ at[i].pos \in 0 .. Len(d)
<1>1. Len(D) \in Nat /\ n \in Nat /\ n <= Len(D) /\ Len(d) \in Nat
  BY DEF Program
<1> DEFINE T == {k \in 0 .. n : ~(at[k] = bt[k] /\ at[k].pos \in 0 .. Len(d))}
<1>2. T = {}
  <2> SUFFICES ASSUME T # {} PROVE FALSE
    BY Zenon
  <2>1. PICK k \in T : \A y \in T : k <= y
    <3>1. T \in SUBSET Nat
      BY <1>1
    <3> HIDE DEF T
    <3> QED BY <3>1, LeastNat, Zenon
  <2>2. k \in 0 .. n /\ ~(at[k] = bt[k] /\ at[k].pos \in 0 .. Len(d))
    BY <2>1, Zenon
  <2>3. k # 0
    <3>1. at[0] = Start /\ bt[0] = Start
      BY Zenon DEF IsRun
    <3> QED BY <1>1, <2>2, <3>1 DEF Start
  <2>4. k - 1 \in 0 .. n /\ k - 1 \notin T /\ k \in 1 .. n /\ k \in 1 .. Len(D)
    <3> HIDE DEF T
    <3> QED BY <1>1, <2>1, <2>2, <2>3
  <2>5. at[k - 1] = bt[k - 1] /\ at[k - 1].pos \in 0 .. Len(d)
    BY <2>4, Zenon
  <2> HIDE DEF T
  <2> DEFINE st == at[k - 1]
             s == D[k]
  <2>6. at[k] = Step(d, st, s) /\ bt[k] = Step(e, st, s) /\ IsStep(s)
    BY <2>4, <2>5, Zenon DEF IsRun, Program
  <2>7. st.out = "ok" /\ at[k].out = "ok"
    BY <2>2, <2>4, RunOk, Zenon
  <2>8. s[1] # "need" /\ s[3] = "depth" => st.pos # Len(d)
    BY <2>4, Zenon
  <2>9. st.pos \in 0 .. Len(d)
    BY <2>5, Zenon
  <2> HIDE DEF st, s
  <2>10. Step(d, st, s).out = "ok"
    BY <2>6, <2>7, Zenon
  <2>11. Step(e, st, s) = Step(d, st, s) /\ Step(d, st, s).pos \in 0 .. Len(d)
    <3>1. d \in Seq(Byte) /\ e \in Seq(Byte) /\ Begins(d, e)
      BY Zenon
    <3> QED BY ONLY <2>6, <2>7, <2>8, <2>9, <2>10, <3>1, SameStep, Zenon
  <2> QED BY <2>2, <2>6, <2>11, Zenon
<1> QED BY <1>2, Zenon

-----------------------------------------------------------------------------
(* What makes a decoder fit its encoder.                                   *)

\* The read kk is one for a field f of kind k.
ReadsAs(kk, f, k) == kk = k \/ (kk = "v5" /\ f = "version" /\ k = "u8") \/ (kk = "cell" /\ k = "vec")

\* Before step i of the decoder D, at least w[i] more bytes are known to be there and the
\* first g[i] fields of the layout L have been read; from the j-th field on, at least r[j]
\* bytes come.
StepFits(s, L, a, b, h, t, r) ==
    \/ /\ s[1] = "need" /\ s[2] \in Nat /\ b = s[2] /\ t = h /\ s[2] <= r[h + 1]
    \/ /\ s[1] = "get" /\ s[3] \in ReadKind /\ Needs(s[3]) <= a /\ b <= Left(s[3], a)
       /\ t = h + 1 /\ L[h + 1][1] = s[2] /\ ReadsAs(s[3], s[2], L[h + 1][2])

Fits(D, L, w, g, r) ==
    /\ Len(D) \in Nat /\ w[1] = 0 /\ g[1] = 0 /\ g[Len(D) + 1] = Len(L) /\ r[Len(L) + 1] = 0
    /\ \A i \in 1 .. Len(D) : /\ w[i] \in Nat /\ w[i + 1] \in Nat
                              /\ g[i] \in 0 .. Len(L) /\ g[i + 1] \in 0 .. Len(L)
                              /\ StepFits(D[i], L, w[i], w[i + 1], g[i], g[i + 1], r)

LayoutFits(L, r) ==
    /\ Len(L) \in Nat /\ DOMAIN L = 1 .. Len(L) /\ r[Len(L) + 1] \in Nat
    /\ \A j \in 1 .. Len(L) : /\ L[j][2] \in FieldKind /\ r[j] \in Nat /\ r[j] <= Least(L[j][2]) + r[j + 1]
                              /\ L[j][2] = "str" => Width["sig"] <= r[j + 1]
    /\ \A i, j \in 1 .. Len(L) : L[i][1] = L[j][1] => i = j

LEMMA FitsProgram ==
    ASSUME NEW D, NEW L, NEW w, NEW g, NEW r, Fits(D, L, w, g, r)
    PROVE  Program(D)
BY Zenon DEF Fits, Program, StepFits, IsStep

Safe(d, st, a) ==
    /\ st.out \in {"ok", "bail"} /\ st.pos \in Nat
    /\ st.out = "ok" => st.pos <= Len(d) /\ a <= Len(d) - st.pos

LEMMA SafeStep ==
    ASSUME NEW d \in Seq(Byte), NEW st, NEW s, NEW L, NEW a \in Nat, NEW b \in Nat, NEW h, NEW t, NEW r,
           StepFits(s, L, a, b, h, t, r), Safe(d, st, a)
    PROVE  Safe(d, Step(d, st, s), b)
<1> DEFINE p == st.pos
           q == Step(d, st, s)
<1> SUFFICES Safe(d, q, b)
  BY Zenon
<1>1. Len(d) \in Nat /\ p \in Nat /\ st.out \in {"ok", "bail"}
  BY DEF Safe
<1>2. CASE st.out # "ok"
  <2>1. q = st
    BY <1>2, StepCases, Zenon
  <2> HIDE DEF q
  <2> QED BY <1>1, <1>2, <2>1, Zenon DEF Safe
<1>3. CASE st.out = "ok" /\ s[1] = "need"
  <2>1. b = s[2]
    BY <1>3, Zenon DEF StepFits
  <2>2. q = IF Len(d) - p < s[2] THEN Stopped("bail", st) ELSE st
    BY <1>3, StepCases, Zenon
  <2>3. p <= Len(d)
    BY <1>3, Zenon DEF Safe
  <2> HIDE DEF q
  <2>4. CASE Len(d) - p < s[2]
    <3>1. q.out = "bail" /\ q.pos = p
      BY <2>2, <2>4, Zenon DEF Stopped
    <3> QED BY <1>1, <3>1, Zenon DEF Safe
  <2>5. CASE ~(Len(d) - p < s[2])
    <3>1. q = st
      BY <2>2, <2>5, Zenon
    <3>2. b <= Len(d) - p
      BY <1>1, <2>1, <2>3, <2>5
    <3> QED BY <1>1, <2>3, <3>1, <3>2, Zenon DEF Safe
  <2> QED BY <2>4, <2>5, Zenon
<1>4. CASE st.out = "ok" /\ s[1] # "need"
  <2> DEFINE x == Rest(d, p)
             u == ReadAt(d, st, s)
  <2>1. s[3] \in ReadKind /\ Needs(s[3]) <= a /\ b <= Left(s[3], a)
    BY <1>4, Zenon DEF StepFits
  <2>2. p <= Len(d) /\ a <= Len(d) - p
    BY <1>4, Zenon DEF Safe
  <2>3. x \in Seq(Byte) /\ Len(x) = Len(d) - p /\ Len(x) \in Nat
    <3>1. Begins(d, d)
      BY <1>1 DEF Begins
    <3> HIDE DEF p
    <3> QED BY <1>1, <2>2, <3>1, RestFacts
  <2>4. u = Get(s[3], x)
    BY Zenon DEF ReadAt
  <2> HIDE DEF x, u
  <2>5. ReadOut(s[3], x, a)
    BY <2>1, <2>2, <2>3, GetOut, Zenon
  <2>6. Needs(s[3]) \in Nat
    BY Widths, Zenon DEF Needs
  <2>7. u.out \in {"ok", "bail"}
    <3>1. Needs(s[3]) <= Len(x)
      BY <2>1, <2>2, <2>3, <2>6
    <3> QED BY <2>4, <2>5, <3>1, Zenon DEF ReadOut
  <2>8. CASE u.out # "ok"
    <3>1. q = Stopped(u.out, st)
      BY <1>4, <2>8, StepCases DEF u
    <3> HIDE DEF q
    <3>2. q.out = "bail" /\ q.pos = p
      BY <2>7, <2>8, <3>1, Zenon DEF Stopped
    <3> QED BY <1>1, <3>2, Zenon DEF Safe
  <2>9. CASE u.out = "ok"
    <3>1. q = Next1(st, u, s[2])
      BY <1>4, <2>9, StepCases DEF u
    <3> HIDE DEF q
    <3>2. q.out = "ok" /\ q.pos = p + u.n
      BY <3>1, Zenon DEF Next1
    <3>3. u.n \in 0 .. Len(x) /\ Len(x) - u.n >= Left(s[3], a)
      BY <2>4, <2>5, <2>9, Zenon DEF ReadOut
    <3>4. Left(s[3], a) \in Int
      BY <2>1, Widths DEF Left
    <3> HIDE DEF p
    <3>5. p + u.n \in Nat /\ p + u.n <= Len(d) /\ b <= Len(d) - (p + u.n)
      BY <1>1, <2>1, <2>2, <2>3, <3>3, <3>4
    <3> QED BY <1>1, <3>2, <3>5, Zenon DEF Safe
  <2> QED BY <2>8, <2>9, Zenon
<1> QED BY <1>2, <1>3, <1>4, Zenon

\* A decoder that fits reads no byte that is not there.
LEMMA RunSafe ==
    ASSUME NEW D, NEW L, NEW w, NEW g, NEW r, Fits(D, L, w, g, r), NEW d \in Seq(Byte)
    PROVE  Run(D, d).out \in {"ok", "bail"}
<1>1. Len(D) \in Nat /\ Len(d) \in Nat
  BY DEF Fits
<1>2. PICK at : IsRun(D, d, at) /\ Run(D, d) = [out |-> at[Len(D)].out, m |-> at[Len(D)].m]
  BY FitsProgram, RunExists, Zenon
<1> DEFINE T == {k \in 0 .. Len(D) : ~Safe(d, at[k], w[k + 1])}
<1>3. T = {}
  <2> SUFFICES ASSUME T # {} PROVE FALSE
    BY Zenon
  <2>1. PICK k \in T : \A y \in T : k <= y
    <3>1. T \in SUBSET Nat
      BY <1>1
    <3> HIDE DEF T
    <3> QED BY <3>1, LeastNat, Zenon
  <2>2. k \in 0 .. Len(D) /\ ~Safe(d, at[k], w[k + 1])
    BY <2>1, Zenon
  <2>3. k # 0
    <3>1. at[0] = Start /\ w[0 + 1] = 0
      BY <1>2 DEF IsRun, Fits
    <3>2. Safe(d, Start, 0)
      BY <1>1 DEF Safe, Start
    <3> QED BY <2>2, <3>1, <3>2, Zenon
  <2>4. k - 1 \in 0 .. Len(D) /\ k - 1 \notin T /\ k \in 1 .. Len(D) /\ (k - 1) + 1 = k
    <3> HIDE DEF T
    <3> QED BY <1>1, <2>1, <2>2, <2>3
  <2>5. Safe(d, at[k - 1], w[k])
    BY <2>4, Zenon
  <2> HIDE DEF T
  <2>6. /\ w[k] \in Nat /\ w[k + 1] \in Nat
        /\ StepFits(D[k], L, w[k], w[k + 1], g[k], g[k + 1], r) /\ at[k] = Step(d, at[k - 1], D[k])
    BY <1>2, <2>4, Zenon DEF Fits, IsRun
  <2>7. Safe(d, Step(d, at[k - 1], D[k]), w[k + 1])
    BY <2>5, <2>6, SafeStep, Zenon
  <2> QED BY <2>2, <2>6, <2>7, Zenon
<1>4. Safe(d, at[Len(D)], w[Len(D) + 1])
  BY <1>1, <1>3
<1>5. at[Len(D)].out \in {"ok", "bail"}
  BY <1>4, Zenon DEF Safe
<1> QED BY <1>2, <1>5

-----------------------------------------------------------------------------
(* A frame and its fields.                                                 *)

Written(L, m) == [j \in DOMAIN L |-> Put(L[j][2], m[L[j][1]])]
GoodMsg(L, m) == \A j \in 1 .. Len(L) : Good(L[j][2], m[L[j][1]])

\* c[j] is what the first j fields of m take of d; enough is left behind them.
Laid(L, m, r, d, c) ==
    /\ Written(L, m) \in Seq(Seq(Byte)) /\ Len(Written(L, m)) = Len(L)
    /\ Parts(Byte, Written(L, m), c, d)
    /\ \A j \in 0 .. Len(L) : /\ Len(c[j]) \in Nat /\ Len(c[j]) <= Len(d)
                              /\ r[j + 1] <= Len(d) - Len(c[j])

LEMMA WrittenFacts ==
    ASSUME NEW L, NEW r, LayoutFits(L, r), NEW m, GoodMsg(L, m)
    PROVE  /\ Written(L, m) \in Seq(Seq(Byte)) /\ Len(Written(L, m)) = Len(L)
           /\ Fields(L, m) = Joined(Written(L, m))
           /\ \A j \in 1 .. Len(L) : /\ Written(L, m)[j] = Put(L[j][2], m[L[j][1]])
                                     /\ Len(Written(L, m)[j]) \in Nat
                                     /\ Len(Written(L, m)[j]) >= Least(L[j][2])
<1> DEFINE ss == Written(L, m)
<1>1. Len(L) \in Nat /\ DOMAIN L = 1 .. Len(L)
  BY Zenon DEF LayoutFits
<1>2. ss = [j \in 1 .. Len(L) |-> Put(L[j][2], m[L[j][1]])]
  BY <1>1, Zenon DEF Written
<1>3. ASSUME NEW j \in 1 .. Len(L)
      PROVE  /\ ss[j] = Put(L[j][2], m[L[j][1]]) /\ ss[j] \in Seq(Byte)
             /\ Len(ss[j]) \in Nat /\ Len(ss[j]) >= Least(L[j][2])
  <2>1. L[j][2] \in FieldKind /\ Good(L[j][2], m[L[j][1]])
    BY Zenon DEF LayoutFits, GoodMsg
  <2>2. ss[j] = Put(L[j][2], m[L[j][1]])
    BY <1>2, Zenon
  <2> HIDE DEF ss
  <2> QED BY <2>1, <2>2, PutBytes, Zenon
<1>4. Fields(L, m) = Joined(ss)
  BY Zenon DEF Fields, Written
<1> HIDE DEF ss
<1>5. ss \in Seq(Seq(Byte)) /\ Len(ss) = Len(L)
  <2>1. ss = [j \in 1 .. Len(L) |-> ss[j]]
    BY <1>2, Zenon
  <2> QED BY <1>1, <1>3, <2>1
<1> QED BY <1>3, <1>4, <1>5, Zenon DEF ss

LEMMA FrameParts ==
    ASSUME NEW L, NEW r, LayoutFits(L, r), NEW m, GoodMsg(L, m), NEW z \in Seq(Byte),
           r[Len(L) + 1] <= Len(z)
    PROVE  Fields(L, m) \in Seq(Byte)
           /\ \E c : Laid(L, m, r, Fields(L, m) \o z, c) /\ c[Len(L)] = Fields(L, m)
<1> DEFINE ss == Written(L, m)
           E == Fields(L, m)
           d == E \o z
           l == Len(L)
<1>1. ss \in Seq(Seq(Byte)) /\ Len(ss) = l /\ E = Joined(ss)
      /\ \A j \in 1 .. l : Len(ss[j]) \in Nat /\ Len(ss[j]) >= Least(L[j][2])
  BY WrittenFacts, Zenon
<1> HIDE DEF ss, E
<1>2. E \in Seq(Byte) /\ \E c : Parts(Byte, ss, c, E \o z) /\ c[Len(ss)] = E
  BY <1>1, JoinedParts, Zenon
<1>3. PICK c : Parts(Byte, ss, c, d) /\ c[l] = E
  BY <1>1, <1>2, Zenon
<1>4. d \in Seq(Byte) /\ Len(d) = Len(E) + Len(z) /\ Len(E) \in Nat /\ Len(z) \in Nat
  BY <1>2, JoinFacts
<1> HIDE DEF d
<1>5. l \in Nat /\ r[l + 1] \in Nat
      /\ \A j \in 1 .. l : r[j] \in Nat /\ r[j] <= Least(L[j][2]) + r[j + 1] /\ Least(L[j][2]) \in Nat
  <2>1. l \in Nat /\ r[l + 1] \in Nat
    BY Zenon DEF LayoutFits
  <2>2. ASSUME NEW j \in 1 .. l
        PROVE  r[j] \in Nat /\ r[j] <= Least(L[j][2]) + r[j + 1] /\ Least(L[j][2]) \in Nat
    <3>1. r[j] \in Nat /\ r[j] <= Least(L[j][2]) + r[j + 1]
      BY Zenon DEF LayoutFits
    <3>2. Least(L[j][2]) \in Nat
      BY Widths, Zenon DEF Least
    <3> QED BY <3>1, <3>2, Zenon
  <2> QED BY <2>1, <2>2, Zenon
<1>6. ASSUME NEW j \in 1 .. l
      PROVE  Len(c[j - 1]) \in Nat /\ Len(c[j]) = Len(c[j - 1]) + Len(ss[j]) /\ Len(c[j]) <= Len(d)
  <2>1. j \in 1 .. Len(ss)
    BY <1>1, Zenon
  <2>2. PartAt(ss, c, d, j)
    BY <1>1, <1>3, <1>4, <2>1, PartRead, Zenon
  <2> QED BY <2>2, Zenon DEF PartAt
<1> HIDE DEF l
<1> DEFINE P(j) == Len(c[j]) \in Nat /\ Len(c[j]) <= Len(d) /\ r[j + 1] <= Len(d) - Len(c[j])
           T == {k \in 0 .. l : ~P(l - k)}
<1>7. T = {}
  <2> SUFFICES ASSUME T # {} PROVE FALSE
    BY Zenon
  <2>1. PICK k \in T : \A y \in T : k <= y
    <3>1. T \in SUBSET Nat
      BY <1>5
    <3> HIDE DEF T
    <3> QED BY <3>1, LeastNat, Zenon
  <2>2. k \in 0 .. l /\ ~P(l - k)
    BY <2>1, Zenon
  <2>3. k # 0
    <3>1. P(l)
      BY <1>3, <1>4, <1>5 DEF l
    <3>2. l - 0 = l
      BY <1>5
    <3> HIDE DEF P
    <3> QED BY <2>2, <3>1, <3>2, Zenon
  <2>4. k - 1 \in 0 .. l /\ k - 1 \notin T
    <3> HIDE DEF T, P
    <3> QED BY <1>5, <2>1, <2>2, <2>3
  <2> DEFINE j == l - (k - 1)
  <2>5. j \in 1 .. l /\ j - 1 = l - k /\ (j - 1) + 1 = j
    BY <1>5, <2>2, <2>3, <2>4
  <2>6. P(j)
    BY <2>4, Zenon
  <2> HIDE DEF T, j
  <2>7. ~P(j - 1)
    <3> HIDE DEF P
    <3> QED BY <2>2, <2>5, Zenon
  <2> DEFINE x == Len(ss[j])
             y == Least(L[j][2])
             e == Len(c[j - 1])
  <2>8. /\ e \in Nat /\ Len(c[j]) = e + x /\ x \in Nat /\ x >= y /\ y \in Nat
        /\ r[j] \in Nat /\ r[j] <= y + r[j + 1] /\ r[j + 1] <= Len(d) - Len(c[j])
        /\ Len(c[j]) <= Len(d)
    BY <1>1, <1>5, <1>6, <2>5, <2>6, Zenon DEF l
  <2>9. r[j + 1] \in Nat
    <3>1. j + 1 = l + 1 \/ j + 1 \in 1 .. l
      BY <1>5, <2>5
    <3> QED BY <1>5, <3>1, Zenon
  <2>10. ~(e \in Nat /\ e <= Len(d) /\ r[j] <= Len(d) - e)
    BY <2>5, <2>7, Zenon
  <2> HIDE DEF x, y, e, P
  <2>11. e <= Len(d) /\ r[j] <= Len(d) - e
    BY <1>4, <2>8, <2>9
  <2> QED BY <2>8, <2>10, <2>11, Zenon
<1>8. ASSUME NEW j \in 0 .. l PROVE P(j)
  <2>1. l - j \in 0 .. l /\ l - (l - j) = j
    BY <1>5
  <2> HIDE DEF P
  <2> QED BY <1>7, <2>1, Zenon
<1>9. Laid(L, m, r, d, c)
  BY <1>1, <1>3, <1>8, Zenon DEF Laid, ss, l
<1> QED BY <1>2, <1>3, <1>9, Zenon DEF E, d, l

\* The j-th field of a frame reads back.
FieldAt(L, m, d, c, j, kk) ==
    /\ Get(kk, Rest(d, Len(c[j - 1]))) = Ok(Seen(L[j][2], m[L[j][1]]), Len(Put(L[j][2], m[L[j][1]])))
    /\ Len(c[j]) = Len(c[j - 1]) + Len(Put(L[j][2], m[L[j][1]]))

\* The bytes b begin with those of a good value v of kind k, which take them from a to n.
Starts(k, v, b, a, n) ==
    /\ k \in FieldKind /\ Good(k, v) /\ n = a + Len(Put(k, v))
    /\ \E z \in Seq(Byte) : b = Put(k, v) \o z /\ (k = "str" => Width["sig"] <= Len(z))

LEMMA FieldBytes ==
    ASSUME NEW L, NEW r, LayoutFits(L, r), NEW m, GoodMsg(L, m), NEW d \in Seq(Byte), NEW c,
           Laid(L, m, r, d, c), NEW j \in 1 .. Len(L)
    PROVE  Starts(L[j][2], m[L[j][1]], Rest(d, Len(c[j - 1])), Len(c[j - 1]), Len(c[j]))
<1> DEFINE ss == Written(L, m)
           k == L[j][2]
           v == m[L[j][1]]
           z == Rest(d, Len(c[j]))
<1>1. ss \in Seq(Seq(Byte)) /\ Len(ss) = Len(L) /\ Parts(Byte, ss, c, d) /\ ss[j] = Put(k, v)
  BY WrittenFacts, Zenon DEF Laid
<1>2. Len(L) \in Nat /\ k \in FieldKind /\ Good(k, v) /\ (k = "str" => Width["sig"] <= r[j + 1])
  BY Zenon DEF LayoutFits, GoodMsg
<1>3. r[j + 1] <= Len(d) - Len(c[j]) /\ Len(c[j]) \in Nat /\ Len(c[j]) <= Len(d)
  <2>1. j \in 0 .. Len(L)
    BY <1>2
  <2> QED BY <2>1, Zenon DEF Laid
<1>4. r[j + 1] \in Nat
  <2>1. j + 1 = Len(L) + 1 \/ j + 1 \in 1 .. Len(L)
    BY <1>2
  <2> QED BY <2>1, Zenon DEF LayoutFits
<1> HIDE DEF ss
<1>5. PartAt(ss, c, d, j)
  <2>1. j \in 1 .. Len(ss)
    BY <1>1, Zenon
  <2> QED BY <1>1, <2>1, PartRead, Zenon
<1>6. /\ Len(c[j]) = Len(c[j - 1]) + Len(ss[j]) /\ z \in Seq(Byte)
      /\ Len(z) = Len(d) - Len(c[j]) /\ Rest(d, Len(c[j - 1])) = ss[j] \o z
  BY <1>5, Zenon DEF PartAt
<1> HIDE DEF z
<1>7. k = "str" => Width["sig"] <= Len(z)
  <2> DEFINE a == Width["sig"]
  <2>1. a \in Nat /\ (k = "str" => a <= r[j + 1]) /\ Len(d) \in Nat
    BY <1>2, Widths
  <2> DEFINE b == r[j + 1]
             n == Len(c[j])
  <2>2. b \in Nat /\ n \in Nat /\ b <= Len(d) - n /\ Len(z) = Len(d) - n
    BY <1>3, <1>4, <1>6, Zenon
  <2>3. k = "str" => a <= b
    BY <2>1, Zenon
  <2> HIDE DEF a, b, n, k
  <2>4. k = "str" => a <= Len(z)
    BY ONLY <2>1, <2>2, <2>3
  <2> QED BY <2>4, Zenon DEF a
<1> HIDE DEF k, v
<1>8. Starts(k, v, Rest(d, Len(c[j - 1])), Len(c[j - 1]), Len(c[j]))
  BY <1>1, <1>2, <1>6, <1>7, Zenon DEF Starts
<1> QED BY <1>8, Zenon DEF k, v

LEMMA FieldRead ==
    ASSUME NEW L, NEW r, LayoutFits(L, r), NEW m, GoodMsg(L, m), NEW d \in Seq(Byte), NEW c,
           Laid(L, m, r, d, c), NEW j \in 1 .. Len(L), NEW kk, Reads(kk, L[j][2], m[L[j][1]])
    PROVE  FieldAt(L, m, d, c, j, kk)
<1> DEFINE k == L[j][2]
           v == m[L[j][1]]
<1>0. Reads(kk, k, v) /\ Starts(k, v, Rest(d, Len(c[j - 1])), Len(c[j - 1]), Len(c[j]))
  BY FieldBytes, Zenon
<1> HIDE DEF k, v
<1>1. k \in FieldKind /\ Good(k, v) /\ Len(c[j]) = Len(c[j - 1]) + Len(Put(k, v))
  BY <1>0, Zenon DEF Starts
<1>2. PICK z \in Seq(Byte) : /\ Rest(d, Len(c[j - 1])) = Put(k, v) \o z
                             /\ k = "str" => Width["sig"] <= Len(z)
  BY <1>0, Zenon DEF Starts
<1>4. Get(kk, Put(k, v) \o z) = Ok(Seen(k, v), Len(Put(k, v)))
  BY ONLY <1>0, <1>1, <1>2, PutRead, Zenon
<1> QED BY <1>1, <1>2, <1>4, Zenon DEF k, v, FieldAt

\* q holds the first j fields of m as they were written.
Holds(L, m, j, q) ==
    /\ DOMAIN q = {L[x][1] : x \in 1 .. j} /\ q = [f \in DOMAIN q |-> q[f]]
    /\ \A x \in 1 .. j : q[L[x][1]] = Seen(L[x][2], m[L[x][1]])

LEMMA HoldsAssign ==
    ASSUME NEW L, NEW r, LayoutFits(L, r), NEW m, NEW j \in 1 .. Len(L), NEW q, Holds(L, m, j - 1, q)
    PROVE  Holds(L, m, j, Assign(q, L[j][1], Seen(L[j][2], m[L[j][1]])))
<1> DEFINE f == L[j][1]
           v == Seen(L[j][2], m[L[j][1]])
           p == Assign(q, f, v)
<1>1. Len(L) \in Nat /\ \A x, y \in 1 .. Len(L) : L[x][1] = L[y][1] => x = y
  BY Zenon DEF LayoutFits
<1>2. /\ DOMAIN q = {L[x][1] : x \in 1 .. (j - 1)}
      /\ \A x \in 1 .. (j - 1) : q[L[x][1]] = Seen(L[x][2], m[L[x][1]])
  BY Zenon DEF Holds
<1> HIDE DEF f, v
<1>3. /\ DOMAIN p = DOMAIN q \cup {f} /\ p[f] = v /\ \A x \in DOMAIN q : x # f => p[x] = q[x]
      /\ p = [x \in DOMAIN q \cup {f} |-> p[x]]
  BY Zenon DEF Assign
<1> HIDE DEF p
<1> USE DEF f, v
<1>4. DOMAIN p = {L[x][1] : x \in 1 .. j}
  <2>1. \A x \in 1 .. j : x \in 1 .. (j - 1) \/ x = j
    OBVIOUS
  <2>2. j \in 1 .. j /\ \A x \in 1 .. (j - 1) : x \in 1 .. j
    OBVIOUS
  <2> QED BY <1>2, <1>3, <2>1, <2>2
<1>5. ASSUME NEW x \in 1 .. j PROVE p[L[x][1]] = Seen(L[x][2], m[L[x][1]])
  <2>1. CASE x = j
    BY <1>3, <2>1, Zenon
  <2>2. CASE x # j
    <3>1. x \in 1 .. (j - 1) /\ x \in 1 .. Len(L)
      BY <1>1, <2>2
    <3>2. L[x][1] # f /\ L[x][1] \in DOMAIN q
      BY <1>1, <1>2, <2>2, <3>1, Zenon
    <3> QED BY <1>2, <1>3, <3>1, <3>2, Zenon
  <2> QED BY <2>1, <2>2, Zenon
<1>6. p = [x \in DOMAIN p |-> p[x]]
  BY <1>3, Zenon
<1>7. Holds(L, m, j, p)
  BY <1>4, <1>5, <1>6, Zenon DEF Holds
<1> QED BY <1>7, Zenon DEF p

Trip(L, m, c, j, st) == st.out = "ok" /\ st.pos = Len(c[j]) /\ Holds(L, m, j, st.m)

\* The reads that the values of m allow.
Readable(D, L, m, g, n) ==
    \A i \in 1 .. n : D[i][1] = "get" => Reads(D[i][3], L[g[i] + 1][2], m[D[i][2]])

LEMMA TripStep ==
    ASSUME NEW L, NEW r, LayoutFits(L, r), NEW m, GoodMsg(L, m), NEW d \in Seq(Byte), NEW c,
           Laid(L, m, r, d, c), NEW s, NEW a, NEW b, NEW h \in 0 .. Len(L), NEW t \in 0 .. Len(L),
           StepFits(s, L, a, b, h, t, r), s[1] = "get" => Reads(s[3], L[h + 1][2], m[s[2]]),
           NEW st, Trip(L, m, c, h, st)
    PROVE  Trip(L, m, c, t, Step(d, st, s))
<1>1. st.out = "ok" /\ st.pos = Len(c[h]) /\ Holds(L, m, h, st.m)
  BY Zenon DEF Trip
<1>2. Len(L) \in Nat
  BY Zenon DEF LayoutFits
<1>3. CASE s[1] = "need"
  <2>1. s[2] \in Nat /\ t = h /\ s[2] <= r[h + 1]
    BY <1>3, Zenon DEF StepFits
  <2>2. Len(c[h]) \in Nat /\ r[h + 1] <= Len(d) - Len(c[h]) /\ Len(d) \in Nat /\ Len(c[h]) <= Len(d)
    BY DEF Laid
  <2>3. r[h + 1] \in Nat
    <3>1. h + 1 = Len(L) + 1 \/ h + 1 \in 1 .. Len(L)
      BY <1>2
    <3> QED BY <3>1, Zenon DEF LayoutFits
  <2> DEFINE x == s[2]
             y == r[h + 1]
             p == Len(c[h])
  <2>4. x \in Nat /\ x <= y /\ p \in Nat /\ y <= Len(d) - p /\ y \in Nat /\ Len(d) \in Nat /\ p <= Len(d)
    BY <2>1, <2>2, <2>3, Zenon
  <2>5. Step(d, st, s) = IF Len(d) - st.pos < s[2] THEN Stopped("bail", st) ELSE st
    BY <1>1, <1>3, StepCases, Zenon
  <2>6. Step(d, st, s) = IF Len(d) - p < x THEN Stopped("bail", st) ELSE st
    BY <1>1, <2>5, Zenon
  <2> HIDE DEF x, y, p
  <2>7. ~(Len(d) - p < x)
    BY ONLY <2>4
  <2>8. Step(d, st, s) = st
    BY ONLY <2>6, <2>7, Zenon
  <2> QED BY <2>1, <2>8, Zenon
<1>4. CASE s[1] # "need"
  <2> DEFINE j == h + 1
             k == L[j][2]
             v == m[L[j][1]]
             n == Len(Put(k, v))
             u == ReadAt(d, st, s)
  <2>1. s[1] = "get" /\ t = h + 1 /\ L[h + 1][1] = s[2]
    BY <1>4, Zenon DEF StepFits
  <2>2. j \in 1 .. Len(L) /\ j - 1 = h /\ t = j
    BY <1>2, <2>1
  <2>3. Reads(s[3], k, v)
    BY <2>1, Zenon
  <2>4. /\ Get(s[3], Rest(d, Len(c[j - 1]))) = Ok(Seen(k, v), n) /\ Len(c[j]) = Len(c[j - 1]) + n
    <3>1. FieldAt(L, m, d, c, j, s[3])
      <4> HIDE DEF j
      <4> QED BY <2>2, <2>3, FieldRead, Zenon
    <3> HIDE DEF j
    <3> QED BY <3>1, Zenon DEF FieldAt
  <2>5. Get(s[3], Rest(d, Len(c[h]))) = Ok(Seen(k, v), n) /\ Len(c[j]) = Len(c[h]) + n
    <3> HIDE DEF j, k, v, n
    <3> QED BY ONLY <2>2, <2>4, Zenon
  <2>6. u.out = "ok" /\ u.v = Seen(k, v) /\ u.n = n
    <3>1. u = Get(s[3], Rest(d, Len(c[h])))
      BY <1>1, Zenon DEF ReadAt
    <3> HIDE DEF j, k, v, n, u
    <3> QED BY <2>5, <3>1 DEF Ok
  <2>7. Step(d, st, s) = Next1(st, u, s[2])
    <3>1. u.out = "ok"
      BY <2>6, Zenon
    <3> QED BY ONLY <1>1, <1>4, <3>1, StepCases
  <2>8. Holds(L, m, j, Assign(st.m, L[j][1], Seen(L[j][2], m[L[j][1]])))
    <3>1. Holds(L, m, j - 1, st.m)
      BY <1>1, <2>2, Zenon
    <3> HIDE DEF j
    <3> QED BY <2>2, <3>1, HoldsAssign, Zenon
  <2>9. s[2] = L[j][1]
    BY <2>1, Zenon
  <2> HIDE DEF u
  <2> DEFINE q == Step(d, st, s)
  <2>10. q.out = "ok" /\ q.pos = st.pos + u.n /\ q.m = Assign(st.m, s[2], u.v)
    BY <2>7 DEF Next1
  <2> HIDE DEF q
  <2>11. q.pos = Len(c[j])
    <3> HIDE DEF j, n, k, v
    <3> QED BY ONLY <1>1, <2>5, <2>6, <2>10, Zenon
  <2>12. Holds(L, m, j, q.m)
    <3>1. q.m = Assign(st.m, L[j][1], Seen(L[j][2], m[L[j][1]]))
      BY <2>6, <2>9, <2>10, Zenon
    <3> HIDE DEF j, n, k, v
    <3> QED BY ONLY <2>8, <3>1, Zenon
  <2>13. Trip(L, m, c, j, q)
    BY <2>10, <2>11, <2>12, Zenon DEF Trip
  <2> QED BY <2>2, <2>13, Zenon DEF q
<1> QED BY <1>3, <1>4, Zenon

\* After n steps over a frame of m, the decoder stands behind the fields it read and holds
\* them as they were written.
LEMMA RunTrip ==
    ASSUME NEW D, NEW L, NEW w, NEW g, NEW r, Fits(D, L, w, g, r), LayoutFits(L, r),
           NEW m, GoodMsg(L, m), NEW d \in Seq(Byte), NEW c, Laid(L, m, r, d, c),
           NEW at, IsRun(D, d, at), NEW n \in 0 .. Len(D), Readable(D, L, m, g, n)
    PROVE  Trip(L, m, c, g[n + 1], at[n])
<1>1. Len(D) \in Nat /\ n \in Nat /\ n <= Len(D)
  BY DEF Fits
<1> DEFINE T == {k \in 0 .. n : ~Trip(L, m, c, g[k + 1], at[k])}
<1>2. T = {}
  <2> SUFFICES ASSUME T # {} PROVE FALSE
    BY Zenon
  <2>1. PICK k \in T : \A y \in T : k <= y
    <3>1. T \in SUBSET Nat
      BY <1>1
    <3> HIDE DEF T
    <3> QED BY <3>1, LeastNat, Zenon
  <2>2. k \in 0 .. n /\ ~Trip(L, m, c, g[k + 1], at[k])
    BY <2>1, Zenon
  <2>3. k # 0
    <3>1. at[0] = Start /\ g[0 + 1] = 0
      BY DEF IsRun, Fits
    <3>2. c[0] = <<>>
      BY Zenon DEF Laid, Parts
    <3>3. Holds(L, m, 0, <<>>)
      BY DEF Holds
    <3>4. Trip(L, m, c, 0, Start)
      BY <3>2, <3>3, Zenon DEF Trip, Start
    <3> QED BY <2>2, <3>1, <3>4, Zenon
  <2>4. k - 1 \in 0 .. n /\ k - 1 \notin T /\ k \in 1 .. Len(D) /\ k \in 1 .. n /\ (k - 1) + 1 = k
    <3> HIDE DEF T
    <3> QED BY <1>1, <2>1, <2>2, <2>3
  <2>5. Trip(L, m, c, g[k], at[k - 1])
    BY <2>4, Zenon
  <2> HIDE DEF T
  <2> DEFINE s == D[k]
             h == g[k]
             t == g[k + 1]
             st == at[k - 1]
  <2>6. /\ StepFits(s, L, w[k], w[k + 1], h, t, r) /\ h \in 0 .. Len(L) /\ t \in 0 .. Len(L)
        /\ at[k] = Step(d, st, s) /\ (s[1] = "get" => Reads(s[3], L[h + 1][2], m[s[2]]))
    BY <2>4, Zenon DEF Fits, IsRun, Readable
  <2>7. Trip(L, m, c, h, st)
    BY <2>5, Zenon
  <2> HIDE DEF s, h, st
  <2>8. Trip(L, m, c, t, Step(d, st, s))
    <3> HIDE DEF t
    <3> QED BY <2>6, <2>7, TripStep, Zenon
  <2> QED BY <2>2, <2>6, <2>8, Zenon
<1>3. n \in 0 .. n
  BY <1>1
<1> QED BY <1>2, <1>3, Zenon

\* Two messages with the same bytes carry the same values.
LEMMA SameBytes ==
    ASSUME NEW L, NEW r, LayoutFits(L, r), NEW m, GoodMsg(L, m), NEW o, GoodMsg(L, o),
           Fields(L, m) = Fields(L, o), NEW j \in 1 .. Len(L)
    PROVE  Seen(L[j][2], m[L[j][1]]) = Seen(L[j][2], o[L[j][1]])
<1>1. Len(L) \in Nat /\ r[Len(L) + 1] \in Nat
  BY Zenon DEF LayoutFits
<1> DEFINE z == [i \in 1 .. r[Len(L) + 1] |-> Digit(0)]
           d == Fields(L, m) \o z
<1>2. z \in Seq(Byte) /\ Len(z) = r[Len(L) + 1]
  BY <1>1, ByteFacts
<1> HIDE DEF z
<1>3. r[Len(L) + 1] <= Len(z)
  BY <1>1, <1>2
<1>4. Fields(L, m) \in Seq(Byte) /\ \E c : Laid(L, m, r, Fields(L, m) \o z, c) /\ c[Len(L)] = Fields(L, m)
  BY <1>2, <1>3, FrameParts, Zenon
<1>5. \E c : Laid(L, o, r, Fields(L, o) \o z, c) /\ c[Len(L)] = Fields(L, o)
  BY <1>2, <1>3, FrameParts
<1>6. PICK c : Laid(L, m, r, d, c)
  BY <1>4, Zenon
<1>7. PICK e : Laid(L, o, r, d, e)
  BY <1>5, Zenon
<1>8. d \in Seq(Byte)
  BY <1>2, <1>4, JoinFacts, Zenon
<1> HIDE DEF d
<1>9. ASSUME NEW k \in 1 .. Len(L), Len(c[k - 1]) = Len(e[k - 1])
      PROVE  /\ Seen(L[k][2], m[L[k][1]]) = Seen(L[k][2], o[L[k][1]]) /\ Len(c[k]) = Len(e[k])
  <2> DEFINE f == L[k][2]
             x == m[L[k][1]]
             y == o[L[k][1]]
             a == Len(c[k - 1])
  <2>1. Len(e[k - 1]) = a
    BY <1>9, Zenon
  <2>2. Starts(f, x, Rest(d, a), a, Len(c[k]))
    BY <1>6, <1>8, FieldBytes, Zenon
  <2>3. Starts(f, y, Rest(d, a), a, Len(e[k]))
    <3>1. Starts(f, y, Rest(d, Len(e[k - 1])), Len(e[k - 1]), Len(e[k]))
      BY <1>7, <1>8, FieldBytes, Zenon
    <3> HIDE DEF a
    <3> QED BY <2>1, <3>1, Zenon
  <2> HIDE DEF f, x, y, a
  <2>4. PICK p \in Seq(Byte) : Rest(d, a) = Put(f, x) \o p /\ (f = "str" => Width["sig"] <= Len(p))
    BY <2>2, Zenon DEF Starts
  <2>5. PICK q \in Seq(Byte) : Rest(d, a) = Put(f, y) \o q /\ (f = "str" => Width["sig"] <= Len(q))
    BY <2>3, Zenon DEF Starts
  <2>6. f \in FieldKind /\ Good(f, x) /\ Good(f, y) /\ Len(c[k]) = a + Len(Put(f, x))
        /\ Len(e[k]) = a + Len(Put(f, y))
    BY <2>2, <2>3, Zenon DEF Starts
  <2>7. Seen(f, x) = Seen(f, y) /\ Len(Put(f, x)) = Len(Put(f, y))
    <3>1. CASE f # "str"
      <4>1. Reads(f, f, x) /\ Reads(f, f, y)
        BY <3>1, Zenon DEF Reads
      <4>2. Get(f, Put(f, x) \o p) = Ok(Seen(f, x), Len(Put(f, x)))
        BY <2>6, <2>4, <4>1, PutRead, Zenon
      <4>3. Get(f, Put(f, y) \o q) = Ok(Seen(f, y), Len(Put(f, y)))
        BY <2>6, <2>5, <4>1, PutRead, Zenon
      <4>4. Ok(Seen(f, x), Len(Put(f, x))) = Ok(Seen(f, y), Len(Put(f, y)))
        BY <2>4, <2>5, <4>2, <4>3, Zenon
      <4> QED BY <4>4, Zenon DEF Ok
    <3>2. CASE f = "str"
      <4> DEFINE b == Rest(d, a)
      <4>1. x \in Seq(Byte) /\ y \in Seq(Byte)
        BY <2>6, <3>2, Zenon DEF Good
      <4>2. /\ Value(b[1]) = Len(Clamp(x)) /\ Len(Put(f, x)) = 1 + Len(Clamp(x))
            /\ SubSeq(b, 2, 1 + Len(Clamp(x))) = Clamp(x)
        BY <2>4, <3>2, <4>1, StrRead, Zenon
      <4>3. /\ Value(b[1]) = Len(Clamp(y)) /\ Len(Put(f, y)) = 1 + Len(Clamp(y))
            /\ SubSeq(b, 2, 1 + Len(Clamp(y))) = Clamp(y)
        BY <2>5, <3>2, <4>1, StrRead, Zenon
      <4> HIDE DEF b
      <4>4. Clamp(x) = Clamp(y)
        BY <4>2, <4>3, Zenon
      <4> QED BY <3>2, <4>2, <4>3, <4>4, Zenon DEF Seen
    <3> QED BY <3>1, <3>2, Zenon
  <2> QED BY <2>6, <2>7, Zenon DEF f, x, y
<1> DEFINE T == {k \in 0 .. Len(L) : Len(c[k]) # Len(e[k])}
<1>10. T = {}
  <2> SUFFICES ASSUME T # {} PROVE FALSE
    BY Zenon
  <2>1. PICK k \in T : \A y \in T : k <= y
    <3>1. T \in SUBSET Nat
      BY <1>1
    <3> HIDE DEF T
    <3> QED BY <3>1, LeastNat, Zenon
  <2>2. k \in 0 .. Len(L) /\ Len(c[k]) # Len(e[k])
    BY <2>1, Zenon
  <2>3. k # 0
    <3>1. c[0] = <<>> /\ e[0] = <<>>
      BY <1>6, <1>7, Zenon DEF Laid, Parts
    <3> QED BY <2>2, <3>1, Zenon
  <2>4. k - 1 \in 0 .. Len(L) /\ k - 1 \notin T /\ k \in 1 .. Len(L)
    <3> HIDE DEF T
    <3> QED BY <1>1, <2>1, <2>2, <2>3
  <2>5. Len(c[k - 1]) = Len(e[k - 1])
    BY <2>4, Zenon
  <2> HIDE DEF T
  <2> QED BY <1>9, <2>2, <2>4, <2>5, Zenon
<1>11. Len(c[j - 1]) = Len(e[j - 1])
  <2>1. j - 1 \in 0 .. Len(L)
    BY <1>1
  <2> QED BY <1>10, <2>1, Zenon
<1> HIDE DEF T
<1> QED BY <1>9, <1>11, Zenon

=============================================================================
