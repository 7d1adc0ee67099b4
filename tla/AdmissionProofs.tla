-------------------------- MODULE AdmissionProofs --------------------------
(***************************************************************************)
(* Proofs about whose handshakes are let in (InitAdmission), which peers   *)
(* are kept (PeerHealth) and which are dialled (Dialing), for every number *)
(* of sources and dials, every table size and quota, and every timing of   *)
(* the frames.                                                             *)
(***************************************************************************)
EXTENDS InitAdmission, PeerHealth, Dialing, FiniteSetTheorems, WellFoundedInduction, TLAPS

(* The rate limit. *)

\* A set of naturals that is not empty has a least element.
LEMMA LeastNat ==
    ASSUME NEW T \in SUBSET Nat, T # {}
    PROVE  \E x \in T : \A y \in T : x <= y
<1>1. PICK x \in T : \A y \in T : ~(<<y, x>> \in OpToRel(<, Nat))
  BY WFMin, NatLessThanWellFounded, Zenon
<1>2. \A y \in T : ~(y < x)
  BY <1>1, Zenon DEF OpToRel
<1> QED BY <1>2


\* Times in the order in which they were logged.
Ordered(log) == \A i, j \in 1 .. Len(log) : i <= j => log[i] <= log[j]

\* entry.retain drops the old times and no other.
LEMMA RetainDropsOld ==
    ASSUME now \in Nat, NEW s, Logged(s) \in Seq(Nat), Ordered(Logged(s))
    PROVE  \E k \in 0 .. Len(Logged(s)) :
               /\ Retained(s) = SubSeq(Logged(s), k + 1, Len(Logged(s)))
               /\ \A i \in 1 .. k : ~Recent(Logged(s)[i])
               /\ \A i \in k + 1 .. Len(Logged(s)) : Recent(Logged(s)[i])
<1> DEFINE log == Logged(s)
           L == Len(log)
           T == {i \in 1 .. L + 1 : i = L + 1 \/ Recent(log[i])}
           Old == {i \in DOMAIN log : ~Recent(log[i])}
<1>1. L \in Nat /\ DOMAIN log = 1 .. L /\ \A i \in 1 .. L : log[i] \in Nat
  OBVIOUS
<1>2. Retained(s) = SubSeq(log, Cardinality(Old) + 1, L)
  BY Zenon DEF Retained
<1> HIDE DEF log
<1>3. PICK f \in T : \A j \in T : f <= j
  <2>1. T \in SUBSET Nat /\ L + 1 \in T
    BY <1>1
  <2> HIDE DEF T, L
  <2> QED BY <2>1, LeastNat, Zenon
<1>4. f \in 1 .. L + 1
  BY <1>3, Zenon
<1>5. \A i \in 1 .. L : i < f => ~Recent(log[i])
  BY <1>1, <1>3, <1>4
<1>6. \A i \in 1 .. L : i >= f => Recent(log[i])
  <2> SUFFICES ASSUME NEW i \in 1 .. L, i >= f PROVE Recent(log[i])
    BY Zenon
  <2>1. f \in 1 .. L /\ Recent(log[f])
    BY <1>1, <1>3, <1>4
  <2>2. log[f] <= log[i] /\ log[f] \in Nat /\ log[i] \in Nat
    BY <1>1, <2>1, Zenon DEF Ordered, log
  <2> QED BY <2>1, <2>2, AdmissionAssumption DEF Recent
<1>7. Old = 1 .. f - 1
  BY <1>1, <1>4, <1>5, <1>6
<1>8. Cardinality(Old) = f - 1
  <2>1. Cardinality(1 .. f - 1) = f - 1
    BY <1>1, <1>4, FS_Interval
  <2> QED BY <1>7, <2>1, Zenon
<1> HIDE DEF Old, L, T
<1>9. f - 1 \in 0 .. L /\ (f - 1) + 1 = f
  BY <1>1, <1>4
<1>10. Retained(s) = SubSeq(log, (f - 1) + 1, L)
  BY <1>2, <1>8, Zenon
<1>11. /\ \A i \in 1 .. f - 1 : ~Recent(log[i])
       /\ \A i \in (f - 1) + 1 .. L : Recent(log[i])
  BY <1>1, <1>4, <1>5, <1>6
<1> QED BY <1>9, <1>10, <1>11, Zenon DEF log, L


LogType ==
    /\ now \in Nat
    /\ counted \in [Source -> Seq(Nat)]
    /\ \A v \in Source : Logged(v) \in Seq(Nat)
    /\ DOMAIN init_rate_log \subseteq Source
    /\ \A m \in wire : m.from \in Honest

\* The table has the last times at which v passed the limit, and the times that
\* it no longer has are old.
LogMirrors(v) ==
    LET c == counted[v]
        log == Logged(v)
        gone == Len(c) - Len(log)
    IN  /\ Ordered(c)
        /\ \A i \in 1 .. Len(c) : c[i] <= now
        /\ Len(log) <= Len(c)
        /\ \A i \in 1 .. Len(log) : log[i] = c[gone + i]
        /\ \A i \in 1 .. gone : ~Recent(c[i])

QuotaOf(v) ==
    \A i \in 1 .. Len(counted[v]) - MAX_INITS : counted[v][i + MAX_INITS] - counted[v][i] > WINDOW

QuotaInv == LogType /\ \A v \in Source : LogMirrors(v) /\ QuotaOf(v)

\* The table of a source after a refusal.
LEMMA LimitedLogs ==
    ASSUME LogType, NEW s \in Source, Limited(s)
    PROVE  /\ \A v \in Source : Logged(v)' = Logged(v) \/ (v = s /\ Logged(v)' = Retained(v))
           /\ (DOMAIN init_rate_log \subseteq Source)'
<1>1. CASE UNCHANGED init_rate_log
  BY <1>1, Zenon DEF Logged, LogType
<1>2. CASE init_rate_log' = With(init_rate_log, s, Retained(s))
  <2>1. /\ DOMAIN init_rate_log' = DOMAIN init_rate_log \cup {s}
        /\ init_rate_log'[s] = Retained(s)
        /\ \A v \in DOMAIN init_rate_log : v # s => init_rate_log'[v] = init_rate_log[v]
    BY <1>2, Zenon DEF With
  <2>2. \A v \in Source : Logged(v)' = Logged(v) \/ (v = s /\ Logged(v)' = Retained(v))
    BY <2>1, Zenon DEF Logged
  <2> QED BY <2>1, <2>2, Zenon DEF LogType
<1> QED BY <1>1, <1>2, Zenon DEF Limited

\* The tables after an init of s is counted: another source's entry is at most
\* given up when all its times are old.
LEMMA CountedLogs ==
    ASSUME LogType, NEW s \in Source, Counted(s)
    PROVE  /\ Logged(s)' = Append(Retained(s), now)
           /\ \A v \in Source \ {s} :
                 \/ Logged(v)' = Logged(v)
                 \/ Logged(v)' = <<>> /\ \A i \in DOMAIN Logged(v) : ~Recent(Logged(v)[i])
           /\ (DOMAIN init_rate_log \subseteq Source)'
<1>1. PICK victim \in Victims(s) : init_rate_log' = With(Kept(victim), s, Append(Retained(s), now))
  BY Zenon DEF Counted
<1>2. victim = {} \/ \E x \in Dormant : victim = {x}
  BY <1>1, Zenon DEF Victims
<1>3. /\ DOMAIN Kept(victim) = DOMAIN init_rate_log \ victim
      /\ \A v \in DOMAIN Kept(victim) : Kept(victim)[v] = init_rate_log[v]
  BY Zenon DEF Kept
<1>4. /\ DOMAIN init_rate_log' = (DOMAIN init_rate_log \ victim) \cup {s}
      /\ init_rate_log'[s] = Append(Retained(s), now)
      /\ \A v \in DOMAIN init_rate_log \ victim : v # s => init_rate_log'[v] = init_rate_log[v]
  BY <1>1, <1>3, Zenon DEF With
<1>5. Logged(s)' = Append(Retained(s), now)
  BY <1>4, Zenon DEF Logged
<1>6. ASSUME NEW v \in Source, v # s
      PROVE  \/ Logged(v)' = Logged(v)
             \/ Logged(v)' = <<>> /\ \A i \in DOMAIN Logged(v) : ~Recent(Logged(v)[i])
  <2>1. CASE v \in victim
    BY <1>2, <1>4, <1>6, <2>1, Zenon DEF Logged, Dormant
  <2>2. CASE v \notin victim
    BY <1>4, <1>6, <2>2, Zenon DEF Logged
  <2> QED BY <2>1, <2>2, Zenon
<1> QED BY <1>4, <1>5, <1>6, Zenon DEF LogType

\* What retain leaves of a log is the end of the times counted, and all times
\* before it are old.
LEMMA RetainedEnd ==
    ASSUME QuotaInv, NEW v \in Source
    PROVE  LET c == counted[v]
               new == Retained(v)
           IN  /\ new \in Seq(Nat) /\ Len(new) \in Nat /\ Len(new) <= Len(c)
               /\ \A i \in 1 .. Len(new) : new[i] = c[(Len(c) - Len(new)) + i]
               /\ \A i \in 1 .. Len(c) - Len(new) : ~Recent(c[i])
               /\ \A i \in 1 .. Len(new) : Recent(new[i])
<1> DEFINE c == counted[v]
           log == Logged(v)
           gone == Len(c) - Len(log)
           new == Retained(v)
<1>1. /\ now \in Nat /\ c \in Seq(Nat) /\ log \in Seq(Nat) /\ Len(c) \in Nat /\ Len(log) \in Nat
      /\ Ordered(c) /\ Len(log) <= Len(c)
      /\ \A i \in 1 .. Len(log) : log[i] = c[gone + i]
      /\ \A i \in 1 .. gone : ~Recent(c[i])
      /\ gone = Len(c) - Len(log) /\ gone \in Nat
  BY DEF QuotaInv, LogType, LogMirrors
<1>2. Logged(v) = log /\ Retained(v) = new
  BY Zenon
<1> HIDE DEF c, log, gone, new
<1>3. Ordered(log)
  <2> SUFFICES ASSUME NEW i \in 1 .. Len(log), NEW j \in 1 .. Len(log), i <= j
               PROVE  log[i] <= log[j]
    BY Zenon DEF Ordered
  <2>1. gone + i \in 1 .. Len(c) /\ gone + j \in 1 .. Len(c) /\ gone + i <= gone + j
    BY <1>1
  <2> QED BY <1>1, <2>1, Zenon DEF Ordered
<1>4. PICK k \in 0 .. Len(log) :
          /\ new = SubSeq(log, k + 1, Len(log))
          /\ \A i \in 1 .. k : ~Recent(log[i])
          /\ \A i \in k + 1 .. Len(log) : Recent(log[i])
  BY <1>1, <1>2, <1>3, RetainDropsOld, Zenon
<1>5. new \in Seq(Nat) /\ Len(new) = Len(log) - k /\ \A i \in 1 .. Len(new) : new[i] = log[k + i]
  <2>1. log \in Seq(Nat) /\ new = SubSeq(log, k + 1, Len(log))
    BY <1>1, <1>4, Zenon
  <2> QED BY ONLY k \in 0 .. Len(log), <2>1
<1>6. /\ Len(c) \in Nat /\ Len(log) \in Nat /\ Len(new) \in Nat /\ k \in Nat
      /\ Len(new) = Len(log) - k /\ gone = Len(c) - Len(log) /\ gone \in Nat /\ Len(new) <= Len(c)
  BY <1>1, <1>4, <1>5
<1>7. ASSUME NEW i \in 1 .. Len(new) PROVE new[i] = c[(Len(c) - Len(new)) + i]
  <2>1. k + i \in 1 .. Len(log) /\ gone + (k + i) = (Len(c) - Len(new)) + i
    BY <1>6
  <2>2. new[i] = log[k + i] /\ log[k + i] = c[gone + (k + i)]
    BY <1>1, <1>5, <2>1, Zenon
  <2> QED BY <2>1, <2>2, Zenon
<1>8. ASSUME NEW i \in 1 .. Len(c) - Len(new) PROVE ~Recent(c[i])
  <2>1. CASE i <= gone
    BY <1>1, <1>5, <2>1
  <2>2. CASE i > gone
    <3>1. i - gone \in 1 .. k /\ gone + (i - gone) = i
      BY <1>1, <1>4, <1>5, <2>2
    <3>2. PICK j \in 1 .. k : gone + j = i
      BY <3>1, Zenon
    <3>3. j \in 1 .. Len(log)
      BY <1>1, <1>4
    <3>4. log[j] = c[gone + j] /\ ~Recent(log[j])
      BY <1>1, <1>4, <3>3, Zenon
    <3> QED BY <3>2, <3>4, Zenon
  <2> QED BY <1>1, <1>4, <1>5, <2>1, <2>2
<1>9. ASSUME NEW i \in 1 .. Len(new) PROVE Recent(new[i])
  <2>1. k + i \in k + 1 .. Len(log)
    BY <1>6
  <2> QED BY <1>4, <1>5, <2>1, Zenon
<1> QED BY <1>5, <1>6, <1>7, <1>8, <1>9, Zenon DEF c, new

\* The log of v may lose old times.
LEMMA LogKept ==
    ASSUME QuotaInv, NEW v \in Source, UNCHANGED now, counted'[v] = counted[v],
           \/ Logged(v)' = Logged(v)
           \/ Logged(v)' = Retained(v)
           \/ Logged(v)' = <<>> /\ \A i \in DOMAIN Logged(v) : ~Recent(Logged(v)[i])
    PROVE  Logged(v)' \in Seq(Nat) /\ LogMirrors(v)' /\ QuotaOf(v)'
<1> DEFINE c == counted[v]
           log == Logged(v)
           gone == Len(c) - Len(log)
<1>1. /\ now \in Nat /\ c \in Seq(Nat) /\ log \in Seq(Nat) /\ Len(c) \in Nat /\ Len(log) \in Nat
      /\ Ordered(c) /\ Len(log) <= Len(c)
      /\ \A i \in 1 .. Len(c) : c[i] <= now
      /\ \A i \in 1 .. Len(log) : log[i] = c[gone + i]
      /\ \A i \in 1 .. gone : ~Recent(c[i])
      /\ gone = Len(c) - Len(log) /\ gone \in Nat /\ counted'[v] = c
  BY DEF QuotaInv, LogType, LogMirrors
<1>2. QuotaOf(v)'
  BY Zenon DEF QuotaInv, QuotaOf
<1>3. \A t : Recent(t)' <=> Recent(t)
  BY Zenon DEF Recent
<1>4. Logged(v) = log
  BY Zenon
<1> HIDE DEF c, log, gone
<1>5. CASE Logged(v)' = log
  BY <1>1, <1>2, <1>3, <1>5, Zenon DEF LogMirrors
<1>6. CASE Logged(v)' = <<>> /\ \A i \in DOMAIN log : ~Recent(log[i])
  <2>1. ASSUME NEW i \in 1 .. Len(c) PROVE ~Recent(c[i])
    <3>1. CASE i <= gone
      BY <1>1, <3>1
    <3>2. CASE i > gone
      <4>0. i - gone \in 1 .. Len(log) /\ gone + (i - gone) = i
        BY <1>1, <3>2
      <4>1. PICK j \in 1 .. Len(log) : gone + j = i
        BY <4>0, Zenon
      <4>2. log[j] = c[gone + j] /\ ~Recent(log[j])
        BY <1>1, <1>6
      <4> QED BY <4>1, <4>2, Zenon
    <3> QED BY <1>1, <3>1, <3>2
  <2>2. Logged(v)' \in Seq(Nat) /\ Len(Logged(v)') = 0 /\ Len(c) - 0 = Len(c) /\ 0 <= Len(c)
    BY <1>1, <1>6
  <2>3. \A i \in 1 .. 0 : Logged(v)'[i] = c[Len(c) + i]
    OBVIOUS
  <2>4. LogMirrors(v)'
    BY <1>1, <1>3, <2>1, <2>2, <2>3, Zenon DEF LogMirrors, Ordered
  <2> QED BY <1>2, <2>2, <2>4, Zenon
<1>7. CASE Logged(v)' = Retained(v)
  <2> DEFINE new == Retained(v)
  <2>1. /\ new \in Seq(Nat) /\ Len(new) \in Nat /\ Len(new) <= Len(c)
        /\ \A i \in 1 .. Len(new) : new[i] = c[(Len(c) - Len(new)) + i]
        /\ \A i \in 1 .. Len(c) - Len(new) : ~Recent(c[i])
    BY RetainedEnd, Zenon DEF c
  <2> HIDE DEF new
  <2>2. Logged(v)' = new
    BY <1>7, Zenon DEF new
  <2> QED BY <1>1, <1>2, <1>3, <2>1, <2>2, Zenon DEF LogMirrors
<1> QED BY <1>4, <1>5, <1>6, <1>7, Zenon


\* The time of the init that is counted is the newest; MAX_INITS before it, if
\* there were that many, lies a time that the log has dropped.
LEMMA LogExtended ==
    ASSUME QuotaInv, NEW v \in Source, UNCHANGED now, Len(Retained(v)) < MAX_INITS,
           counted'[v] = Append(counted[v], now), Logged(v)' = Append(Retained(v), now)
    PROVE  Logged(v)' \in Seq(Nat) /\ LogMirrors(v)' /\ QuotaOf(v)'
<1> DEFINE c == counted[v]
           new == Retained(v)
           c2 == Append(c, now)
           log2 == Append(new, now)
<1>1. /\ now \in Nat /\ c \in Seq(Nat) /\ Len(c) \in Nat /\ Ordered(c)
      /\ \A i \in 1 .. Len(c) : c[i] <= now /\ c[i] \in Nat
  BY DEF QuotaInv, LogType, LogMirrors
<1>2. QuotaOf(v) /\ Logged(v)' = log2 /\ counted'[v] = c2 /\ Len(new) < MAX_INITS
  BY Zenon DEF QuotaInv
<1>3. \A t : Recent(t)' <=> Recent(t)
  BY Zenon DEF Recent
<1>4. /\ c2 \in Seq(Nat) /\ Len(c2) = Len(c) + 1 /\ c2[Len(c) + 1] = now
      /\ \A i \in 1 .. Len(c) : c2[i] = c[i]
  BY <1>1
<1> HIDE DEF c2
<1>5. /\ new \in Seq(Nat) /\ Len(new) \in Nat /\ Len(new) <= Len(c)
      /\ \A i \in 1 .. Len(new) : new[i] = c[(Len(c) - Len(new)) + i]
      /\ \A i \in 1 .. Len(c) - Len(new) : ~Recent(c[i])
  BY RetainedEnd, Zenon
<1>6. /\ log2 \in Seq(Nat) /\ Len(log2) = Len(new) + 1 /\ log2[Len(new) + 1] = now
      /\ \A i \in 1 .. Len(new) : log2[i] = new[i]
  BY <1>1, <1>5
<1> HIDE DEF c, new, log2
<1>7. LogMirrors(v)'
  <2>1. Len(c2) - Len(log2) = Len(c) - Len(new) /\ Len(log2) <= Len(c2)
    BY <1>1, <1>4, <1>5, <1>6
  <2>2. Ordered(c2) /\ \A i \in 1 .. Len(c2) : c2[i] <= now
    <3>1. \A i \in 1 .. Len(c2) : c2[i] <= now /\ (i \in 1 .. Len(c) \/ c2[i] = now)
      <4>1. \A i \in 1 .. Len(c2) : i \in 1 .. Len(c) \/ i = Len(c) + 1
        BY <1>1, <1>4
      <4>2. \A i \in 1 .. Len(c) : c2[i] <= now
        BY <1>1, <1>4, Zenon
      <4>3. c2[Len(c) + 1] = now /\ now <= now
        BY <1>1, <1>4
      <4> QED BY <4>1, <4>2, <4>3, Zenon
    <3>2. \A i, j \in 1 .. Len(c) : i <= j => c2[i] <= c2[j]
      BY <1>1, <1>4, Zenon DEF Ordered
    <3>3. \A i, j \in 1 .. Len(c2) : i <= j /\ i \notin 1 .. Len(c) => j \notin 1 .. Len(c)
      BY <1>1, <1>4
    <3> QED BY <3>1, <3>2, <3>3, <1>1, <1>4, Zenon DEF Ordered
  <2>3. ASSUME NEW i \in 1 .. Len(log2) PROVE log2[i] = c2[(Len(c2) - Len(log2)) + i]
    <3>1. CASE i \in 1 .. Len(new)
      <4>1. (Len(c) - Len(new)) + i \in 1 .. Len(c)
        BY <1>1, <1>5, <3>1
      <4>2. log2[i] = c[(Len(c) - Len(new)) + i]
        BY <1>5, <1>6, <3>1, Zenon
      <4> QED BY <1>4, <2>1, <4>1, <4>2, Zenon
    <3>2. CASE i = Len(new) + 1
      <4>1. (Len(c) - Len(new)) + i = Len(c) + 1
        BY <1>1, <1>5, <3>2
      <4> QED BY <1>4, <1>6, <2>1, <3>2, <4>1, Zenon
    <3> QED BY <1>5, <1>6, <3>1, <3>2
  <2>4. ASSUME NEW i \in 1 .. Len(c2) - Len(log2) PROVE ~Recent(c2[i])
    <3>1. i \in 1 .. Len(c) - Len(new) /\ i \in 1 .. Len(c)
      BY <1>1, <1>5, <2>1
    <3> QED BY <1>4, <1>5, <3>1, Zenon
  <2> QED BY <1>2, <1>3, <2>1, <2>2, <2>3, <2>4, Zenon DEF LogMirrors
<1>8. QuotaOf(v)'
  <2> SUFFICES ASSUME NEW i \in 1 .. Len(c2) - MAX_INITS
               PROVE  c2[i + MAX_INITS] - c2[i] > WINDOW
    BY <1>2, Zenon DEF QuotaOf
  <2>1. MAX_INITS \in Nat \ {0} /\ WINDOW \in Nat
    BY AdmissionAssumption, Zenon
  <2>2. /\ Len(c) \in Nat /\ Len(c2) = Len(c) + 1 /\ Len(new) \in Nat /\ Len(new) < MAX_INITS
        /\ Len(new) <= Len(c)
    BY <1>1, <1>2, <1>4, <1>5, Zenon
  <2>3. i \in 1 .. Len(c)
    BY <2>1, <2>2
  <2>4. c2[i] = c[i] /\ c[i] \in Nat
    BY <1>1, <1>4, <2>3, Zenon
  <2>5. CASE i + MAX_INITS <= Len(c)
    <3>1. i \in 1 .. Len(c) - MAX_INITS /\ i + MAX_INITS \in 1 .. Len(c)
      BY <2>1, <2>2, <2>3, <2>5
    <3>2. c[i + MAX_INITS] - c[i] > WINDOW
      BY <1>2, <3>1, Zenon DEF QuotaOf, c
    <3> QED BY <1>4, <2>4, <3>1, <3>2, Zenon
  <2>6. CASE i + MAX_INITS > Len(c)
    <3>0. i \in Nat /\ i <= (Len(c) + 1) - MAX_INITS
      BY <2>1, <2>2
    <3>1. i + MAX_INITS = Len(c) + 1 /\ i \in 1 .. Len(c) - Len(new)
      <4>0. \A x, y, z \in Nat : x + y > z /\ x <= (z + 1) - y => x + y = z + 1
        OBVIOUS
      <4>1. i + MAX_INITS = Len(c) + 1
        BY <2>1, <2>2, <2>6, <3>0, <4>0, Zenon
      <4> QED BY <2>1, <2>2, <2>3, <4>1
    <3>2. ~Recent(c[i])
      BY <1>5, <3>1, Zenon
    <3>3. c2[i + MAX_INITS] = now
      BY <1>4, <3>1, Zenon
    <3>4. now \in Nat
      BY <1>1, Zenon
    <3> QED BY <2>1, <2>4, <3>2, <3>3, <3>4 DEF Recent
  <2> QED BY <2>1, <2>2, <2>3, <2>5, <2>6
<1> QED BY <1>2, <1>6, <1>7, <1>8, Zenon


\* rate_limited keeps the invariant, whatever it answers.
LEMMA RateLimitInv ==
    ASSUME QuotaInv, NEW s \in Source, UNCHANGED now, \A m \in wire' : m.from \in Honest,
           (Limited(s) /\ UNCHANGED counted) \/ Counted(s)
    PROVE  QuotaInv'
<1>0. LogType
  BY Zenon DEF QuotaInv
<1>1. CASE Limited(s) /\ UNCHANGED counted
  <2>1. /\ \A v \in Source : Logged(v)' = Logged(v) \/ (v = s /\ Logged(v)' = Retained(v))
        /\ (DOMAIN init_rate_log \subseteq Source)'
    BY <1>0, <1>1, LimitedLogs, Zenon
  <2>2. \A v \in Source : Logged(v)' \in Seq(Nat) /\ LogMirrors(v)' /\ QuotaOf(v)'
    BY <1>1, <2>1, LogKept, Zenon
  <2> QED BY <1>0, <1>1, <2>1, <2>2, Zenon DEF QuotaInv, LogType
<1>2. CASE Counted(s)
  <2>1. /\ Logged(s)' = Append(Retained(s), now)
        /\ \A v \in Source \ {s} :
              \/ Logged(v)' = Logged(v)
              \/ Logged(v)' = <<>> /\ \A i \in DOMAIN Logged(v) : ~Recent(Logged(v)[i])
        /\ (DOMAIN init_rate_log \subseteq Source)'
    BY <1>0, <1>2, CountedLogs, Zenon
  <2>2. /\ Len(Retained(s)) < MAX_INITS
        /\ counted' = [counted EXCEPT ![s] = Append(counted[s], now)]
    BY <1>2, Zenon DEF Counted
  <2>3. /\ counted'[s] = Append(counted[s], now) /\ \A v \in Source \ {s} : counted'[v] = counted[v]
        /\ counted' \in [Source -> Seq(Nat)]
    BY <1>0, <2>2 DEF LogType
  <2>4. Logged(s)' \in Seq(Nat) /\ LogMirrors(s)' /\ QuotaOf(s)'
    BY <2>1, <2>2, <2>3, LogExtended, Zenon
  <2>5. \A v \in Source \ {s} : Logged(v)' \in Seq(Nat) /\ LogMirrors(v)' /\ QuotaOf(v)'
    BY <2>1, <2>3, LogKept, Zenon
  <2> QED BY <1>0, <2>1, <2>3, <2>4, <2>5, Zenon DEF QuotaInv, LogType
<1> QED BY <1>1, <1>2, Zenon

LEMMA InitQuotaInv == AdmissionInit => QuotaInv
<1> SUFFICES ASSUME AdmissionInit PROVE QuotaInv
  BY Zenon
<1>1. /\ \A v \in Source : counted[v] = <<>> /\ Logged(v) = <<>>
      /\ now = 0 /\ wire = {} /\ DOMAIN init_rate_log = {} /\ counted \in [Source -> Seq(Nat)]
  BY DEF AdmissionInit, Logged
<1>2. LogType
  BY <1>1, Zenon DEF LogType
<1>3. \A v \in Source : LogMirrors(v) /\ QuotaOf(v)
  BY <1>1, AdmissionAssumption DEF LogMirrors, QuotaOf, Ordered
<1> QED BY <1>2, <1>3, Zenon DEF QuotaInv

LEMMA NextQuotaInv == QuotaInv /\ [AdmissionNext]_admission_vars => QuotaInv'
<1> SUFFICES ASSUME QuotaInv, [AdmissionNext]_admission_vars PROVE QuotaInv'
  BY Zenon
<1>0. LogType
  BY Zenon DEF QuotaInv
<1>1. ASSUME UNCHANGED <<init_rate_log, counted>>, now' \in Nat, now' >= now,
             \A m \in wire' : m.from \in Honest
      PROVE  QuotaInv'
  <2>1. \A v \in Source : Logged(v)' = Logged(v) /\ counted'[v] = counted[v]
    BY <1>1, Zenon DEF Logged
  <2>2. ASSUME NEW v \in Source PROVE LogMirrors(v)' /\ QuotaOf(v)'
    <3> DEFINE c == counted[v]
               log == Logged(v)
    <3>1. /\ c \in Seq(Nat) /\ log \in Seq(Nat) /\ Len(c) \in Nat /\ Len(log) \in Nat
          /\ Ordered(c) /\ Len(log) <= Len(c)
          /\ \A i \in 1 .. Len(c) : c[i] <= now /\ c[i] \in Nat
          /\ \A i \in 1 .. Len(log) : log[i] = c[(Len(c) - Len(log)) + i]
          /\ \A i \in 1 .. Len(c) - Len(log) : ~Recent(c[i])
          /\ Logged(v)' = log /\ counted'[v] = c /\ QuotaOf(v)
      BY <2>1 DEF QuotaInv, LogType, LogMirrors
    <3>2. QuotaOf(v)'
      BY <2>1, <3>1, Zenon DEF QuotaOf
    <3> HIDE DEF c, log
    <3>3. \A i \in 1 .. Len(c) : c[i] <= now'
      BY <1>0, <1>1, <3>1 DEF LogType
    <3>4. \A i \in 1 .. Len(c) - Len(log) : ~(c[i] + WINDOW >= now')
      <4> SUFFICES ASSUME NEW i \in 1 .. Len(c) - Len(log) PROVE ~(c[i] + WINDOW >= now')
        BY Zenon
      <4>1. i \in 1 .. Len(c) /\ c[i] \in Nat /\ ~Recent(c[i])
        BY <3>1
      <4> QED BY <1>0, <1>1, <4>1, AdmissionAssumption DEF Recent, LogType
    <3> QED BY <3>1, <3>2, <3>3, <3>4, Zenon DEF LogMirrors, Recent
  <2>3. LogType'
    BY <1>0, <1>1, <2>1, Zenon DEF LogType
  <2> QED BY <2>2, <2>3, Zenon DEF QuotaInv
<1>2. now \in Nat /\ now >= now
  BY <1>0 DEF LogType
<1>3. ASSUME NEW s \in Honest, initiate(s) \/ pending_handshake_inits(s) PROVE QuotaInv'
  BY <1>0, <1>1, <1>2, <1>3 DEF initiate, pending_handshake_inits, LogType
<1>4. ASSUME NEW m \in wire, Lose(m) PROVE QuotaInv'
  BY <1>0, <1>1, <1>2, <1>4, Zenon DEF Lose, LogType
<1>5. CASE Tick
  BY <1>0, <1>1, <1>5 DEF Tick, LogType
<1>6. ASSUME NEW m \in wire, handle_init(m) PROVE QuotaInv'
  <2>1. /\ m.from \in Source /\ UNCHANGED now /\ \A d \in wire' : d.from \in Honest
        /\ (Limited(m.from) /\ UNCHANGED counted) \/ Counted(m.from)
    BY <1>0, <1>6, Zenon DEF handle_init, LogType, Source
  <2> QED BY <2>1, RateLimitInv, Zenon
<1>7. ASSUME NEW s \in Other, NEW valid \in BOOLEAN, handle_init_other(s, valid) PROVE QuotaInv'
  <2>1. /\ s \in Source /\ UNCHANGED now /\ \A d \in wire' : d.from \in Honest
        /\ (Limited(s) /\ UNCHANGED counted) \/ Counted(s)
    BY <1>0, <1>7, Zenon DEF handle_init_other, LogType, Source
  <2> QED BY <2>1, RateLimitInv, Zenon
<1>8. CASE UNCHANGED admission_vars
  BY <1>0, <1>1, <1>2, <1>8, Zenon DEF admission_vars, LogType
<1> QED BY <1>3, <1>4, <1>5, <1>6, <1>7, <1>8, Zenon DEF AdmissionNext

\* No source passes the limit more than MAX_INITS_PER_WINDOW times in any
\* INIT_RATE_WINDOW, for every number of sources and every size of the table,
\* also when entries are evicted and come back (rate_limited).
THEOREM QuotaIsHeld == AdmissionSpec => []QuotaHeld
<1>1. QuotaInv => QuotaHeld
  BY Zenon DEF QuotaInv, QuotaHeld, QuotaOf
<1> QED BY <1>1, InitQuotaInv, NextQuotaInv, PTL DEF AdmissionSpec


-----------------------------------------------------------------------------
(* Honest retransmissions.                                                 *)

\* off[i] is how long after its first SessionInit a node sends the i-th repeat;
\* MAX_INITS repeats take longer than the window and the largest delay together.
Backoff(off) ==
    /\ off \in [Nat -> Nat] /\ off[0] = 0 /\ MaxDelay \in Nat
    /\ \A i \in Nat : /\ interval(i) \in Nat \ {0} /\ off[i + 1] = off[i] + interval(i)
                      /\ off[i + MAX_INITS] - off[i] > WINDOW + MaxDelay

LEMMA BackoffGrows ==
    ASSUME NEW off, Backoff(off), NEW i \in Nat, NEW k \in Nat, i < k
    PROVE  off[i] < off[k]
<1> DEFINE T == {j \in Nat : i < j /\ ~(off[i] < off[j])}
<1>1. SUFFICES ASSUME T # {} PROVE FALSE
  BY Zenon
<1>2. PICK j \in T : \A y \in T : j <= y
  BY <1>1, LeastNat, Zenon
<1>3. j \in Nat /\ i < j /\ ~(off[i] < off[j]) /\ j - 1 \in Nat /\ (j - 1) + 1 = j
  BY <1>2
<1>4. j - 1 \notin T
  BY <1>2, <1>3
<1>5. j - 1 = i \/ off[i] < off[j - 1]
  BY <1>3, <1>4
<1>6. off[j] = off[j - 1] + interval(j - 1) /\ interval(j - 1) \in Nat \ {0}
  BY <1>3, Zenon DEF Backoff
<1>7. off[i] \in Nat /\ off[j] \in Nat /\ off[j - 1] \in Nat
  BY <1>3, Zenon DEF Backoff
<1> QED BY <1>3, <1>5, <1>6, <1>7

\* More than k numbers up to n: one of them lies k below n or further.
LEMMA ManyBelow ==
    ASSUME NEW n \in Nat, NEW k \in Nat, NEW S \in SUBSET (0 .. n), Cardinality(S) >= k + 1
    PROVE  \E i \in S : i + k <= n
<1>1. IsFiniteSet(S) /\ Cardinality(S) \in Nat
  <2>1. IsFiniteSet(0 .. n)
    BY FS_Interval
  <2> QED BY <2>1, FS_Subset, FS_CardinalityType, Zenon
<1>2. S # {} /\ S \in SUBSET Nat
  <2>1. S = {} => Cardinality(S) = 0
    BY FS_EmptySet, Zenon
  <2> QED BY <2>1
<1>3. PICK i \in S : \A y \in S : i <= y
  BY <1>2, LeastNat, Zenon
<1>4. S \subseteq i .. n /\ i \in 0 .. n
  BY <1>3
<1>5. IsFiniteSet(i .. n) /\ Cardinality(i .. n) = (n - i) + 1
  BY <1>4, FS_Interval
<1>6. Cardinality(S) <= (n - i) + 1
  BY <1>4, <1>5, FS_Subset, Zenon
<1> QED BY <1>1, <1>4, <1>6

\* When s sends its i-th repeat, by its last one.
SendTime(off, s, i) == (pending[s].last - off[pending[s].count]) + off[i]

\* The inits of s counted from time x on; those under way that may still arrive
\* then; those sent that may have arrived then.
Late(s, x) == {j \in 1 .. Len(counted[s]) : counted[s][j] >= x}
Afoot(s, x) == {m \in wire : m.from = s /\ m.sent + MaxDelay >= x}
Sends(off, s, x) == {i \in 0 .. pending[s].count : SendTime(off, s, i) + MaxDelay >= x}

PaceType ==
    /\ pending \in [Honest -> [phase : {"none", "sent", "established"}, last : Nat, count : Nat]]
    /\ IsFiniteSet(wire) /\ wire \subseteq [from : Honest, sent : Nat]
    /\ refused \in [Source -> SUBSET {"table", "quota", "time", "invalid"}]

\* s sends on time, its inits are not under way for too long, and each of them is
\* counted at most once.
Paced(off, s) ==
    /\ pending[s].phase = "none" => counted[s] = <<>> /\ \A m \in wire : m.from # s
    /\ pending[s].phase # "none" => /\ pending[s].last <= now
                                    /\ pending[s].last >= off[pending[s].count]
    /\ pending[s].phase = "sent" => now <= pending[s].last + interval(pending[s].count)
    /\ \A m \in wire : m.from = s => m.sent <= pending[s].last /\ now <= m.sent + MaxDelay
    /\ \A x \in Nat : Cardinality(Late(s, x)) + Cardinality(Afoot(s, x))
                         <= Cardinality(Sends(off, s, x))

PaceInv(off) ==
    QuotaInv /\ PaceType /\ HonestWithinQuota /\ \A s \in Honest : Paced(off, s)

LEMMA PaceFinite ==
    ASSUME QuotaInv, PaceType, NEW off, NEW s \in Honest, NEW x \in Nat
    PROVE  /\ IsFiniteSet(Late(s, x)) /\ Cardinality(Late(s, x)) \in Nat
           /\ IsFiniteSet(Afoot(s, x)) /\ Cardinality(Afoot(s, x)) \in Nat
           /\ IsFiniteSet(Sends(off, s, x)) /\ Cardinality(Sends(off, s, x)) \in Nat
<1>1. Len(counted[s]) \in Nat /\ pending[s].count \in Nat
  BY DEF QuotaInv, LogType, PaceType, Source
<1>2. IsFiniteSet(1 .. Len(counted[s])) /\ IsFiniteSet(0 .. pending[s].count) /\ IsFiniteSet(wire)
  <2>1. 0 \in Int /\ 1 \in Int /\ Len(counted[s]) \in Int /\ pending[s].count \in Int
    BY <1>1
  <2>2. IsFiniteSet(1 .. Len(counted[s])) /\ IsFiniteSet(0 .. pending[s].count)
    BY <2>1, FS_Interval, Zenon
  <2> QED BY <2>2, Zenon DEF PaceType
<1>3. /\ Late(s, x) \subseteq 1 .. Len(counted[s]) /\ Afoot(s, x) \subseteq wire
      /\ Sends(off, s, x) \subseteq 0 .. pending[s].count
  BY Zenon DEF Late, Afoot, Sends
<1> QED BY <1>2, <1>3, FS_Subset, FS_CardinalityType, Zenon


\* An init that arrives with MAX_INITS counted in the window: the sends of these
\* MAX_INITS + 1 would lie too close together.
LEMMA NoQuotaRefusal ==
    ASSUME NEW off, Backoff(off), PaceInv(off), NEW m \in wire, NEW s, s = m.from,
           Len(Retained(s)) >= MAX_INITS
    PROVE  FALSE
<1> DEFINE p == pending[s]
           c == counted[s]
           new == Retained(s)
           K == Len(new)
           x == IF now >= WINDOW THEN now - WINDOW ELSE 0
<1>1. /\ QuotaInv /\ PaceType /\ s \in Honest /\ s \in Source /\ Paced(off, s)
      /\ now \in Nat /\ m.sent \in Nat /\ MAX_INITS \in Nat \ {0} /\ WINDOW \in Nat /\ MaxDelay \in Nat
      /\ p.count \in Nat /\ p.last \in Nat
  BY AdmissionAssumption, Zenon DEF PaceInv, PaceType, QuotaInv, LogType, Source, Backoff
<1>3. x \in Nat /\ x <= now /\ now <= x + WINDOW /\ (x = 0 \/ x + WINDOW = now)
  BY <1>1
<1>4. /\ new \in Seq(Nat) /\ Len(new) \in Nat /\ Len(new) <= Len(c)
      /\ \A i \in 1 .. Len(new) : new[i] = c[(Len(c) - Len(new)) + i]
      /\ \A i \in 1 .. Len(new) : Recent(new[i])
  BY <1>1, RetainedEnd, Zenon
<1>5. c \in Seq(Nat) /\ Len(c) \in Nat /\ K \in Nat /\ K <= Len(c) /\ K >= MAX_INITS
  BY <1>1, <1>4 DEF QuotaInv, LogType
<1> DEFINE lost == Len(c) - K
<1>6. lost \in Nat /\ Len(c) = lost + K /\ lost = Len(c) - Len(new)
  BY <1>5
<1>7. c = counted[s] /\ \A i \in 1 .. K : Recent(c[lost + i])
  BY <1>4, Zenon
<1> HIDE DEF x, K, c, new, lost
<1>8. lost + 1 .. Len(c) \subseteq Late(s, x)
  <2> SUFFICES ASSUME NEW j \in lost + 1 .. Len(c) PROVE j \in Late(s, x)
    BY Zenon
  <2>1. j - lost \in 1 .. K /\ lost + (j - lost) = j
    BY <1>5, <1>6
  <2>2. PICK i \in 1 .. K : lost + i = j
    BY <2>1, Zenon
  <2>3. Recent(c[j]) /\ j \in 1 .. Len(c)
    <3>1. Recent(c[j])
      BY <1>7, <2>2, Zenon
    <3> QED BY <1>5, <1>6, <3>1
  <2>4. c[j] \in Nat
    BY <1>5, <2>3
  <2>5. c[j] >= x
    BY <1>1, <1>3, <2>3, <2>4 DEF Recent
  <2> QED BY <1>7, <2>3, <2>5, Zenon DEF Late
<1>9. IsFiniteSet(lost + 1 .. Len(c)) /\ Cardinality(lost + 1 .. Len(c)) = K
  <2>1. lost + 1 \in Int /\ Len(c) \in Int
    BY <1>5, <1>6
  <2>2. Cardinality(lost + 1 .. Len(c)) = IF lost + 1 > Len(c) THEN 0 ELSE Len(c) - (lost + 1) + 1
    BY <2>1, FS_Interval, Zenon
  <2>3. IsFiniteSet(lost + 1 .. Len(c))
    BY <2>1, FS_Interval, Zenon
  <2> QED BY <1>5, <1>6, <2>2, <2>3
<1>10. /\ IsFiniteSet(Late(s, x)) /\ Cardinality(Late(s, x)) \in Nat
      /\ IsFiniteSet(Afoot(s, x)) /\ Cardinality(Afoot(s, x)) \in Nat
      /\ IsFiniteSet(Sends(off, s, x)) /\ Cardinality(Sends(off, s, x)) \in Nat
  BY <1>1, <1>3, PaceFinite, Zenon
<1>11. K <= Cardinality(Late(s, x))
  BY <1>8, <1>9, <1>10, FS_Subset, Zenon
<1>12. 1 <= Cardinality(Afoot(s, x))
  <2>1. now <= m.sent + MaxDelay
    BY <1>1, Zenon DEF Paced
  <2>2. m \in Afoot(s, x)
    BY <1>1, <1>3, <2>1 DEF Afoot
  <2>3. Cardinality(Afoot(s, x)) # 0
    BY <1>10, <2>2, FS_EmptySet, Zenon
  <2> QED BY <1>10, <2>3
<1>13. Cardinality(Late(s, x)) + Cardinality(Afoot(s, x)) <= Cardinality(Sends(off, s, x))
  BY <1>1, <1>3, Zenon DEF Paced
<1>14. Cardinality(Sends(off, s, x)) >= MAX_INITS + 1
  BY <1>1, <1>5, <1>10, <1>11, <1>12, <1>13
<1>15. Sends(off, s, x) \in SUBSET (0 .. p.count)
  BY Zenon DEF Sends
<1>16. PICK i \in Sends(off, s, x) : i + MAX_INITS <= p.count
  BY <1>1, <1>14, <1>15, ManyBelow, Zenon
<1>17. i \in Nat /\ SendTime(off, s, i) + MaxDelay >= x
  BY <1>1, <1>16 DEF Sends
<1>18. /\ off[i] \in Nat /\ off[i + MAX_INITS] \in Nat /\ off[p.count] \in Nat
       /\ off[i + MAX_INITS] - off[i] > WINDOW + MaxDelay
  <2>1. i + MAX_INITS \in Nat /\ p.count \in Nat
    BY <1>1, <1>17
  <2> HIDE DEF p
  <2> QED BY <1>17, <2>1, Zenon DEF Backoff
<1>19. off[i + MAX_INITS] <= off[p.count]
  <2>1. i + MAX_INITS \in Nat
    BY <1>1, <1>17
  <2>2. i + MAX_INITS < p.count => off[i + MAX_INITS] < off[p.count]
    BY <1>1, <2>1, BackoffGrows, Zenon
  <2> QED BY <1>1, <1>16, <1>18, <2>1, <2>2
<1>20. p.last <= now
  BY <1>1, Zenon DEF Paced
<1> HIDE DEF p
<1>21. ((p.last - off[p.count]) + off[i]) + MaxDelay >= x
  BY <1>17, Zenon DEF SendTime, p
<1> QED BY ONLY <1>1, <1>3, <1>18, <1>19, <1>20, <1>21


\* v sends nothing, and nothing of v is counted; its inits may be lost or refused.
LEMMA PacedFrame ==
    ASSUME NEW off, PaceInv(off), PaceType', QuotaInv', NEW v \in Honest, UNCHANGED now,
           counted'[v] = counted[v], \A m \in wire' : m.from = v => m \in wire,
           pending'[v].last = pending[v].last, pending'[v].count = pending[v].count,
           \/ pending'[v].phase = pending[v].phase
           \/ pending'[v].phase = "established" /\ pending[v].phase # "none"
    PROVE  Paced(off, v)'
<1>1. Paced(off, v) /\ QuotaInv /\ PaceType
  BY Zenon DEF PaceInv
<1>2. ASSUME NEW x \in Nat
      PROVE  (Cardinality(Late(v, x)) + Cardinality(Afoot(v, x)) <= Cardinality(Sends(off, v, x)))'
  <2>1. Late(v, x)' = Late(v, x) /\ Sends(off, v, x)' = Sends(off, v, x)
    BY Zenon DEF Late, Sends, SendTime
  <2>2. Afoot(v, x)' \subseteq Afoot(v, x)
    BY Zenon DEF Afoot
  <2>3. /\ Cardinality(Late(v, x)) \in Nat /\ Cardinality(Sends(off, v, x)) \in Nat
        /\ IsFiniteSet(Afoot(v, x)) /\ Cardinality(Afoot(v, x)) \in Nat
    BY <1>1, PaceFinite, Zenon
  <2>4. /\ Cardinality(Afoot(v, x)') <= Cardinality(Afoot(v, x))
        /\ Cardinality(Afoot(v, x)') \in Nat
    BY <2>2, <2>3, FS_Subset, FS_CardinalityType, Zenon
  <2>5. Cardinality(Late(v, x)) + Cardinality(Afoot(v, x)) <= Cardinality(Sends(off, v, x))
    BY <1>1, Zenon DEF Paced
  <2> QED BY <2>1, <2>3, <2>4, <2>5
<1>3. /\ (pending[v].phase = "none" => counted[v] = <<>> /\ \A m \in wire : m.from # v)'
      /\ (pending[v].phase # "none" => /\ pending[v].last <= now
                                       /\ pending[v].last >= off[pending[v].count])'
      /\ (pending[v].phase = "sent" => now <= pending[v].last + interval(pending[v].count))'
      /\ (\A m \in wire : m.from = v => m.sent <= pending[v].last /\ now <= m.sent + MaxDelay)'
  BY <1>1, Zenon DEF Paced, interval
<1> QED BY <1>2, <1>3, Zenon DEF Paced

\* An init of s arrives and is counted.
LEMMA PacedCounted ==
    ASSUME NEW off, Backoff(off), PaceInv(off), PaceType', QuotaInv', NEW m \in wire,
           NEW s \in Honest, s = m.from,
           UNCHANGED now, wire' = wire \ {m}, counted'[s] = Append(counted[s], now),
           pending'[s].last = pending[s].last, pending'[s].count = pending[s].count,
           pending'[s].phase = pending[s].phase \/ pending'[s].phase = "established"
    PROVE  Paced(off, s)'
<1>1. Paced(off, s) /\ QuotaInv /\ PaceType /\ now \in Nat /\ MaxDelay \in Nat
  BY Zenon DEF PaceInv, Backoff, QuotaInv, LogType
<1>2. pending[s].phase # "none" /\ now <= m.sent + MaxDelay /\ m.sent \in Nat
  BY <1>1, Zenon DEF Paced, PaceType
<1> DEFINE c == counted[s]
           c2 == Append(c, now)
           L == Len(c)
<1>3. c \in Seq(Nat) /\ L \in Nat
  <2>1. counted \in [Source -> Seq(Nat)] /\ s \in Source
    BY <1>1, Zenon DEF QuotaInv, LogType, Source
  <2> QED BY <2>1
<1>4. /\ Len(c2) = L + 1 /\ c2[L + 1] = now /\ \A i \in 1 .. L : c2[i] = c[i]
      /\ counted'[s] = c2 /\ L + 1 \notin 1 .. L /\ 1 .. L + 1 = 1 .. L \cup {L + 1}
  BY <1>1, <1>3
<1> HIDE DEF c2
<1>5. ASSUME NEW x \in Nat
      PROVE  (Cardinality(Late(s, x)) + Cardinality(Afoot(s, x)) <= Cardinality(Sends(off, s, x)))'
  <2> DEFINE A == Late(s, x)
             B == Afoot(s, x)
             C == Sends(off, s, x)
  <2>1. /\ IsFiniteSet(A) /\ Cardinality(A) \in Nat /\ IsFiniteSet(B) /\ Cardinality(B) \in Nat
        /\ Cardinality(C) \in Nat /\ Cardinality(A) + Cardinality(B) <= Cardinality(C)
    BY <1>1, PaceFinite, Zenon DEF Paced
  <2>2. Sends(off, s, x)' = C
    BY Zenon DEF Sends, SendTime
  <2>3. Afoot(s, x)' = B \ {m}
    BY Zenon DEF Afoot
  <2>4. L + 1 \notin A
    BY <1>4, Zenon DEF Late
  <2>5. CASE now >= x
    <3>1. Late(s, x)' = A \cup {L + 1}
      BY <1>4, <2>5, Zenon DEF Late
    <3>2. m \in B
      BY <1>1, <1>2, <2>5 DEF Afoot
    <3> HIDE DEF A, B, C, L
    <3>3. Cardinality(A \cup {L + 1}) = Cardinality(A) + 1
      BY <2>1, <2>4, FS_AddElement, Zenon
    <3>4. Cardinality(B \ {m}) = Cardinality(B) - 1
      BY <2>1, <3>2, FS_RemoveElement, Zenon
    <3> QED BY <2>1, <2>2, <2>3, <3>1, <3>3, <3>4
  <2>6. CASE ~(now >= x)
    <3>1. Late(s, x)' = A
      BY <1>4, <2>6, Zenon DEF Late
    <3>2. B \ {m} \subseteq B
      BY Zenon
    <3> HIDE DEF A, B, C, L
    <3>3. Cardinality(B \ {m}) <= Cardinality(B) /\ Cardinality(B \ {m}) \in Nat
      BY <2>1, <3>2, FS_Subset, FS_CardinalityType, Zenon
    <3> QED BY <2>1, <2>2, <2>3, <3>1, <3>3
  <2> QED BY <2>5, <2>6, Zenon
<1>6. /\ (pending[s].phase = "none" => counted[s] = <<>> /\ \A mm \in wire : mm.from # s)'
      /\ (pending[s].phase # "none" => /\ pending[s].last <= now
                                       /\ pending[s].last >= off[pending[s].count])'
      /\ (pending[s].phase = "sent" => now <= pending[s].last + interval(pending[s].count))'
      /\ (\A mm \in wire : mm.from = s => mm.sent <= pending[s].last /\ now <= mm.sent + MaxDelay)'
  BY <1>1, <1>2, Zenon DEF Paced, interval
<1> QED BY <1>5, <1>6, Zenon DEF Paced


\* s sends its first SessionInit.
LEMMA PacedInitiate ==
    ASSUME NEW off, Backoff(off), PaceInv(off), PaceType', QuotaInv', NEW s \in Honest, initiate(s)
    PROVE  Paced(off, s)'
<1> DEFINE new == [from |-> s, sent |-> now]
<1>1. Paced(off, s) /\ QuotaInv /\ PaceType /\ now \in Nat /\ MaxDelay \in Nat /\ off[0] = 0
  BY ZenonT(30) DEF PaceInv, Backoff, QuotaInv, LogType
<1>2. counted[s] = <<>> /\ \A m \in wire : m.from # s
  BY <1>1, Zenon DEF initiate, Paced
<1>3. /\ pending'[s].phase = "sent" /\ pending'[s].last = now /\ pending'[s].count = 0
      /\ wire' = wire \cup {new} /\ counted' = counted /\ now' = now
  BY <1>1, Zenon DEF initiate, PaceType
<1>4. new.from = s /\ new.sent = now
  BY Zenon
<1>5. interval(0) \in Nat
  BY Zenon DEF Backoff
<1> HIDE DEF new
<1>6. ASSUME NEW x \in Nat
      PROVE  (Cardinality(Late(s, x)) + Cardinality(Afoot(s, x)) <= Cardinality(Sends(off, s, x)))'
  <2>1. Late(s, x)' = {}
    BY <1>2, <1>3 DEF Late
  <2>2. CASE now + MaxDelay >= x
    <3>1. Afoot(s, x)' = {new}
      BY <1>2, <1>3, <1>4, <2>2, Zenon DEF Afoot
    <3>2. Sends(off, s, x)' = {0}
      BY <1>1, <1>3, <2>2 DEF Sends, SendTime
    <3>3. /\ Cardinality(Late(s, x)') = 0 /\ Cardinality(Afoot(s, x)') = 1
          /\ Cardinality(Sends(off, s, x)') = 1
      BY <2>1, <3>1, <3>2, FS_EmptySet, FS_Singleton, Zenon
    <3> QED BY <3>3
  <2>3. CASE ~(now + MaxDelay >= x)
    <3>1. Afoot(s, x)' = {}
      BY <1>2, <1>3, <1>4, <2>3, Zenon DEF Afoot
    <3>2. Cardinality(Sends(off, s, x)') \in Nat
      <4>1. Sends(off, s, x)' \subseteq 0 .. 0
        BY <1>3, Zenon DEF Sends
      <4>2. 0 \in Int
        OBVIOUS
      <4>3. IsFiniteSet(0 .. 0)
        BY <4>2, FS_Interval, Zenon
      <4> QED BY <4>1, <4>3, FS_Subset, FS_CardinalityType, Zenon
    <3> QED BY <2>1, <3>1, <3>2, FS_EmptySet
  <2> QED BY <2>2, <2>3, Zenon
<1>7. /\ (pending[s].phase = "none" => counted[s] = <<>> /\ \A m \in wire : m.from # s)'
      /\ (pending[s].phase # "none" => /\ pending[s].last <= now
                                       /\ pending[s].last >= off[pending[s].count])'
      /\ (\A m \in wire : m.from = s => m.sent <= pending[s].last /\ now <= m.sent + MaxDelay)'
  BY <1>1, <1>2, <1>3, <1>4
<1>8. (pending[s].phase = "sent" => now <= pending[s].last + interval(pending[s].count))'
  <2>1. now <= now + interval(0)
    BY <1>1, <1>5
  <2> QED BY <1>3, <2>1, Zenon DEF interval
<1> QED BY <1>6, <1>7, <1>8, Zenon DEF Paced

\* s repeats it, exactly when the interval is over; earlier sends keep their times.
LEMMA PacedResend ==
    ASSUME NEW off, Backoff(off), PaceInv(off), PaceType', QuotaInv', NEW s \in Honest,
           pending_handshake_inits(s)
    PROVE  Paced(off, s)'
<1> DEFINE new == [from |-> s, sent |-> now]
           n == pending[s].count
           last == pending[s].last
<1>1. /\ Paced(off, s) /\ QuotaInv /\ PaceType /\ now \in Nat /\ MaxDelay \in Nat
      /\ n \in Nat /\ last \in Nat /\ pending[s].phase = "sent"
  BY Zenon DEF PaceInv, Backoff, QuotaInv, LogType, PaceType, pending_handshake_inits, Due
<1>2. /\ interval(n) \in Nat \ {0} /\ off[n + 1] = off[n] + interval(n)
      /\ off[n] \in Nat /\ off[n + 1] \in Nat /\ interval(n + 1) \in Nat
  BY <1>1 DEF Backoff
<1>3. now = last + interval(n) /\ last >= off[n]
  <2>1. now - last >= interval(n)
    BY Zenon DEF pending_handshake_inits, Due
  <2>2. now <= last + interval(n) /\ last >= off[n]
    BY <1>1, Zenon DEF Paced
  <2> HIDE DEF last, n
  <2> QED BY <1>1, <1>2, <2>1, <2>2
<1>4. pending'[s].phase = "sent" /\ pending'[s].last = now /\ pending'[s].count = n + 1
  <2>1. pending' = [pending EXCEPT ![s] = [[pending[s] EXCEPT !.last = now] EXCEPT !.count = @ + 1]]
    BY Zenon DEF pending_handshake_inits
  <2>2. pending \in [Honest -> [phase : {"none", "sent", "established"}, last : Nat, count : Nat]]
    BY <1>1, Zenon DEF PaceType
  <2> QED BY <1>1, <2>1, <2>2, Zenon
<1>5. wire' = wire \cup {new} /\ counted' = counted /\ now' = now
  BY Zenon DEF pending_handshake_inits
<1>6. new.from = s /\ new.sent = now
  BY Zenon
<1>7. new \notin wire
  <2>1. \A m \in wire : m.from = s => m.sent <= last
    BY <1>1, Zenon DEF Paced
  <2> HIDE DEF last, new, n
  <2> QED BY <1>1, <1>2, <1>3, <1>6, <2>1
<1> HIDE DEF new, n, last
<1>8. now - off[n + 1] = last - off[n]
  BY <1>1, <1>2, <1>3
<1>9. ASSUME NEW x \in Nat
      PROVE  (Cardinality(Late(s, x)) + Cardinality(Afoot(s, x)) <= Cardinality(Sends(off, s, x)))'
  <2> DEFINE A == Late(s, x)
             B == Afoot(s, x)
             C == Sends(off, s, x)
  <2>1. /\ IsFiniteSet(A) /\ Cardinality(A) \in Nat /\ IsFiniteSet(B) /\ Cardinality(B) \in Nat
        /\ IsFiniteSet(C) /\ Cardinality(C) \in Nat
        /\ Cardinality(A) + Cardinality(B) <= Cardinality(C)
    BY <1>1, PaceFinite, Zenon DEF Paced
  <2>2. Late(s, x)' = A
    BY <1>5, Zenon DEF Late
  <2>3. \A i \in 0 .. n + 1 : SendTime(off, s, i)' = SendTime(off, s, i)
    BY <1>4, <1>8, Zenon DEF SendTime, last, n
  <2>4. SendTime(off, s, n + 1) = now
    <3>1. SendTime(off, s, n + 1) = (last - off[n]) + off[n + 1]
      BY Zenon DEF SendTime, last, n
    <3> QED BY <1>1, <1>2, <1>3, <3>1
  <2>5. C = {i \in 0 .. n : SendTime(off, s, i) + MaxDelay >= x}
    BY Zenon DEF Sends, n
  <2>6. Sends(off, s, x)' = {i \in 0 .. n + 1 : SendTime(off, s, i) + MaxDelay >= x}
    BY <1>4, <2>3, Zenon DEF Sends
  <2>7. 0 .. n + 1 = 0 .. n \cup {n + 1} /\ n + 1 \notin 0 .. n
    BY <1>1
  <2>8. CASE now + MaxDelay >= x
    <3>1. Afoot(s, x)' = B \cup {new} /\ new \notin B
      BY <1>5, <1>6, <1>7, <2>8, Zenon DEF Afoot
    <3>2. Sends(off, s, x)' = C \cup {n + 1} /\ n + 1 \notin C
      BY <2>4, <2>5, <2>6, <2>7, <2>8, Zenon
    <3> HIDE DEF A, B, C
    <3>3. Cardinality(B \cup {new}) = Cardinality(B) + 1
      BY <2>1, <3>1, FS_AddElement, Zenon
    <3>4. Cardinality(C \cup {n + 1}) = Cardinality(C) + 1
      BY <2>1, <3>2, FS_AddElement, Zenon
    <3> QED BY <2>1, <2>2, <3>1, <3>2, <3>3, <3>4
  <2>9. CASE ~(now + MaxDelay >= x)
    <3>1. Afoot(s, x)' = B
      BY <1>5, <1>6, <2>9, Zenon DEF Afoot
    <3>2. Sends(off, s, x)' = C
      BY <2>4, <2>5, <2>6, <2>7, <2>9, Zenon
    <3> QED BY <2>1, <2>2, <3>1, <3>2, Zenon
  <2> QED BY <2>8, <2>9, Zenon
<1>10. \A m \in wire : m.from = s => m.sent <= last /\ now <= m.sent + MaxDelay /\ m.sent \in Nat
  BY <1>1, Zenon DEF Paced, PaceType, last
<1>11. now <= now + interval(n + 1) /\ now >= off[n + 1] /\ last <= now /\ now <= now + MaxDelay
  BY <1>1, <1>2, <1>3
<1>12. /\ (pending[s].phase = "none" => counted[s] = <<>> /\ \A m \in wire : m.from # s)'
       /\ (pending[s].phase # "none" => /\ pending[s].last <= now
                                        /\ pending[s].last >= off[pending[s].count])'
       /\ (pending[s].phase = "sent" => now <= pending[s].last + interval(pending[s].count))'
  BY <1>1, <1>4, <1>5, <1>11 DEF interval
<1>13. (\A m \in wire : m.from = s => m.sent <= pending[s].last /\ now <= m.sent + MaxDelay)'
  BY <1>1, <1>4, <1>5, <1>6, <1>10, <1>11
<1> QED BY <1>9, <1>12, <1>13, Zenon DEF Paced


LEMMA PacedTick ==
    ASSUME NEW off, Backoff(off), PaceInv(off), NEW s \in Honest, Tick
    PROVE  Paced(off, s)'
<1>1. /\ Paced(off, s) /\ QuotaInv /\ PaceType /\ now \in Nat /\ MaxDelay \in Nat
      /\ pending[s].last \in Nat /\ pending[s].count \in Nat /\ interval(pending[s].count) \in Nat
      /\ \A m \in wire : m.sent \in Nat
  BY Zenon DEF PaceInv, Backoff, QuotaInv, LogType, PaceType
<1>2. now' = now + 1 /\ pending' = pending /\ wire' = wire /\ counted' = counted
  BY Zenon DEF Tick
<1>3. \A x \in Nat : /\ Late(s, x)' = Late(s, x) /\ Afoot(s, x)' = Afoot(s, x)
                     /\ Sends(off, s, x)' = Sends(off, s, x)
  BY <1>2, Zenon DEF Late, Afoot, Sends, SendTime
<1>4. pending[s].phase = "sent" => now + 1 <= pending[s].last + interval(pending[s].count)
  <2>1. pending[s].phase = "sent" => ~(now - pending[s].last >= interval(pending[s].count))
    BY Zenon DEF Tick, Due
  <2> QED BY <1>1, <2>1
<1>5. \A m \in wire : now + 1 <= m.sent + MaxDelay
  <2>1. \A m \in wire : now - m.sent < MaxDelay
    BY Zenon DEF Tick
  <2> QED BY <1>1, <2>1
<1>6. (pending[s].phase = "sent" => now <= pending[s].last + interval(pending[s].count))'
  BY <1>2, <1>4, Zenon DEF interval
<1>7. /\ (pending[s].phase = "none" => counted[s] = <<>> /\ \A m \in wire : m.from # s)'
      /\ (pending[s].phase # "none" => /\ pending[s].last <= now
                                       /\ pending[s].last >= off[pending[s].count])'
      /\ (\A m \in wire : m.from = s => m.sent <= pending[s].last /\ now <= m.sent + MaxDelay)'
  BY <1>1, <1>2, <1>5 DEF Paced
<1>8. (\A x \in Nat : Cardinality(Late(s, x)) + Cardinality(Afoot(s, x))
                         <= Cardinality(Sends(off, s, x)))'
  BY <1>1, <1>3, Zenon DEF Paced
<1> QED BY <1>6, <1>7, <1>8, Zenon DEF Paced

LEMMA InitPaceInv ==
    ASSUME NEW off, AdmissionInit PROVE PaceInv(off)
<1>1. QuotaInv
  BY InitQuotaInv, Zenon
<1>2. /\ wire = {} /\ \A s \in Honest : pending[s] = [phase |-> "none", last |-> 0, count |-> 0]
      /\ \A s \in Source : counted[s] = <<>> /\ refused[s] = {}
  BY Zenon DEF AdmissionInit
<1>3. PaceType
  BY FS_EmptySet, Zenon DEF AdmissionInit, PaceType
<1>4. HonestWithinQuota
  BY <1>2, Zenon DEF HonestWithinQuota, Source
<1>5. ASSUME NEW s \in Honest PROVE Paced(off, s)
  <2>1. pending[s].phase = "none" /\ counted[s] = <<>>
    BY <1>2 DEF Source
  <2>2. \A x \in Nat : Late(s, x) = {} /\ Afoot(s, x) = {}
    BY <1>2, <2>1 DEF Late, Afoot
  <2>3. \A x \in Nat : Cardinality(Late(s, x)) + Cardinality(Afoot(s, x)) <= Cardinality(Sends(off, s, x))
    <3> TAKE x \in Nat
    <3>1. Cardinality(Late(s, x)) = 0 /\ Cardinality(Afoot(s, x)) = 0
      BY <2>2, FS_EmptySet, Zenon
    <3>2. Cardinality(Sends(off, s, x)) \in Nat
      BY <1>1, <1>3, PaceFinite, Zenon
    <3> QED BY <3>1, <3>2
  <2> QED BY <1>2, <2>1, <2>3, Zenon DEF Paced
<1> QED BY <1>1, <1>3, <1>4, <1>5, Zenon DEF PaceInv

\* What an init that arrives does to the record of refusals: "quota" is not added
\* for an honest source.
LEMMA HandlePaceInv ==
    ASSUME NEW off, Backoff(off), PaceInv(off), QuotaInv', NEW m \in wire, handle_init(m)
    PROVE  PaceInv(off)'
<1> DEFINE s == m.from
<1>1. /\ QuotaInv /\ PaceType /\ s \in Honest /\ s \in Source /\ HonestWithinQuota
      /\ \A v \in Honest : Paced(off, v)
  BY Zenon DEF PaceInv, PaceType, Source
<1>2. ~(Len(Retained(s)) >= MAX_INITS)
  BY NoQuotaRefusal, Zenon
<1>3. pending[s].phase # "none"
  BY <1>1, Zenon DEF Paced
<1>4. /\ wire' = wire \ {m} /\ now' = now
      /\ \/ Limited(s) /\ UNCHANGED <<pending, counted>>
         \/ Counted(s) /\ UNCHANGED pending /\ refused' = [refused EXCEPT ![s] = @ \cup {"time"}]
         \/ /\ Counted(s) /\ UNCHANGED refused
            /\ \/ pending' = [pending EXCEPT ![s].phase = "established"]
               \/ UNCHANGED pending
  BY Zenon DEF handle_init
<1> HIDE DEF s
<1>5. /\ refused' \in [Source -> SUBSET {"table", "quota", "time", "invalid"}]
      /\ \A v \in Honest : "quota" \notin refused'[v]
  <2>1. refused' = refused \/ \E why \in {"table", "time"} :
                                  refused' = [refused EXCEPT ![s] = refused[s] \cup {why}]
    BY <1>2, <1>4, Zenon DEF Limited
  <2>2. /\ refused \in [Source -> SUBSET {"table", "quota", "time", "invalid"}]
        /\ \A v \in Honest : "quota" \notin refused[v]
    BY <1>1, Zenon DEF PaceType, HonestWithinQuota
  <2>3. CASE refused' = refused
    BY <2>2, <2>3, Zenon
  <2>4. CASE \E why \in {"table", "time"} : refused' = [refused EXCEPT ![s] = refused[s] \cup {why}]
    <3>1. PICK why \in {"table", "time"} : refused' = [refused EXCEPT ![s] = refused[s] \cup {why}]
      BY <2>4, Zenon
    <3>2. \A v \in Source : refused'[v] = IF v = s THEN refused[s] \cup {why} ELSE refused[v]
      BY <2>2, <3>1, Zenon
    <3>3. why # "quota" /\ why \in {"table", "quota", "time", "invalid"}
      BY <3>1, Zenon
    <3>4. \A v \in Honest : v \in Source
      BY Zenon DEF Source
    <3> QED BY <1>1, <2>2, <3>1, <3>2, <3>3, <3>4, Zenon
  <2> QED BY <2>1, <2>3, <2>4, Zenon
<1>6. /\ pending' \in [Honest -> [phase : {"none", "sent", "established"}, last : Nat, count : Nat]]
      /\ \A v \in Honest \ {s} : pending'[v] = pending[v]
      /\ pending'[s].last = pending[s].last /\ pending'[s].count = pending[s].count
      /\ pending'[s].phase = pending[s].phase \/ pending'[s].phase = "established"
  <2> DEFINE R == [phase : {"none", "sent", "established"}, last : Nat, count : Nat]
             q == [pending[s] EXCEPT !.phase = "established"]
  <2>1. pending' = pending \/ pending' = [pending EXCEPT ![s] = q]
    BY <1>4, Zenon
  <2>2. pending \in [Honest -> R] /\ pending[s] \in R
    BY <1>1, Zenon DEF PaceType
  <2>3. q \in R
    BY <2>2, Zenon
  <2>4. q.last = pending[s].last /\ q.count = pending[s].count /\ q.phase = "established"
    BY <2>2, Zenon
  <2> HIDE DEF R, q
  <2>5. pending' \in [Honest -> R]
    BY <1>1, <2>1, <2>2, <2>3, Zenon
  <2>6. /\ \A v \in Honest \ {s} : pending'[v] = pending[v]
        /\ pending'[s] = pending[s] \/ pending'[s] = q
    BY <1>1, <2>1, <2>2, Zenon
  <2>7. /\ pending'[s].last = pending[s].last /\ pending'[s].count = pending[s].count
        /\ pending'[s].phase = pending[s].phase \/ pending'[s].phase = "established"
    BY <2>4, <2>6, Zenon
  <2> QED BY <2>5, <2>6, <2>7, Zenon DEF R
<1>7. PaceType'
  <2>1. IsFiniteSet(wire') /\ wire' \subseteq wire
    BY <1>1, <1>4, FS_Subset, Zenon DEF PaceType
  <2> QED BY <1>1, <1>5, <1>6, <2>1, Zenon DEF PaceType
<1>8. /\ \A v \in Honest \ {s} : counted'[v] = counted[v]
      /\ counted'[s] = counted[s] \/ counted'[s] = Append(counted[s], now)
  <2>1. counted' = counted \/ counted' = [counted EXCEPT ![s] = Append(counted[s], now)]
    BY <1>4, Zenon DEF Counted
  <2>2. counted \in [Source -> Seq(Nat)] /\ \A v \in Honest : v \in Source
    BY <1>1, Zenon DEF QuotaInv, LogType, Source
  <2> QED BY <1>1, <2>1, <2>2, Zenon
<1>9. \A v \in Honest \ {s} : Paced(off, v)'
  <2> TAKE v \in Honest \ {s}
  <2> QED BY <1>4, <1>6, <1>7, <1>8, PacedFrame, Zenon
<1>10. Paced(off, s)'
  <2>1. CASE counted'[s] = counted[s]
    <3>1. \A k \in wire' : k.from = s => k \in wire
      BY <1>4, Zenon
    <3> QED BY <1>1, <1>3, <1>4, <1>6, <1>7, <2>1, <3>1, PacedFrame, Zenon DEF s
  <2>2. CASE counted'[s] = Append(counted[s], now)
    <3>1. s = m.from
      BY Zenon DEF s
    <3> QED BY <1>1, <1>4, <1>6, <1>7, <2>2, <3>1, PacedCounted, Zenon
  <2> QED BY <1>8, <2>1, <2>2, Zenon
<1> QED BY <1>5, <1>7, <1>9, <1>10, Zenon DEF PaceInv, HonestWithinQuota


LEMMA NextPaceInv ==
    ASSUME NEW off, Backoff(off), PaceInv(off), [AdmissionNext]_admission_vars
    PROVE  PaceInv(off)'
<1>1. /\ QuotaInv /\ PaceType /\ HonestWithinQuota /\ \A v \in Honest : Paced(off, v)
      /\ QuotaInv' /\ now \in Nat
  BY NextQuotaInv, Zenon DEF PaceInv, QuotaInv, LogType
<1>2. ASSUME NEW s \in Honest, NEW q, pending' = [pending EXCEPT ![s] = q],
             q \in [phase : {"none", "sent", "established"}, last : Nat, count : Nat],
             wire' = wire \cup {[from |-> s, sent |-> now]},
             UNCHANGED <<now, counted, refused>>, PaceType' => Paced(off, s)'
      PROVE  PaceInv(off)'
  <2>1. PaceType'
    <3>1. IsFiniteSet(wire')
      BY <1>1, <1>2, FS_AddElement, Zenon DEF PaceType
    <3>2. [from |-> s, sent |-> now] \in [from : Honest, sent : Nat]
      BY <1>1, Zenon
    <3> QED BY <1>1, <1>2, <3>1, <3>2, Zenon DEF PaceType
  <2>2. ASSUME NEW v \in Honest, v # s PROVE Paced(off, v)'
    <3>1. pending'[v] = pending[v]
      BY <1>1, <1>2, <2>2, Zenon DEF PaceType
    <3>2. \A m \in wire' : m.from = v => m \in wire
      BY <1>2, <2>2
    <3> QED BY <1>1, <1>2, <2>1, <3>1, <3>2, PacedFrame, Zenon
  <2> QED BY <1>1, <1>2, <2>1, <2>2, Zenon DEF PaceInv, HonestWithinQuota
<1>3. ASSUME NEW s \in Honest, initiate(s) PROVE PaceInv(off)'
  <2> DEFINE q == [phase |-> "sent", last |-> now, count |-> 0]
  <2>1. q \in [phase : {"none", "sent", "established"}, last : Nat, count : Nat]
    BY <1>1, Zenon
  <2>2. /\ pending' = [pending EXCEPT ![s] = q] /\ wire' = wire \cup {[from |-> s, sent |-> now]}
        /\ UNCHANGED <<now, counted, refused>>
    BY <1>3, Zenon DEF initiate
  <2>3. PaceType' => Paced(off, s)'
    BY <1>1, <1>3, PacedInitiate, Zenon
  <2> HIDE DEF q
  <2> QED BY <1>2, <2>1, <2>2, <2>3, Zenon
<1>4. ASSUME NEW s \in Honest, pending_handshake_inits(s) PROVE PaceInv(off)'
  <2> DEFINE R == [phase : {"none", "sent", "established"}, last : Nat, count : Nat]
             n == pending[s].count + 1
             r == [pending[s] EXCEPT !.last = now]
             q == [r EXCEPT !.count = n]
  <2>1. pending[s] \in R /\ n \in Nat
    BY <1>1 DEF PaceType
  <2>2. r \in R
    BY <1>1, <2>1, Zenon
  <2>3. q \in R
    BY <2>1, <2>2, Zenon
  <2>4. /\ pending' = [pending EXCEPT ![s] = q] /\ wire' = wire \cup {[from |-> s, sent |-> now]}
        /\ UNCHANGED <<now, counted, refused>>
    BY <1>4, Zenon DEF pending_handshake_inits
  <2>5. PaceType' => Paced(off, s)'
    BY <1>1, <1>4, PacedResend, Zenon
  <2> HIDE DEF q
  <2> QED BY <1>2, <2>3, <2>4, <2>5, Zenon
<1>5. ASSUME NEW m \in wire, Lose(m) PROVE PaceInv(off)'
  <2>1. wire' = wire \ {m} /\ UNCHANGED <<now, pending, counted, refused>>
    BY <1>5, Zenon DEF Lose
  <2>2. IsFiniteSet(wire')
    BY <1>1, <2>1, FS_Subset, Zenon DEF PaceType
  <2>3. PaceType'
    BY <1>1, <2>1, <2>2, Zenon DEF PaceType
  <2>4. \A v \in Honest : Paced(off, v)'
    BY <1>1, <2>1, <2>3, PacedFrame, Zenon
  <2> QED BY <1>1, <2>1, <2>3, <2>4, Zenon DEF PaceInv, HonestWithinQuota
<1>6. ASSUME NEW m \in wire, handle_init(m) PROVE PaceInv(off)'
  BY <1>1, <1>6, HandlePaceInv, Zenon
<1>7. ASSUME NEW s \in Other, NEW valid \in BOOLEAN, handle_init_other(s, valid)
      PROVE  PaceInv(off)'
  <2>1. s \in Source /\ s \notin Honest /\ \A v \in Honest : v \in Source /\ v # s
    BY AdmissionAssumption, Zenon DEF Source
  <2>2. UNCHANGED <<now, pending, wire>>
    BY <1>7, Zenon DEF handle_init_other
  <2>3. refused' = refused \/ \E why \in {"table", "quota", "invalid"} :
                                  refused' = [refused EXCEPT ![s] = refused[s] \cup {why}]
    BY <1>7, Zenon DEF handle_init_other, Limited
  <2>4. counted' = counted \/ counted' = [counted EXCEPT ![s] = Append(counted[s], now)]
    BY <1>7, Zenon DEF handle_init_other, Counted
  <2>5. PaceType'
    <3>1. refused' \in [Source -> SUBSET {"table", "quota", "time", "invalid"}]
      BY <1>1, <2>1, <2>3 DEF PaceType
    <3> QED BY <1>1, <2>2, <3>1, Zenon DEF PaceType
  <2>6. \A v \in Honest : counted'[v] = counted[v] /\ refused'[v] = refused[v]
    BY <1>1, <2>1, <2>3, <2>4, Zenon DEF PaceType, QuotaInv, LogType
  <2>7. \A v \in Honest : Paced(off, v)'
    BY <1>1, <2>2, <2>5, <2>6, PacedFrame, Zenon
  <2> QED BY <1>1, <2>5, <2>6, <2>7, Zenon DEF PaceInv, HonestWithinQuota
<1>8. CASE Tick
  <2>1. UNCHANGED <<pending, wire, refused>>
    BY <1>8, Zenon DEF Tick
  <2>2. PaceType' /\ HonestWithinQuota'
    BY <1>1, <2>1, Zenon DEF PaceType, HonestWithinQuota
  <2> QED BY <1>1, <1>8, <2>2, PacedTick, Zenon DEF PaceInv
<1>9. CASE UNCHANGED admission_vars
  <2>1. UNCHANGED <<now, pending, wire, counted, refused>>
    BY <1>9, Zenon DEF admission_vars
  <2>2. PaceType' /\ HonestWithinQuota'
    BY <1>1, <2>1, Zenon DEF PaceType, HonestWithinQuota
  <2>3. \A v \in Honest : Paced(off, v)'
    BY <1>1, <2>1, <2>2, PacedFrame, Zenon
  <2> QED BY <1>1, <2>2, <2>3, Zenon DEF PaceInv
<1> QED BY <1>3, <1>4, <1>5, <1>6, <1>7, <1>8, <1>9, Zenon DEF AdmissionNext

\* A node's own retransmissions stay under the receiver's quota if MAX_INITS of
\* its intervals together exceed the window and the largest delay.  With the
\* code's values the shortest MAX_INITS intervals take 1 + 2 + 4 + 8 seconds: more
\* than the window of 10 s and a delay of 4 s (pending_handshake_inits and
\* rate_limited, session.rs).
THEOREM HonestStayWithinQuota ==
    ASSUME NEW off, Backoff(off)
    PROVE  AdmissionSpec => []HonestWithinQuota
<1>1. AdmissionInit => PaceInv(off)
  BY InitPaceInv, Zenon
<1>2. PaceInv(off) /\ [AdmissionNext]_admission_vars => PaceInv(off)'
  BY NextPaceInv, Zenon
<1>3. PaceInv(off) => HonestWithinQuota
  BY Zenon DEF PaceInv
<1> QED BY <1>1, <1>2, <1>3, PTL DEF AdmissionSpec


\* The intervals of the code, and when the repeats are sent.
LEMMA CodeBackoff ==
    ASSUME WINDOW = 10, MAX_INITS = 4, RETX_BASE = 1, RETX_MAX = 30, MaxDelay \in 0 .. 4
    PROVE  \E off : Backoff(off)
<1> DEFINE off == [i \in Nat |-> IF i = 0 THEN 0 ELSE IF i = 1 THEN 1 ELSE IF i = 2 THEN 3
                                 ELSE IF i = 3 THEN 7 ELSE IF i = 4 THEN 15 ELSE 30 * i - 119]
<1>1. /\ interval(0) = 1 /\ interval(1) = 2 /\ interval(2) = 4 /\ interval(3) = 8
      /\ interval(4) = 16 /\ \A i \in Nat : i >= 5 => interval(i) = 30
  <2>1. 2 ^ 0 = 1 /\ 2 ^ 1 = 2 /\ 2 ^ 2 = 4 /\ 2 ^ 3 = 8 /\ 2 ^ 4 = 16 /\ 2 ^ 5 = 32
    OBVIOUS
  <2> QED BY <2>1 DEF interval
<1>2. ASSUME NEW i \in Nat
      PROVE  /\ interval(i) \in Nat \ {0} /\ off[i + 1] = off[i] + interval(i)
             /\ off[i + MAX_INITS] - off[i] > WINDOW + MaxDelay
  <2>1. i = 0 \/ i = 1 \/ i = 2 \/ i = 3 \/ i = 4 \/ i >= 5
    OBVIOUS
  <2> QED BY <1>1, <2>1
<1>3. off \in [Nat -> Nat] /\ off[0] = 0
  OBVIOUS
<1> HIDE DEF off
<1>4. MaxDelay \in Nat
  OBVIOUS
<1>5. Backoff(off)
  BY <1>2, <1>3, <1>4, Zenon DEF Backoff
<1> QED BY <1>5, Zenon

\* With the code's window (10 s), quota (4) and intervals (1 s, doubling up to 30 s)
\* no SessionInit of an honest node is refused for its rate while it takes at most
\* 4 seconds on the way (session.rs: "The doubling also keeps a node's own
\* retransmits under the receiver's per-source init rate limit").
THEOREM RetransmitsAdmitted ==
    ASSUME WINDOW = 10, MAX_INITS = 4, RETX_BASE = 1, RETX_MAX = 30, MaxDelay \in 0 .. 4
    PROVE  AdmissionSpec => []HonestWithinQuota
<1>1. PICK off : Backoff(off)
  BY CodeBackoff, Zenon
<1> QED BY <1>1, HonestStayWithinQuota, Zenon


-----------------------------------------------------------------------------
(* The health of a peer. *)

HealthType ==
    /\ tick \in Nat /\ last_rx_time \in Nat /\ sig_req_seq \in Nat
    /\ asked \in Seq(Nat) /\ Len(asked) = sig_req_seq

\* The request that is open was sent when its time says.
AskedAt == \A p \in pending_sig_req : p.seq \in 1 .. Len(asked) /\ p.sent = asked[p.seq]

LEMMA InitAskedAt == HealthInit => HealthType /\ AskedAt
BY DEF HealthInit, HealthType, AskedAt

LEMMA NextAskedAt ==
    ASSUME HealthType, AskedAt, [HealthNext]_health_vars
    PROVE  HealthType' /\ AskedAt'
<1>1. ASSUME UNCHANGED <<sig_req_seq, asked>>, pending_sig_req' \subseteq pending_sig_req,
             tick' \in {tick, tick + 1}, last_rx_time' \in {last_rx_time, tick}
      PROVE  HealthType' /\ AskedAt'
  BY <1>1 DEF HealthType, AskedAt
<1>2. CASE do_maintenance
  <2>1. CASE UNCHANGED <<sig_req_seq, pending_sig_req, asked>>
    BY <1>1, <1>2, <2>1, Zenon DEF do_maintenance
  <2>2. CASE /\ sig_req_seq' = sig_req_seq + 1
             /\ pending_sig_req' = {[seq |-> sig_req_seq + 1, sent |-> tick + 1]}
             /\ asked' = Append(asked, tick + 1)
    <3>1. /\ asked' \in Seq(Nat) /\ Len(asked') = sig_req_seq + 1
          /\ asked'[sig_req_seq + 1] = tick + 1 /\ sig_req_seq + 1 \in 1 .. Len(asked')
      BY <2>2 DEF HealthType
    <3>2. tick' = tick + 1 /\ last_rx_time' = last_rx_time
      BY <1>2, Zenon DEF do_maintenance
    <3> QED BY <2>2, <3>1, <3>2 DEF HealthType, AskedAt
  <2> QED BY <1>2, <2>1, <2>2, Zenon DEF do_maintenance
<1>3. ASSUME NEW f \in frames, \/ handle_sig_req(f) \/ handle_path_lookup(f)
                               \/ handle_sig_res(f) \/ handle_path_notify(f) \/ LoseFrame(f)
      PROVE  HealthType' /\ AskedAt'
  BY <1>1, <1>3, Zenon DEF handle_sig_req, handle_path_lookup, handle_sig_res, handle_path_notify, LoseFrame
<1>4. CASE UNCHANGED health_vars
  BY <1>1, <1>4, Zenon DEF health_vars
<1> QED BY <1>2, <1>3, <1>4, Zenon DEF HealthNext

\* A round trip is measured only from the request that the answer is for: a late
\* answer to an earlier request takes the open one away, and is not measured
\* (handle_sig_res, router/handlers.rs).
THEOREM RoundTripsAreReal == HealthSpec => SamplesHonest
<1>1. ASSUME AskedAt, [HealthNext]_health_vars
      PROVE  [sample' # sample => sample'.rtt = tick - asked[sample'.seq]]_health_vars
  <2> SUFFICES ASSUME sample' # sample PROVE sample'.rtt = tick - asked[sample'.seq]
    BY Zenon
  <2>1. PICK f \in frames : handle_sig_res(f)
    BY <1>1, Zenon DEF HealthNext, do_maintenance, handle_sig_req, handle_path_lookup,
                handle_path_notify, LoseFrame, health_vars
  <2> DEFINE hit == {p \in pending_sig_req : Matching(p, f.seq)}
             p == CHOOSE p \in hit : TRUE
  <2>2. hit # {} /\ sample' = [seq |-> f.seq, rtt |-> tick - p.sent]
    BY <2>1, Zenon DEF handle_sig_res
  <2>3. p \in hit
    BY <2>2, Zenon
  <2>4. p \in pending_sig_req /\ p.seq = f.seq
    BY <2>3, Zenon DEF Matching
  <2>5. p.sent = asked[f.seq]
    BY <1>1, <2>4, Zenon DEF AskedAt
  <2> HIDE DEF p
  <2> QED BY <2>2, <2>5, Zenon
<1>2. HealthInit => HealthType /\ AskedAt
  BY InitAskedAt, Zenon
<1>3. HealthType /\ AskedAt /\ [HealthNext]_health_vars => (HealthType /\ AskedAt)'
  BY NextAskedAt, Zenon
<1> QED BY <1>1, <1>2, <1>3, PTL DEF HealthSpec, SamplesHonest


\* On a link that loses nothing an answer is back before the next request and
\* before the probe expires, and a missing answer does not reach the peer timeout.
GoodDelay == Delays["good"]
Prompt ==
    /\ "good" \in DOMAIN Delays
    /\ 2 * GoodDelay < KEEPALIVE_TICKS
    /\ 2 * GoodDelay <= PROBE_TIMEOUT
    /\ KEEPALIVE_TICKS + 2 * GoodDelay <= PEER_TIMEOUT

\* When the last request was due.
LastAsk == tick - (tick % KEEPALIVE_TICKS)

SigFrames == {f \in frames : f.type \in {"SigReq", "SigRes"}}

\* The request that is open, or its answer, is under way.
RequestAlive ==
    \E f \in SigFrames : \/ f.type = "SigReq" /\ f.sent <= LastAsk
                         \/ f.type = "SigRes" /\ f.sent <= LastAsk + GoodDelay

ProbeAlive(id) ==
    \E f \in frames : /\ f.seq = id
                      /\ \/ f.type = "PathLookup" /\ f.sent <= id
                         \/ f.type = "PathNotify" /\ f.sent <= id + GoodDelay

Healthy ==
    /\ listed /\ trust \in Nat /\ trust >= TRUST_INITIAL
    /\ \A f \in frames : f.sent \in Nat /\ tick <= f.sent + GoodDelay
    /\ \A f, g \in SigFrames : f = g
    /\ pending_sig_req = {} => SigFrames = {} /\ last_rx_time >= LastAsk
    /\ pending_sig_req # {} => RequestAlive /\ last_rx_time + KEEPALIVE_TICKS >= LastAsk
    /\ pending_probes \subseteq Nat /\ \A id \in pending_probes : ProbeAlive(id)

LEMMA NextMultiple ==
    ASSUME NEW x \in Nat, NEW n \in Nat \ {0}
    PROVE  IF (x + 1) % n = 0 THEN x % n = n - 1 ELSE (x + 1) % n = (x % n) + 1
<1> DEFINE q == x \div n
           r == x % n
           q2 == (x + 1) \div n
           r2 == (x + 1) % n
<1>1. q \in Nat /\ q2 \in Nat /\ r \in 0 .. n - 1 /\ r2 \in 0 .. n - 1
  OBVIOUS
<1>2. x = n * q + r /\ x + 1 = n * q2 + r2
  OBVIOUS
<1> HIDE DEF q, r, q2, r2
<1>3. \A a, b \in Nat : a < b => n * b >= n * a + n
  <2> SUFFICES ASSUME NEW a \in Nat, NEW b \in Nat, a < b PROVE n * b >= n * a + n
    BY Zenon
  <2>1. b - a - 1 \in Nat /\ b = a + 1 + (b - a - 1)
    OBVIOUS
  <2>2. PICK c \in Nat : b = a + 1 + c
    BY <2>1, Zenon
  <2>3. n * b = n * a + n + n * c /\ n * c \in Nat /\ n * a \in Nat
    BY <2>2
  <2> QED BY <2>3
<1> DEFINE u == n * q
           w == n * q2
<1>4. q = q2 \/ n * q2 >= n * q + n \/ n * q >= n * q2 + n
  BY <1>1, <1>3
<1>5. u \in Nat /\ w \in Nat /\ (u = w \/ w >= u + n \/ u >= w + n) /\ x = u + r /\ x + 1 = w + r2
  BY <1>1, <1>2, <1>4
<1> HIDE DEF u, w
<1>6. IF r2 = 0 THEN r = n - 1 ELSE r2 = r + 1
  BY <1>1, <1>5
<1> QED BY <1>6, Zenon DEF r, r2

\* The tick after the last request: either the next request is due, or it is less
\* than KEEPALIVE_TICKS ago.
LEMMA AskTimes ==
    ASSUME HealthType
    PROVE  /\ LastAsk \in Nat /\ LastAsk <= tick /\ tick + 1 <= LastAsk + KEEPALIVE_TICKS
           /\ ~send_keepalives(tick + 1) => (tick + 1) - ((tick + 1) % KEEPALIVE_TICKS) = LastAsk
           /\ send_keepalives(tick + 1) => /\ (tick + 1) - ((tick + 1) % KEEPALIVE_TICKS) = tick + 1
                                           /\ tick + 1 = LastAsk + KEEPALIVE_TICKS
<1>1. tick \in Nat /\ KEEPALIVE_TICKS \in Nat \ {0}
  BY HealthAssumption, Zenon DEF HealthType
<1>2. tick % KEEPALIVE_TICKS \in 0 .. KEEPALIVE_TICKS - 1
  BY <1>1
<1>3. tick % KEEPALIVE_TICKS <= tick
  <2>1. tick = KEEPALIVE_TICKS * (tick \div KEEPALIVE_TICKS) + (tick % KEEPALIVE_TICKS)
    BY <1>1
  <2>2. tick \div KEEPALIVE_TICKS \in Nat
    BY <1>1
  <2>3. KEEPALIVE_TICKS * (tick \div KEEPALIVE_TICKS) \in Nat
    BY <1>1, <2>2
  <2> QED BY <1>1, <1>2, <2>1, <2>3
<1>4. IF (tick + 1) % KEEPALIVE_TICKS = 0 THEN tick % KEEPALIVE_TICKS = KEEPALIVE_TICKS - 1
      ELSE (tick + 1) % KEEPALIVE_TICKS = (tick % KEEPALIVE_TICKS) + 1
  BY <1>1, NextMultiple, Zenon
<1> QED BY <1>1, <1>2, <1>3, <1>4 DEF LastAsk, send_keepalives


LEMMA InitHealthy ==
    ASSUME HealthInit PROVE Healthy
<1>1. HealthType
  BY InitAskedAt, Zenon
<1>2. LastAsk \in Nat /\ LastAsk <= 0
  BY <1>1, AskTimes, Zenon DEF HealthInit
<1> QED BY <1>2, HealthAssumption DEF HealthInit, Healthy, SigFrames

\* A tick finds the last request answered when the next is due, the probes
\* answered when they would expire, and the peer heard of in time.
LEMMA MaintainHealthy ==
    ASSUME Prompt, HealthType, Healthy, quality = "good", do_maintenance PROVE Healthy'
<1> DEFINE t == tick + 1
           D == GoodDelay
           KA == KEEPALIVE_TICKS
<1>1. /\ D \in Nat /\ KA \in Nat \ {0} /\ tick \in Nat /\ last_rx_time \in Nat
      /\ PEER_TIMEOUT \in Nat /\ PROBE_TIMEOUT \in Nat
      /\ 2 * D < KA /\ 2 * D <= PROBE_TIMEOUT /\ KA + 2 * D <= PEER_TIMEOUT
  BY HealthAssumption, Zenon DEF Prompt, GoodDelay, HealthType
<1>2. /\ LastAsk \in Nat /\ LastAsk <= tick /\ t <= LastAsk + KA
      /\ ~send_keepalives(t) => t - (t % KA) = LastAsk
      /\ send_keepalives(t) => t - (t % KA) = t /\ t = LastAsk + KA
  BY AskTimes, Zenon
<1>3. \A f \in frames : f.sent \in Nat /\ t <= f.sent + D
  <2>1. \A f \in frames : f.sent \in Nat /\ tick - f.sent < D
    BY Zenon DEF do_maintenance, Healthy, GoodDelay
  <2> QED BY <1>1, <2>1
<1>4. tick' = t /\ LastAsk' = t - (t % KA) /\ last_rx_time' = last_rx_time
  BY Zenon DEF do_maintenance, LastAsk
<1>5. pending_sig_req # {} => t <= LastAsk + 2 * D
  <2>1. pending_sig_req # {} => RequestAlive
    BY Zenon DEF Healthy
  <2> QED BY <1>1, <1>2, <1>3, <2>1 DEF RequestAlive, SigFrames
<1>6. ~expire_peers(t)
  <2>1. CASE pending_sig_req = {}
    <3>1. last_rx_time >= LastAsk
      BY <2>1, Zenon DEF Healthy
    <3> QED BY <1>1, <1>2, <3>1 DEF expire_peers
  <2>2. CASE pending_sig_req # {}
    <3>1. last_rx_time + KA >= LastAsk
      BY <2>2, Zenon DEF Healthy
    <3> QED BY <1>1, <1>2, <1>5, <2>2, <3>1 DEF expire_peers
  <2> QED BY <2>1, <2>2, Zenon
<1>7. send_keepalives(t) => pending_sig_req = {}
  BY <1>1, <1>2, <1>5
<1>8. Expired(t) = {}
  <2> SUFFICES ASSUME NEW id \in pending_probes PROVE ~(t - id > PROBE_TIMEOUT)
    BY Zenon DEF Expired
  <2>1. id \in Nat /\ ProbeAlive(id)
    BY Zenon DEF Healthy
  <2> QED BY <1>1, <1>3, <2>1 DEF ProbeAlive
<1> DEFINE ask == [type |-> "SigReq", seq |-> sig_req_seq + 1, sent |-> t]
           probe == [type |-> "PathLookup", seq |-> t, sent |-> t]
<1>9. /\ frames' = frames \cup (IF send_keepalives(t) THEN {ask} ELSE {})
                          \cup (IF probe_cuckoo_claim(t) THEN {probe} ELSE {})
      /\ IF send_keepalives(t) THEN pending_sig_req' # {} ELSE pending_sig_req' = pending_sig_req
      /\ pending_probes' = pending_probes \cup (IF probe_cuckoo_claim(t) THEN {t} ELSE {})
      /\ listed' = listed
  BY <1>6, <1>8, Zenon DEF do_maintenance
<1>10. trust' = trust
  <2>1. missed(t) + Cardinality(Expired(t)) = 0
    <3>1. missed(t) = 0 /\ Cardinality(Expired(t)) = 0
      BY <1>7, <1>8, FS_EmptySet, Zenon DEF missed
    <3> QED BY <3>1
  <2>2. trust' = decays(missed(t) + Cardinality(Expired(t)), trust)
    BY <1>6, Zenon DEF do_maintenance
  <2> QED BY <2>1, <2>2, Zenon DEF decays
<1>11. /\ ask.type = "SigReq" /\ ask.sent = t
       /\ probe.type = "PathLookup" /\ probe.seq = t /\ probe.sent = t
  BY Zenon
<1>12. t \in Nat /\ t <= t + D
  BY <1>1
<1> HIDE DEF ask, probe, t, D, KA
<1>13. (\A f \in frames : f.sent \in Nat /\ tick <= f.sent + GoodDelay)'
  BY <1>3, <1>4, <1>9, <1>11, <1>12, Zenon DEF D, GoodDelay
<1>14. SigFrames' = SigFrames \cup (IF send_keepalives(t) THEN {ask} ELSE {})
  BY <1>9, <1>11, Zenon DEF SigFrames
<1>15. (pending_probes \subseteq Nat /\ \A id \in pending_probes : ProbeAlive(id))'
  <2>1. ASSUME NEW id \in pending_probes PROVE id \in Nat /\ ProbeAlive(id)'
    <3>1. id \in Nat /\ ProbeAlive(id)
      BY Zenon DEF Healthy
    <3> QED BY <1>9, <3>1, Zenon DEF ProbeAlive, GoodDelay
  <2>2. ASSUME NEW id, id = t, probe_cuckoo_claim(t) PROVE ProbeAlive(id)'
    <3>1. probe \in frames'
      BY <1>9, <2>2, Zenon
    <3>2. probe.seq = id /\ probe.type = "PathLookup" /\ probe.sent <= id
      BY <1>11, <1>12, <2>2
    <3> QED BY <3>1, <3>2, Zenon DEF ProbeAlive
  <2>3. \A id \in pending_probes' : id \in Nat /\ ProbeAlive(id)'
    BY <1>9, <1>12, <2>1, <2>2, Zenon
  <2> QED BY <2>3, Zenon
<1>16. CASE ~send_keepalives(t)
  <2>1. LastAsk' = LastAsk /\ SigFrames' = SigFrames /\ pending_sig_req' = pending_sig_req
    BY <1>2, <1>4, <1>9, <1>14, <1>16, Zenon
  <2>2. RequestAlive' <=> RequestAlive
    BY <2>1, Zenon DEF RequestAlive, GoodDelay
  <2>3. /\ (\A f, g \in SigFrames : f = g)'
        /\ (pending_sig_req = {} => SigFrames = {} /\ last_rx_time >= LastAsk)'
        /\ (pending_sig_req # {} => RequestAlive /\ last_rx_time + KEEPALIVE_TICKS >= LastAsk)'
    BY <1>4, <2>1, <2>2, Zenon DEF Healthy
  <2> QED BY <1>9, <1>10, <1>13, <1>15, <2>3, Zenon DEF Healthy
<1>17. CASE send_keepalives(t)
  <2>1. /\ LastAsk' = t /\ SigFrames = {} /\ SigFrames' = {ask} /\ pending_sig_req' # {}
        /\ last_rx_time >= LastAsk /\ t = LastAsk + KA
    BY <1>2, <1>4, <1>7, <1>9, <1>14, <1>17, Zenon DEF Healthy
  <2>2. ask \in SigFrames' /\ ask.type = "SigReq" /\ ask.sent <= LastAsk'
    BY <1>11, <1>12, <2>1
  <2>3. RequestAlive'
    BY <2>2, Zenon DEF RequestAlive
  <2>4. last_rx_time' + KEEPALIVE_TICKS >= LastAsk'
    BY <1>1, <1>2, <1>4, <2>1 DEF KA
  <2> QED BY <1>9, <1>10, <1>13, <1>15, <2>1, <2>3, <2>4, Zenon DEF Healthy
<1> QED BY <1>16, <1>17, Zenon


LEMMA NextHealthy ==
    ASSUME Prompt, HealthType, Healthy, quality = "good", [HealthNext]_health_vars PROVE Healthy'
<1>1. /\ GoodDelay \in Nat /\ tick \in Nat /\ LastAsk \in Nat /\ LastAsk <= tick
      /\ TRUST_INITIAL \in Nat /\ TRUST_MAX \in Nat /\ TRUST_INITIAL <= TRUST_MAX
  BY HealthAssumption, AskTimes, Zenon DEF Prompt, GoodDelay, HealthType
<1>2. CASE do_maintenance
  BY <1>2, MaintainHealthy, Zenon
<1>3. ASSUME NEW f \in frames, NEW kind, NEW g, UNCHANGED tick,
             g = [type |-> kind, seq |-> f.seq, sent |-> tick],
             frames' = (frames \ {f}) \cup {g},
             \/ f.type = "SigReq" /\ kind = "SigRes"
             \/ f.type = "PathLookup" /\ kind = "PathNotify",
             UNCHANGED <<listed, last_rx_time, pending_sig_req, pending_probes, trust>>
      PROVE  Healthy'
  <2>1. g.type = kind /\ g.seq = f.seq /\ g.sent = tick /\ LastAsk' = LastAsk
    BY <1>3, Zenon DEF LastAsk
  <2>2. f.sent \in Nat /\ tick <= f.sent + GoodDelay
    BY Zenon DEF Healthy
  <2>3. (\A k \in frames : k.sent \in Nat /\ tick <= k.sent + GoodDelay)'
    BY <1>1, <1>3, <2>1 DEF Healthy, GoodDelay
  <2>4. (\A k, l \in SigFrames : k = l)' /\ (SigFrames = {} => SigFrames' = {})
    BY <1>3, <2>1 DEF Healthy, SigFrames
  <2>5. RequestAlive => RequestAlive'
    <3> SUFFICES ASSUME RequestAlive PROVE RequestAlive'
      BY Zenon
    <3>1. PICK k \in SigFrames : \/ k.type = "SigReq" /\ k.sent <= LastAsk
                                 \/ k.type = "SigRes" /\ k.sent <= LastAsk + GoodDelay
      BY Zenon DEF RequestAlive
    <3>2. CASE k # f
      BY <1>3, <2>1, <3>1, <3>2, Zenon DEF RequestAlive, SigFrames, GoodDelay
    <3>3. CASE k = f
      <4>1. f.type = "SigReq" /\ f.sent <= LastAsk /\ kind = "SigRes"
        BY <1>3, <3>1, <3>3, Zenon DEF SigFrames
      <4>2. g \in SigFrames' /\ g.type = "SigRes" /\ g.sent <= LastAsk + GoodDelay
        BY <1>1, <1>3, <2>1, <2>2, <4>1 DEF SigFrames
      <4> QED BY <2>1, <4>2, Zenon DEF RequestAlive, GoodDelay
    <3> QED BY <3>2, <3>3, Zenon
  <2>6. ASSUME NEW id \in Nat, ProbeAlive(id) PROVE ProbeAlive(id)'
    <3>1. PICK k \in frames : /\ k.seq = id
                              /\ \/ k.type = "PathLookup" /\ k.sent <= id
                                 \/ k.type = "PathNotify" /\ k.sent <= id + GoodDelay
      BY <2>6, Zenon DEF ProbeAlive
    <3>2. CASE k # f
      BY <1>3, <3>1, <3>2, Zenon DEF ProbeAlive, GoodDelay
    <3>3. CASE k = f
      <4>1. g \in frames' /\ g.seq = id /\ g.type = "PathNotify" /\ g.sent <= id + GoodDelay
        BY <1>1, <1>3, <2>1, <2>2, <3>1, <3>3
      <4> QED BY <4>1, Zenon DEF ProbeAlive, GoodDelay
    <3> QED BY <3>2, <3>3, Zenon
  <2>7. (pending_probes \subseteq Nat /\ \A id \in pending_probes : ProbeAlive(id))'
    BY <1>3, <2>6, Zenon DEF Healthy
  <2> QED BY <1>3, <2>1, <2>3, <2>4, <2>5, <2>7, Zenon DEF Healthy
<1>4. boost_trust(trust) \in Nat /\ boost_trust(trust) >= TRUST_INITIAL
  BY <1>1 DEF Healthy, boost_trust
<1>5. ASSUME NEW f \in frames, handle_sig_res(f) PROVE Healthy'
  <2>1. /\ f.type = "SigRes" /\ frames' = frames \ {f} /\ last_rx_time' = tick
        /\ pending_sig_req' = {} /\ UNCHANGED <<tick, listed, pending_probes>>
        /\ trust' \in {trust, boost_trust(trust)} /\ LastAsk' = LastAsk
    BY <1>5, Zenon DEF handle_sig_res, LastAsk
  <2>2. SigFrames' = {}
    BY <2>1 DEF Healthy, SigFrames
  <2>3. \A id \in Nat : ProbeAlive(id) => ProbeAlive(id)'
    BY <2>1, Zenon DEF ProbeAlive, GoodDelay
  <2>4. (pending_probes \subseteq Nat /\ \A id \in pending_probes : ProbeAlive(id))'
    BY <2>1, <2>3, Zenon DEF Healthy
  <2>5. (\A k \in frames : k.sent \in Nat /\ tick <= k.sent + GoodDelay)'
    BY <2>1, Zenon DEF Healthy, GoodDelay
  <2>6. (listed /\ trust \in Nat /\ trust >= TRUST_INITIAL)'
    BY <1>4, <2>1, Zenon DEF Healthy
  <2> QED BY <1>1, <2>1, <2>2, <2>4, <2>5, <2>6, Zenon DEF Healthy
<1>6. ASSUME NEW f \in frames, handle_path_notify(f) PROVE Healthy'
  <2>1. /\ f.type = "PathNotify" /\ frames' = frames \ {f} /\ last_rx_time' = tick
        /\ pending_probes' = pending_probes \ {f.seq} /\ UNCHANGED <<tick, listed, pending_sig_req>>
        /\ trust' \in {trust, boost_trust(trust)} /\ LastAsk' = LastAsk
    BY <1>6, Zenon DEF handle_path_notify, LastAsk
  <2>2. SigFrames' = SigFrames
    BY <2>1, Zenon DEF SigFrames
  <2>3. RequestAlive' <=> RequestAlive
    BY <2>1, <2>2, Zenon DEF RequestAlive, GoodDelay
  <2>4. \A id \in Nat : ProbeAlive(id) /\ id # f.seq => ProbeAlive(id)'
    BY <2>1, Zenon DEF ProbeAlive, GoodDelay
  <2>5. (pending_probes \subseteq Nat /\ \A id \in pending_probes : ProbeAlive(id))'
    BY <2>1, <2>4, Zenon DEF Healthy
  <2>6. (\A k \in frames : k.sent \in Nat /\ tick <= k.sent + GoodDelay)'
    BY <2>1, Zenon DEF Healthy, GoodDelay
  <2>7. (listed /\ trust \in Nat /\ trust >= TRUST_INITIAL)'
    BY <1>4, <2>1, Zenon DEF Healthy
  <2>8. tick >= LastAsk /\ tick + KEEPALIVE_TICKS >= LastAsk
    BY <1>1, HealthAssumption
  <2> QED BY <2>1, <2>2, <2>3, <2>5, <2>6, <2>7, <2>8, Zenon DEF Healthy
<1>7. ASSUME NEW f \in frames, handle_sig_req(f) PROVE Healthy'
  BY <1>3, <1>7, Zenon DEF handle_sig_req, Frame
<1>8. ASSUME NEW f \in frames, handle_path_lookup(f) PROVE Healthy'
  BY <1>3, <1>8, Zenon DEF handle_path_lookup, Frame
<1>9. ASSUME NEW f \in frames, LoseFrame(f) PROVE Healthy'
  BY <1>9, Zenon DEF LoseFrame
<1>10. CASE UNCHANGED health_vars
  BY <1>10, Zenon DEF health_vars, Healthy, SigFrames, RequestAlive, ProbeAlive, LastAsk, GoodDelay
<1> QED BY <1>2, <1>5, <1>6, <1>7, <1>8, <1>9, <1>10, Zenon DEF HealthNext

\* With the code's keep-alive interval (5 s), probe timeout (10 s) and peer timeout
\* (60 s) this holds for frames that take up to 2 seconds: a peer on a link that
\* loses nothing stays in the table and keeps its trust, in whatever order its
\* answers arrive (send_keepalives, cleanup_stale_probes, expire_peers,
\* router/mod.rs).
THEOREM HealthyPeersAreKept ==
    ASSUME Prompt
    PROVE  HealthSpec => []HealthyKept
<1> DEFINE Inv == HealthType /\ AskedAt /\ (quality = "good" => Healthy)
<1>1. HealthInit => Inv
  BY InitAskedAt, InitHealthy, Zenon
<1>2. Inv /\ [HealthNext]_health_vars => Inv'
  <2> SUFFICES ASSUME Inv, [HealthNext]_health_vars PROVE Inv'
    BY Zenon
  <2>1. quality' = quality
    BY Zenon DEF HealthNext, do_maintenance, handle_sig_req, handle_path_lookup, handle_sig_res,
           handle_path_notify, LoseFrame, health_vars
  <2>2. HealthType' /\ AskedAt'
    BY NextAskedAt, Zenon
  <2> QED BY <2>1, <2>2, NextHealthy, Zenon
<1>3. Inv => HealthyKept
  BY Zenon DEF HealthyKept, Healthy
<1> QED BY <1>1, <1>2, <1>3, PTL DEF HealthSpec

-----------------------------------------------------------------------------
(* Dialling.                                                               *)

DialTask == [by : {"tcp", "quic", "found"},
             at : {"top", "yielding", "yielded", "linked", "asleep", "over"},
             attempts : 0 .. DISCOVERY_DIAL_MAX_ATTEMPTS]

\* The tasks of the configuration and of the cache come first, and only discovered dials end.
DialInv ==
    /\ outlook \in Outlooks
    /\ dials \in Seq(DialTask)
    /\ starts \in 1 .. Len(outlook.starts)
    /\ Len(Trusted) <= Len(dials) /\ \A i \in 1 .. Len(Trusted) : dials[i].by = Trusted[i].by
    /\ \A i \in 1 .. Len(dials) : dials[i].at = "over" => dials[i].by = "found"

\* A start spawns one task for every configured URI, in order, and at most one more.
LEMMA StartFacts ==
    ASSUME NEW o \in Outlooks, NEW k \in 1 .. Len(o.starts)
    PROVE  /\ start(o, k) \in Seq(DialTask)
           /\ o.peers \in Seq({"tcp", "quic"}) /\ Len(o.peers) <= Len(start(o, k))
           /\ \A i \in 1 .. Len(o.peers) : start(o, k)[i].by = o.peers[i]
           /\ \A i \in 1 .. Len(start(o, k)) :
                 start(o, k)[i].by # "found" /\ start(o, k)[i].at = "top"
<1> DEFINE known == PeerCache_load(o.cache, o.starts[k])
           v == IF known = {} THEN <<>> ELSE <<(CHOOSE rec \in known : TRUE).by>>
           u == o.peers \o v
           st == start(o, k)
<1>0. o.peers \in Seq({"tcp", "quic"}) /\ o.cache \subseteq [by : {"tcp", "quic"}, last_seen : Nat]
  BY DialingAssumption, Zenon
<1>1. v \in Seq({"tcp", "quic"})
  <2>1. CASE known = {}
    BY <2>1
  <2>2. CASE known # {}
    <3>1. (CHOOSE rec \in known : TRUE) \in known
      BY <2>2, Zenon
    <3>2. known \subseteq o.cache
      BY Zenon DEF PeerCache_load
    <3>3. (CHOOSE rec \in known : TRUE).by \in {"tcp", "quic"}
      BY <1>0, <3>1, <3>2, Zenon
    <3> HIDE DEF known
    <3>4. v = <<(CHOOSE rec \in known : TRUE).by>>
      BY <2>2, Zenon
    <3> DEFINE b == (CHOOSE rec \in known : TRUE).by
    <3>5. b \in {"tcp", "quic"} /\ v = <<b>>
      BY <3>3, <3>4, Zenon
    <3> HIDE DEF b, v
    <3> QED BY <3>5
  <2> QED BY <2>1, <2>2, Zenon
<1>2. st = [i \in 1 .. Len(u) |-> Task(u[i])]
  BY Zenon DEF start
<1> HIDE DEF v, st
<1>3. /\ u \in Seq({"tcp", "quic"}) /\ Len(o.peers) <= Len(u)
      /\ \A i \in 1 .. Len(o.peers) : i \in 1 .. Len(u) /\ u[i] = o.peers[i]
  BY <1>0, <1>1
<1> HIDE DEF u
<1>4. ASSUME NEW i \in 1 .. Len(u) PROVE Task(u[i]) \in DialTask /\ u[i] # "found"
  BY <1>3, DialingAssumption DEF Task, DialTask
<1>5. st \in Seq(DialTask) /\ Len(st) = Len(u)
  BY <1>2, <1>3, <1>4
<1>6. \A i \in 1 .. Len(u) : st[i].by = u[i] /\ st[i].at = "top"
  <2> SUFFICES ASSUME NEW i \in 1 .. Len(u) PROVE st[i].by = u[i] /\ st[i].at = "top"
    BY Zenon
  <2>1. st[i] = Task(u[i])
    BY <1>2, Zenon
  <2>2. Task(u[i]).by = u[i] /\ Task(u[i]).at = "top"
    BY Zenon DEF Task
  <2> QED BY <2>1, <2>2, Zenon
<1>7. \A i \in 1 .. Len(o.peers) : st[i].by = o.peers[i]
  BY <1>3, <1>6, Zenon
<1>8. \A i \in 1 .. Len(st) : st[i].by # "found" /\ st[i].at = "top"
  BY <1>4, <1>5, <1>6, Zenon
<1>9. Len(o.peers) <= Len(st)
  BY <1>3, <1>5, Zenon
<1> QED BY <1>0, <1>5, <1>7, <1>8, <1>9, Zenon DEF st

\* Tasks keep their origin, and none that is not a discovered dial ends.
DialKeeps(d) ==
    /\ d \in Seq(DialTask) /\ Len(d) >= Len(dials)
    /\ \A i \in 1 .. Len(dials) : d[i].by = dials[i].by
    /\ \A i \in 1 .. Len(d) : d[i].at = "over" => d[i].by = "found"

LEMMA OneTask ==
    ASSUME DialInv, NEW i \in DOMAIN dials, NEW t \in DialTask, t.by = dials[i].by,
           t.at = "over" => t.by = "found"
    PROVE  DialKeeps([dials EXCEPT ![i] = t])
BY DEF DialInv, DialKeeps

LEMMA DialStepKeeps ==
    ASSUME DialInv, NEW i \in DOMAIN dials, DialStep(i) \/ LinkEnds(i)
    PROVE  DialKeeps(dials')
<1>0. 0 \in 0 .. DISCOVERY_DIAL_MAX_ATTEMPTS
  BY DialingAssumption
<1>1. dials[i] \in DialTask /\ Len(dials) \in Nat /\ DOMAIN dials = 1 .. Len(dials)
  BY DEF DialInv
<1>2. Admission \in {"asleep", "linked"}
  BY Zenon DEF Admission
<1>3. ASSUME NEW at \in {"top", "yielding", "yielded", "linked", "asleep"}, Resume_at(i, at)
      PROVE  DialKeeps(dials')
  <2> DEFINE t == [dials[i] EXCEPT !.at = at]
  <2>1. t \in DialTask /\ t.by = dials[i].by /\ t.at # "over"
    BY <1>1, Zenon DEF DialTask
  <2>2. dials' = [dials EXCEPT ![i] = t]
    BY <1>3, Zenon DEF Resume_at
  <2> HIDE DEF t
  <2> QED BY <2>1, <2>2, OneTask, Zenon
<1>4. CASE dial_inner(i)
  <2> DEFINE met == IF far # "up" THEN "asleep" ELSE IF outlook.larger THEN "yielding" ELSE Admission
             t == IF Exhausted(dials[i]) THEN [dials[i] EXCEPT !.at = "over"]
                  ELSE [dials[i] EXCEPT !.at = met, !.attempts = Tried(dials[i])]
  <2>1. met \in {"asleep", "yielding", "linked"}
    BY <1>2, Zenon
  <2>2. Tried(dials[i]) \in 0 .. DISCOVERY_DIAL_MAX_ATTEMPTS
    BY <1>1, DialingAssumption DEF DialTask, Tried, More
  <2>3. dials' = [dials EXCEPT ![i] = t]
    BY <1>4, Zenon DEF dial_inner
  <2> HIDE DEF met
  <2>4. t \in DialTask /\ t.by = dials[i].by /\ (t.at = "over" => t.by = "found")
    BY <1>1, <2>1, <2>2, Zenon DEF DialTask, Exhausted
  <2> HIDE DEF t
  <2> QED BY <2>3, <2>4, OneTask, Zenon
<1>5. CASE tie_break(i)
  BY <1>2, <1>3, <1>5, Zenon DEF tie_break
<1>6. CASE DropYielded(i)
  <2>1. PICK ended \in {{}, InLink} :
           dials' = [j \in DOMAIN dials |->
              CASE j = i -> [dials[j] EXCEPT !.at = "top"]
                [] j \in ended -> [dials[j] EXCEPT !.at = "asleep", !.attempts = 0]
                [] OTHER -> dials[j]]
    BY <1>6, Zenon DEF DropYielded
  <2>2. i \notin ended
    BY <1>6, Zenon DEF DropYielded, InLink
  <2>3. ASSUME NEW j \in DOMAIN dials
        PROVE  /\ dials'[j] \in DialTask /\ dials'[j].by = dials[j].by
               /\ dials'[j].at = "over" => dials'[j].by = "found"
    <3>1. dials[j] \in DialTask /\ (dials[j].at = "over" => dials[j].by = "found")
      BY <1>1 DEF DialInv
    <3>2. CASE j = i
      <4>1. dials'[j] = [dials[j] EXCEPT !.at = "top"]
        BY <2>1, <2>2, <3>2, Zenon
      <4> QED BY <3>1, <4>1, Zenon DEF DialTask
    <3>3. CASE j # i /\ j \in ended
      <4>1. dials'[j] = [dials[j] EXCEPT !.at = "asleep", !.attempts = 0]
        BY <2>1, <3>3, Zenon
      <4> QED BY <1>0, <3>1, <4>1, Zenon DEF DialTask
    <3>4. CASE j # i /\ j \notin ended
      BY <2>1, <3>1, <3>4, Zenon
    <3> QED BY <3>2, <3>3, <3>4, Zenon
  <2>4. DOMAIN dials' = 1 .. Len(dials)
    BY <1>1, <2>1, Zenon
  <2>5. dials' \in [1 .. Len(dials) -> DialTask]
    BY <1>1, <2>1, <2>3, <2>4, Zenon
  <2>6. dials' \in Seq(DialTask) /\ Len(dials') = Len(dials)
    BY <1>1, <2>5
  <2> QED BY <1>1, <2>3, <2>6 DEF DialKeeps
<1>7. CASE quic_dial(i)
  <2>1. PICK at \in {"top", "linked", "asleep"} : Resume_at(i, at)
    BY <1>2, <1>7, Zenon DEF quic_dial
  <2> QED BY <1>3, <2>1, Zenon
<1>8. CASE Wake(i)
  BY <1>3, <1>8, Zenon DEF Wake
<1>9. CASE LinkEnds(i)
  <2> DEFINE t == [dials[i] EXCEPT !.at = "asleep", !.attempts = 0]
  <2>1. t \in DialTask /\ t.by = dials[i].by /\ t.at # "over"
    BY <1>0, <1>1, Zenon DEF DialTask
  <2>2. dials' = [dials EXCEPT ![i] = t]
    BY <1>9, Zenon DEF LinkEnds
  <2> HIDE DEF t
  <2> QED BY <2>1, <2>2, OneTask, Zenon
<1> QED BY <1>4, <1>5, <1>6, <1>7, <1>8, <1>9, Zenon DEF DialStep

LEMMA DialInvHolds == DialSpec => []DialInv
<1>1. DialInit => DialInv
  <2> SUFFICES ASSUME DialInit PROVE DialInv
    BY Zenon
  <2>1. outlook \in Outlooks /\ starts = 1 /\ dials = Trusted
    BY Zenon DEF DialInit, Trusted
  <2>2. starts \in 1 .. Len(outlook.starts)
    BY <2>1, DialingAssumption
  <2>3. Trusted \in Seq(DialTask) /\ \A i \in 1 .. Len(Trusted) : Trusted[i].at = "top"
    BY <2>1, <2>2, StartFacts, Zenon DEF Trusted
  <2> QED BY <2>1, <2>2, <2>3 DEF DialInv
<1>2. DialInv /\ [DialNext]_dialing_vars => DialInv'
  <2> SUFFICES ASSUME DialInv, [DialNext]_dialing_vars PROVE DialInv'
    BY Zenon
  <2>0. /\ outlook' = outlook /\ outlook \in Outlooks /\ starts \in 1 .. Len(outlook.starts)
        /\ Len(Trusted) \in Nat /\ Len(dials) \in Nat
    <3>1. outlook' = outlook
      BY Zenon DEF DialNext, Shift, Reboot, dialing_vars
    <3>2. Trusted \in Seq(DialTask) /\ dials \in Seq(DialTask)
      BY StartFacts, Zenon DEF DialInv, Trusted
    <3> QED BY <3>1, <3>2 DEF DialInv
  <2>1. ASSUME DialKeeps(dials'), starts' = starts PROVE DialInv'
    <3>1. Trusted' = Trusted
      BY <2>0, <2>1, Zenon DEF Trusted
    <3> QED BY <2>0, <2>1, <3>1 DEF DialInv, DialKeeps
  <2>2. CASE Spawn /\ starts' = starts
    <3>1. Task("found") \in DialTask /\ Task("found").at = "top"
      BY DialingAssumption DEF Task, DialTask
    <3>2. dials' = Append(dials, Task("found"))
      BY <2>2, Zenon DEF Spawn
    <3> DEFINE t == Task("found")
    <3> HIDE DEF t
    <3>3. DialKeeps(Append(dials, t))
      BY <3>1 DEF DialKeeps, DialInv, t
    <3> QED BY <2>1, <2>2, <3>2, <3>3, Zenon DEF t
  <2>3. ASSUME NEW i \in DOMAIN dials, DialStep(i) \/ LinkEnds(i), starts' = starts PROVE DialInv'
    BY <2>1, <2>3, DialStepKeeps, Zenon
  <2>4. CASE Shift \/ UNCHANGED dialing_vars
    <3>1. dials' = dials /\ starts' = starts
      BY <2>4, Zenon DEF Shift, dialing_vars
    <3>2. Trusted' = Trusted
      BY <2>0, <3>1, Zenon DEF Trusted
    <3> QED BY <2>0, <3>1, <3>2, Zenon DEF DialInv
  <2>5. CASE Reboot
    <3>1. dials' = Trusted' /\ starts' = starts + 1 /\ starts < Len(outlook.starts)
      BY <2>0, <2>5, Zenon DEF Reboot, Trusted
    <3>2. starts' \in 1 .. Len(outlook.starts)
      BY <2>0, <3>1, DialingAssumption
    <3>3. start(outlook, starts') \in Seq(DialTask) /\ \A i \in 1 .. Len(start(outlook, starts')) :
            start(outlook, starts')[i].at = "top"
      BY <2>0, <3>2, StartFacts, Zenon
    <3>4. Trusted' = start(outlook, starts')
      BY <2>0, Zenon DEF Trusted
    <3> DEFINE st == start(outlook, starts')
    <3>5. st \in Seq(DialTask) /\ dials' = st /\ Trusted' = st /\ \A i \in 1 .. Len(st) : st[i].at = "top"
      BY <3>1, <3>3, <3>4, Zenon
    <3> HIDE DEF st
    <3> QED BY <2>0, <3>2, <3>5 DEF DialInv
  <2> QED BY <2>2, <2>3, <2>4, <2>5, Zenon DEF DialNext, discovery_beacon, mdns_handle_event
<1> QED BY <1>1, <1>2, PTL DEF DialSpec

\* There is a live task for every URI of the configuration, and for every one that the last start
\* took from the cache file.
TrustedDialled ==
    /\ \A i \in 1 .. Len(outlook.peers) : i \in Alive /\ dials[i].by = outlook.peers[i]
    /\ \A i \in 1 .. Len(Trusted) : i \in Alive /\ dials[i].by = Trusted[i].by

\* No configured peer is ever given up, whatever its endpoint does, however often a link to it ends
\* and whenever the node restarts, and no cached peer by the process that found it in the cache: "keep
\* trying to reach a known, trusted endpoint indefinitely" (dial, transport.rs).  A later start may
\* leave a cached peer behind, when the record has passed the maximal age or the file cannot be
\* read (load_with_max_age, peercache.rs).
THEOREM TrustedNeverGivenUp == DialSpec => []TrustedDialled
<1>1. DialInv => TrustedDialled
  <2> SUFFICES ASSUME DialInv PROVE TrustedDialled
    BY Zenon
  <2>0. /\ Trusted \in Seq(DialTask) /\ dials \in Seq(DialTask)
        /\ outlook.peers \in Seq({"tcp", "quic"}) /\ Len(outlook.peers) <= Len(Trusted)
        /\ \A i \in 1 .. Len(outlook.peers) : Trusted[i].by = outlook.peers[i]
        /\ \A i \in 1 .. Len(Trusted) : Trusted[i].by # "found"
    BY StartFacts, Zenon DEF DialInv, Trusted
  <2>1. ASSUME NEW i \in 1 .. Len(Trusted) PROVE i \in Alive /\ dials[i].by = Trusted[i].by
    <3>1. Trusted[i].by # "found" /\ i \in 1 .. Len(dials) /\ DOMAIN dials = 1 .. Len(dials)
      BY <2>0 DEF DialInv
    <3>2. dials[i].by = Trusted[i].by
      BY Zenon DEF DialInv
    <3> QED BY <3>1, <3>2, Zenon DEF DialInv, Alive
  <2>2. \A i \in 1 .. Len(outlook.peers) : i \in 1 .. Len(Trusted)
    BY <2>0
  <2> QED BY <2>0, <2>1, <2>2, Zenon DEF TrustedDialled
<1> QED BY <1>1, DialInvHolds, PTL

\* The steps a discovered dial that is not linked has left before it ends.
StepsLeft(t) ==
    CASE t.at = "top" -> 2 * (DISCOVERY_DIAL_MAX_ATTEMPTS - t.attempts) + 1
      [] t.at = "asleep" -> 2 * (DISCOVERY_DIAL_MAX_ATTEMPTS - t.attempts) + 2
      [] OTHER -> 0

\* While the endpoint does not authenticate, every step of a discovered dial that has no link
\* takes it nearer to its end, and no step of another task takes it further away: the bound
\* DISCOVERY_DIAL_MAX_ATTEMPTS counts every way an attempt can fail (dial_inner, transport.rs).
THEOREM StrangersRunOut ==
    DialSpec => [][far # "up" /\ ~Reboot =>
                     \A i \in DOMAIN dials :
                        dials[i].by = "found" /\ dials[i].at \in {"top", "asleep"} =>
                           dials'[i] = dials[i] \/ StepsLeft(dials'[i]) < StepsLeft(dials[i])]_dialing_vars
<1> DEFINE Q == far # "up" /\ ~Reboot =>
                  \A i \in DOMAIN dials :
                     dials[i].by = "found" /\ dials[i].at \in {"top", "asleep"} =>
                        dials'[i] = dials[i] \/ StepsLeft(dials'[i]) < StepsLeft(dials[i])
<1>1. DialInv /\ [DialNext]_dialing_vars => [Q]_dialing_vars
  <2> SUFFICES ASSUME DialInv, DialNext, far # "up", ~Reboot, NEW i \in DOMAIN dials,
                      dials[i].by = "found", dials[i].at \in {"top", "asleep"}
               PROVE  dials'[i] = dials[i] \/ StepsLeft(dials'[i]) < StepsLeft(dials[i])
    BY Zenon
  <2> DEFINE M == DISCOVERY_DIAL_MAX_ATTEMPTS
             a == dials[i].attempts
  <2>0. /\ dials \in Seq(DialTask) /\ dials[i] \in DialTask /\ a \in Nat /\ M \in Nat /\ a <= M
        /\ Len(dials) \in Nat /\ DOMAIN dials = 1 .. Len(dials)
    <3>1. dials \in Seq(DialTask) /\ M \in Nat
      BY DialingAssumption, Zenon DEF DialInv
    <3>2. Len(dials) \in Nat /\ DOMAIN dials = 1 .. Len(dials) /\ dials[i] \in DialTask
      BY <3>1
    <3>3. a \in 0 .. M
      BY <3>2, Zenon DEF DialTask
    <3> QED BY <3>1, <3>2, <3>3
  <2>1. CASE Spawn
    BY <2>0, <2>1 DEF Spawn
  <2>2. CASE Shift
    BY <2>2, Zenon DEF Shift
  <2>3. ASSUME NEW j \in DOMAIN dials, j # i, DialStep(j) \/ LinkEnds(j) PROVE dials'[i] = dials[i]
    <3>1. CASE dial_inner(j) \/ tie_break(j) \/ quic_dial(j) \/ Wake(j) \/ LinkEnds(j)
      <4>1. PICK t : dials' = [dials EXCEPT ![j] = t]
        BY <3>1, Zenon DEF dial_inner, tie_break, quic_dial, Wake, LinkEnds, Resume_at
      <4> QED BY <2>0, <2>3, <4>1, Zenon
    <3>2. CASE DropYielded(j)
      BY <2>3, <3>2, Zenon DEF DropYielded, InLink
    <3> QED BY <2>3, <3>1, <3>2, Zenon DEF DialStep
  <2>4. CASE DialStep(i) \/ LinkEnds(i)
    <3>1. \/ dials[i].at = "top" /\ dial_inner(i)
          \/ dials[i].at = "asleep" /\ Wake(i)
      BY <2>4, Zenon DEF DialStep, dial_inner, tie_break, DropYielded, quic_dial, Wake, LinkEnds, InLink
    <3>2. CASE dials[i].at = "top" /\ dial_inner(i)
      <4>1. CASE a = M
        <5>1. dials'[i].at = "over"
          BY <2>0, <3>2, <4>1 DEF dial_inner, Exhausted
        <5>2. StepsLeft(dials'[i]) = 0 /\ StepsLeft(dials[i]) = 1
          BY <2>0, <3>2, <4>1, <5>1 DEF StepsLeft
        <5> QED BY <5>2
      <4>2. CASE a < M
        <5>1. dials'[i] = [dials[i] EXCEPT !.at = "asleep", !.attempts = a + 1]
          BY <2>0, <3>2, <4>2 DEF dial_inner, Exhausted, Tried, More
        <5>2. dials'[i].at = "asleep" /\ dials'[i].attempts = a + 1
          BY <2>0, <5>1, Zenon DEF DialTask
        <5>3. StepsLeft(dials'[i]) = 2 * (M - (a + 1)) + 2 /\ StepsLeft(dials[i]) = 2 * (M - a) + 1
          BY <3>2, <5>2, Zenon DEF StepsLeft
        <5> QED BY <2>0, <5>3
      <4> QED BY <2>0, <4>1, <4>2
    <3>3. CASE dials[i].at = "asleep" /\ Wake(i)
      <4>1. dials'[i].at = "top" /\ dials'[i].attempts = a
        BY <2>0, <3>3, Zenon DEF Wake, Resume_at, DialTask
      <4>2. StepsLeft(dials'[i]) = 2 * (M - a) + 1 /\ StepsLeft(dials[i]) = 2 * (M - a) + 2
        BY <3>3, <4>1, Zenon DEF StepsLeft
      <4> QED BY <2>0, <4>2
    <3> QED BY <3>1, <3>2, <3>3, Zenon
  <2> QED BY <2>1, <2>2, <2>3, <2>4, Zenon DEF DialNext, discovery_beacon, mdns_handle_event
<1> QED BY <1>1, DialInvHolds, PTL DEF DialSpec
=============================================================================
