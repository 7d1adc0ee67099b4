--------------------------- MODULE SessionProofs ---------------------------
(***************************************************************************)
(* Proofs about module Session, for every window width and any number of   *)
(* losses, removals, rotations, retransmissions and payloads.              *)
(***************************************************************************)
EXTENDS Session, FiniteSetTheorems, TLAPS

InitMsg == [type : {"init"}, from : Node, x : Keys, ek : Keys, no : Nat]

AckMsg == [type : {"ack"}, from : Node, x : Keys, ct : [ek : Keys, ss : Keys]]

DataMsg == [type : {"data"}, from : Node, x : Keys, seq : Nat,
            key : (SUBSET Keys) \X (Secret \cup {Absent})]

MadeRec == [x : Nat, kem : Nat, encap : Nat, rotated : Nat, data : Nat]

SessionType ==
    /\ sess \in [Node -> SessionInfo \cup {Absent}]
    /\ kem \in [Node -> [dk : Nat, prev : Nat]]
    /\ jobs \in [Node -> Nat]
    /\ made \in [Node -> MadeRec]
    /\ net \subseteq InitMsg \cup AckMsg \cup DataMsg
    /\ faults \in [lost : Nat, removed : Nat]

-----------------------------------------------------------------------------
(* The replay window. *)

\* A number for which the window has slid is not admitted again.
LEMMA SlideCloses ==
    ASSUME NEW high \in Nat, NEW win \in SUBSET Nat, NEW seq \in Nat
    PROVE  ~Admits(SlideHigh(high, seq), SlideWindow(high, win, seq), seq)
BY WindowAssumption DEF Admits, TooOld, Seen, SlideHigh, SlideWindow, Offsets

\* Sliding the window re-admits no number: bits shifted out of the word are out
\* of its reach.
LEMMA SlideNeverReopens ==
    ASSUME NEW high \in Nat, NEW win \in SUBSET Nat, NEW seq \in Nat, NEW q \in Nat,
           ~Admits(high, win, q)
    PROVE  ~Admits(SlideHigh(high, seq), SlideWindow(high, win, seq), q)
<1>1. CASE seq > high
  <2>1. q <= high /\ (high - q >= Window \/ high - q \in win)
    BY WindowAssumption DEF Admits, TooOld, Seen
  <2>2. (seq - q) - (seq - high) = high - q
    BY <2>1
  <2>3. seq - q \in Offsets /\ high - q \in win => seq - q \in SlideWindow(high, win, seq)
    BY <1>1, <2>2 DEF SlideWindow
  <2>4. seq - q >= Window \/ seq - q \in SlideWindow(high, win, seq)
    BY <1>1, <2>1, <2>3, WindowAssumption DEF Offsets
  <2> QED BY <1>1, <2>1, <2>4 DEF Admits, TooOld, Seen, SlideHigh
<1>2. CASE ~(seq > high)
  BY <1>2 DEF Admits, TooOld, Seen, SlideHigh, SlideWindow
<1> QED BY <1>1, <1>2

LEMMA SlideTypes ==
    ASSUME NEW high \in Nat, NEW win \in SUBSET Nat, NEW seq \in Nat
    PROVE  SlideHigh(high, seq) \in Nat /\ SlideWindow(high, win, seq) \in SUBSET Nat
<1>1. Offsets \subseteq Nat
  BY WindowAssumption DEF Offsets
<1>2. SlideHigh(high, seq) \in Nat
  BY DEF SlideHigh
<1>3. CASE seq > high
  BY <1>1, <1>2, <1>3 DEF SlideWindow
<1>4. CASE ~(seq > high)
  <2>1. high - seq \in Nat
    BY <1>4
  <2>2. SlideWindow(high, win, seq) = win \cup {high - seq}
    BY <1>4, Zenon DEF SlideWindow
  <2> QED BY <1>2, <2>1, <2>2
<1> QED BY <1>3, <1>4

\* The two nodes are each other's peers.
LEMMA PeerIsOther ==
    ASSUME NEW n \in Node
    PROVE  /\ n \in Nat \ {0} /\ Peer(n) \in Node /\ Peer(n) # n /\ Node = {n, Peer(n)}
           /\ Peer(Peer(n)) = n
<1>0. ASSUME NEW k \in Node PROVE Peer(k) \in Node /\ Peer(k) # k /\ Node = {k, Peer(k)}
  <2>1. IsFiniteSet(Node \ {k}) /\ Cardinality(Node \ {k}) = 1
    BY SessionAssumption, FS_RemoveElement
  <2>2. PICK p : Node \ {k} = {p}
    BY <2>1, FS_Singleton
  <2>3. Peer(k) = p
    BY <2>2 DEF Peer
  <2> QED BY <2>2, <2>3
<1>1. Peer(n) \in Node /\ Peer(n) # n /\ Node = {n, Peer(n)}
  BY <1>0
<1>2. Peer(Peer(n)) \in Node /\ Peer(Peer(n)) # Peer(n)
  BY <1>0, <1>1
<1> QED BY <1>1, <1>2, SessionAssumption

\* One more copy in the bag of decrypted packets.
LEMMA BagAdds ==
    ASSUME NEW m
    PROVE  /\ BagToSet(delivered (+) SetToBag({m})) = BagToSet(delivered) \cup {m}
           /\ m \notin BagToSet(delivered) => (delivered (+) SetToBag({m}))[m] = 1
           /\ \A d \in BagToSet(delivered) : d # m /\ delivered[d] = 1 =>
                 (delivered (+) SetToBag({m}))[d] = 1
BY DEF (+), SetToBag, BagToSet


-----------------------------------------------------------------------------
(* The invariant. *)

\* The X25519 keys that n has made so far.
OwnKeys(n) == {<<n, i>> : i \in 1 .. made[n].x}

\* A session holds a key of its own, and has an ML-KEM secret as soon as it
\* knows the other side's key.
SessionKeyed(n) ==
    sess[n] # Absent => sess[n].lx \in OwnKeys(n) /\ (sess[n].rx # NoKey => sess[n].pq # Absent)

\* Messages carry a key of their sender; data without an ML-KEM secret is under
\* the placeholder key.
MessageKeyed(m) ==
    /\ m.x \in OwnKeys(m.from)
    /\ m.type = "data" => (m.key[2] = Absent => NoKey \in m.key[1])

\* What has been decrypted, once, was encrypted to a key that the receiver made,
\* and the window of the session that still has this key does not admit it.
DeliveredOnce(m) ==
    LET n == Peer(m.from)
    IN  /\ m \in net /\ m.type = "data"
        /\ delivered[m] = 1
        /\ m.key[2] # Absent
        /\ \E k \in OwnKeys(n) : m.key[1] = {k, m.x}
        /\ sess[n] # Absent /\ m.key[1] = {sess[n].lx, m.x} =>
              ~Admits(sess[n].high, sess[n].win, m.seq)

SessionInv ==
    /\ SessionType
    /\ \A n \in Node : SessionKeyed(n)
    /\ \A m \in net : MessageKeyed(m)
    /\ \A m \in BagToSet(delivered) : DeliveredOnce(m)

\* Keys of the two nodes are different, and none is the placeholder.
LEMMA KeysApart ==
    ASSUME SessionType, NEW n \in Node, NEW k \in OwnKeys(n), NEW y \in OwnKeys(Peer(n))
    PROVE  k # y /\ k # NoKey /\ y # NoKey /\ k \in Keys
<1>1. PICK i \in 1 .. made[n].x : k = <<n, i>>
  BY DEF OwnKeys
<1>2. PICK j \in 1 .. made[Peer(n)].x : y = <<Peer(n), j>>
  BY DEF OwnKeys
<1>3. /\ n \in Nat \ {0} /\ Peer(n) \in Nat \ {0} /\ Peer(n) # n /\ i \in Nat
  BY PeerIsOther DEF SessionType, MadeRec
<1> QED BY <1>1, <1>2, <1>3 DEF NoKey, Keys

LEMMA InitSessionInv == Init => SessionInv
<1> SUFFICES ASSUME Init PROVE SessionInv
  OBVIOUS
<1>1. SessionType
  BY DEF Init, SessionType, MadeRec
<1>2. BagToSet(delivered) = {}
  BY DEF Init, BagToSet, EmptyBag, SetToBag
<1> QED BY <1>1, <1>2 DEF Init, SessionInv, SessionKeyed

\* A step that hands up no packet keeps the invariant, if the session it leaves
\* has its window and key as before, or a new key.
LEMMA QuietStep ==
    ASSUME SessionInv, SessionType', UNCHANGED delivered,
           NEW n \in Node, NEW s, sess' = [sess EXCEPT ![n] = s],
           \A k \in Node : made'[k].x >= made[k].x,
           \/ s = Absent
           \/ /\ sess[n] # Absent
              /\ s.lx = sess[n].lx /\ s.high = sess[n].high /\ s.win = sess[n].win
           \/ s.lx = <<n, made[n].x + 1>> /\ made'[n].x = made[n].x + 1,
           s # Absent => (s.rx # NoKey => s.pq # Absent),
           \A m \in net : m.type = "data" => m \in net',
           \A m \in net' \ net : MessageKeyed(m)'
    PROVE  SessionInv'
<1>1. \A k \in Node : made[k].x \in Nat /\ made'[k].x \in Nat
  BY DEF SessionInv, SessionType, MadeRec
<1>2. \A k \in Node : OwnKeys(k) \subseteq OwnKeys(k)'
  BY <1>1 DEF OwnKeys
<1>3. sess'[n] = s /\ \A k \in Node \ {n} : sess'[k] = sess[k]
  BY DEF SessionInv, SessionType
<1>4. \A k \in Node : SessionKeyed(k)'
  <2>1. CASE s.lx = <<n, made[n].x + 1>> /\ made'[n].x = made[n].x + 1
    <3>1. s.lx \in OwnKeys(n)'
      BY <1>1, <2>1 DEF OwnKeys
    <3> QED BY <1>2, <1>3, <3>1 DEF SessionInv, SessionKeyed
  <2> QED BY <1>2, <1>3, <2>1 DEF SessionInv, SessionKeyed
<1>5. \A m \in net' : MessageKeyed(m)'
  <2> SUFFICES ASSUME NEW m \in net, m \in net' PROVE MessageKeyed(m)'
    OBVIOUS
  <2>1. m.from \in Node
    BY DEF SessionInv, SessionType, InitMsg, AckMsg, DataMsg
  <2> QED BY <1>2, <2>1 DEF SessionInv, MessageKeyed
<1>6. ASSUME NEW m \in BagToSet(delivered) PROVE DeliveredOnce(m)'
  <2> DEFINE r == Peer(m.from)
  <2>0. /\ DeliveredOnce(m) /\ m \in net /\ m.type = "data" /\ m \in net'
    BY <1>6 DEF SessionInv, DeliveredOnce
  <2>1. m.from \in Node /\ r \in Node /\ Peer(r) = m.from
    BY <2>0, PeerIsOther DEF SessionInv, SessionType, InitMsg, AckMsg, DataMsg
  <2>2. PICK k \in OwnKeys(r) : m.key[1] = {k, m.x}
    BY <2>0 DEF DeliveredOnce
  <2>3. m.x \in OwnKeys(Peer(r))
    BY <2>0, <2>1 DEF SessionInv, MessageKeyed
  <2>4. k # m.x
    BY <2>1, <2>2, <2>3, KeysApart DEF SessionInv
  <2>5. ASSUME sess'[r] # Absent, m.key[1] = {sess'[r].lx, m.x}
        PROVE  ~Admits(sess'[r].high, sess'[r].win, m.seq)
    <3>1. sess'[r].lx = k
      BY <2>2, <2>4, <2>5
    <3>2. ~(r = n /\ s.lx = <<n, made[n].x + 1>>)
      BY <1>1, <1>3, <2>1, <2>2, <3>1 DEF OwnKeys
    <3>3. /\ sess[r] # Absent /\ sess'[r].lx = sess[r].lx
          /\ sess'[r].high = sess[r].high /\ sess'[r].win = sess[r].win
      BY <1>3, <2>1, <2>5, <3>2
    <3> QED BY <2>0, <2>5, <3>3 DEF DeliveredOnce
  <2>6. k \in OwnKeys(r)'
    BY <1>2, <2>1, <2>2
  <2> QED BY <2>0, <2>2, <2>5, <2>6 DEF DeliveredOnce
<1> QED BY <1>4, <1>5, <1>6 DEF SessionInv


-----------------------------------------------------------------------------
(* The steps. *)

\* New counters for n, which has made at most one more key.
LEMMA MadeTypes ==
    ASSUME SessionType, NEW n \in Node, NEW f \in MadeRec, made' = [made EXCEPT ![n] = f],
           f.x \in {made[n].x, made[n].x + 1}
    PROVE  /\ made' \in [Node -> MadeRec] /\ made'[n] = f
           /\ \A k \in Node : made'[k].x >= made[k].x
           /\ \A k \in Node : OwnKeys(k) \subseteq OwnKeys(k)'
           /\ f.x = made[n].x + 1 => <<n, made[n].x + 1>> \in OwnKeys(n)'
<1>1. \A k \in Node : made[k].x \in Nat
  BY DEF SessionType, MadeRec
<1>2. /\ made' \in [Node -> MadeRec] /\ made'[n] = f
      /\ \A k \in Node : made'[k].x \in Nat /\ made'[k].x >= made[k].x
  BY <1>1 DEF SessionType, MadeRec
<1>3. \A k \in Node : OwnKeys(k) \subseteq OwnKeys(k)'
  BY <1>1, <1>2 DEF OwnKeys
<1>4. f.x = made[n].x + 1 => <<n, made[n].x + 1>> \in OwnKeys(n)'
  BY <1>1, <1>2 DEF OwnKeys
<1> QED BY <1>2, <1>3, <1>4

\* The session that initiate makes, or handle_init without one.
LEMMA NewSessionRec ==
    ASSUME SessionType, NEW n \in Node, NEW x \in Keys
    PROVE  /\ NewSession(n, x) \in SessionInfo
           /\ NewSession(n, x).lx = <<n, made[n].x + 1>> /\ NewSession(n, x).rx = x
           /\ NewSession(n, x).pq = Absent /\ ~NewSession(n, x).established
           /\ NewSession(n, x).retx = 0 /\ NewSession(n, x).fallback = Absent
<1>1. <<n, made[n].x + 1>> \in Keys
  BY PeerIsOther DEF Keys, SessionType, MadeRec
<1> QED BY <1>1 DEF NewSession, SessionInfo

LEMMA SessionInitMsg ==
    ASSUME SessionType, NEW n \in Node, NEW s \in SessionInfo
    PROVE  /\ SessionInit(n, s) \in InitMsg /\ SessionInit(n, s).from = n
           /\ SessionInit(n, s).x = s.lx /\ SessionInit(n, s).type = "init"
           /\ SessionInit(n, s).ek = <<n, kem[n].dk>>
<1>1. <<n, kem[n].dk>> \in Keys
  BY PeerIsOther DEF SessionType, Keys
<1> QED BY <1>1 DEF SessionInit, SessionInfo, InitMsg

LEMMA InitiateInv == ASSUME SessionInv, NEW n \in Node, Initiate(n) PROVE SessionInv'
<1> DEFINE s == NewSession(n, NoKey)
           m == SessionInit(n, s)
           f == [made[n] EXCEPT !.x = @ + 1]
<1>0. SessionType
  BY DEF SessionInv
<1>1. /\ sess' = [sess EXCEPT ![n] = s] /\ net' = net \cup {m}
      /\ UNCHANGED <<kem, jobs, delivered, faults>>
  BY DEF Initiate
<1>2. made' = [made EXCEPT ![n] = f]
  BY Zenon DEF Initiate
<1>3. NoKey \in Keys
  BY DEF NoKey, Keys
<1>4. s \in SessionInfo /\ s.lx = <<n, made[n].x + 1>> /\ s.rx = NoKey
  BY <1>0, <1>3, NewSessionRec
<1> HIDE DEF s
<1>5. m \in InitMsg /\ m.from = n /\ m.x = s.lx /\ m.type = "init"
  BY <1>0, <1>4, SessionInitMsg
<1> HIDE DEF m
<1>6. made[n] \in MadeRec /\ made[n].x + 1 \in Nat
  BY <1>0 DEF SessionType, MadeRec
<1>7. f \in MadeRec
  BY <1>6, Zenon DEF MadeRec
<1>8. f.x = made[n].x + 1
  BY <1>6, Zenon DEF MadeRec
<1> HIDE DEF f
<1>9. /\ made' \in [Node -> MadeRec] /\ made'[n].x = made[n].x + 1
      /\ \A k \in Node : made'[k].x >= made[k].x
      /\ <<n, made[n].x + 1>> \in OwnKeys(n)'
  BY <1>0, <1>2, <1>7, <1>8, MadeTypes
<1>10. SessionType'
  BY <1>0, <1>1, <1>4, <1>5, <1>9 DEF SessionType
<1>11. ASSUME NEW d, d = m PROVE MessageKeyed(d)'
  BY <1>4, <1>5, <1>9, <1>11 DEF MessageKeyed
<1> QED BY <1>1, <1>4, <1>9, <1>10, <1>11, QuietStep

LEMMA RetransmitInv == ASSUME SessionInv, NEW n \in Node, Retransmit(n) PROVE SessionInv'
<1> DEFINE s == [sess[n] EXCEPT !.retx = @ + 1]
           m == SessionInit(n, s)
<1>0. SessionType
  BY DEF SessionInv
<1>1. /\ sess' = [sess EXCEPT ![n] = s] /\ net' = net \cup {m}
      /\ UNCHANGED <<kem, jobs, made, delivered, faults>> /\ sess[n] # Absent
  BY Zenon DEF Retransmit
<1>2. sess[n] \in SessionInfo /\ sess[n].retx + 1 \in Nat
  BY <1>0, <1>1 DEF SessionType, SessionInfo
<1>3. s \in SessionInfo
  BY <1>2, Zenon DEF SessionInfo
<1>4. /\ s.lx = sess[n].lx /\ s.high = sess[n].high /\ s.win = sess[n].win
      /\ s.rx = sess[n].rx /\ s.pq = sess[n].pq
  BY <1>2, Zenon DEF SessionInfo
<1> HIDE DEF s
<1>5. m \in InitMsg /\ m.from = n /\ m.x = s.lx /\ m.type = "init"
  BY <1>0, <1>3, SessionInitMsg
<1> HIDE DEF m
<1>6. SessionType'
  BY <1>0, <1>1, <1>3, <1>5 DEF SessionType
<1>7. SessionKeyed(n) /\ OwnKeys(n)' = OwnKeys(n) /\ \A k \in Node : made'[k].x >= made[k].x
  BY <1>0, <1>1 DEF SessionInv, SessionType, MadeRec, OwnKeys
<1>8. ASSUME NEW d, d = m PROVE MessageKeyed(d)'
  BY <1>1, <1>4, <1>5, <1>7, <1>8 DEF MessageKeyed, SessionKeyed
<1>9. s # Absent => (s.rx # NoKey => s.pq # Absent)
  BY <1>1, <1>4, <1>7 DEF SessionKeyed
<1> QED BY <1>1, <1>4, <1>6, <1>7, <1>8, <1>9, QuietStep


\* What kind of message m is, from its type field.
LEMMA MessageTypes ==
    ASSUME SessionType, NEW m \in net
    PROVE  /\ m.from \in Node /\ m.x \in Keys
           /\ m.type = "init" => m \in InitMsg /\ m.ek \in Keys
           /\ m.type = "ack" => m \in AckMsg /\ m.ct \in [ek : Keys, ss : Keys]
           /\ m.type = "data" => /\ m \in DataMsg /\ m.seq \in Nat
                                 /\ m.key \in (SUBSET Keys) \X (Secret \cup {Absent})
<1>1. m \in InitMsg \/ m \in AckMsg \/ m \in DataMsg
  BY DEF SessionType
<1>2. CASE m \in InitMsg
  BY <1>2 DEF InitMsg
<1>3. CASE m \in AckMsg
  BY <1>3 DEF AckMsg
<1>4. CASE m \in DataMsg
  BY <1>4 DEF DataMsg
<1> QED BY <1>1, <1>2, <1>3, <1>4

\* The session after an Init or Ack with key x, its secrets aside.
Kept(s, x) == [s EXCEPT !.rx = x, !.established = TRUE]

LEMMA KeptRec ==
    ASSUME NEW s \in SessionInfo, NEW x \in Keys
    PROVE  LET k == Kept(s, x)
           IN  /\ k \in SessionInfo /\ k.rx = x /\ k.established = TRUE
               /\ k.lx = s.lx /\ k.high = s.high /\ k.win = s.win /\ k.retx = s.retx
               /\ k.seq = s.seq /\ k.pq = s.pq /\ k.fallback = s.fallback
<1> DEFINE k == [s EXCEPT !.rx = x, !.established = TRUE]
<1>1. k \in SessionInfo
  BY Zenon DEF SessionInfo
<1>2. /\ k.rx = x /\ k.established = TRUE
      /\ k.lx = s.lx /\ k.high = s.high /\ k.win = s.win /\ k.retx = s.retx
      /\ k.seq = s.seq /\ k.pq = s.pq /\ k.fallback = s.fallback
  BY Zenon DEF SessionInfo
<1>3. k = Kept(s, x)
  BY Zenon DEF Kept
<1> HIDE DEF k
<1> QED BY <1>1, <1>2, <1>3

\* The session once it has adopted a secret.
Adopted(s, pq, fb) == [s EXCEPT !.pq = pq, !.fallback = fb]

LEMMA AdoptedRec ==
    ASSUME NEW s \in SessionInfo, NEW pq \in Secret \cup {Absent}, NEW fb \in Secret \cup {Absent}
    PROVE  LET k == Adopted(s, pq, fb)
           IN  /\ k \in SessionInfo /\ k.pq = pq /\ k.fallback = fb
               /\ k.lx = s.lx /\ k.high = s.high /\ k.win = s.win /\ k.retx = s.retx
               /\ k.seq = s.seq /\ k.rx = s.rx /\ k.established = s.established
<1> DEFINE k == [s EXCEPT !.pq = pq, !.fallback = fb]
<1>1. k \in SessionInfo
  BY Zenon DEF SessionInfo
<1>2. /\ k.pq = pq /\ k.fallback = fb
      /\ k.lx = s.lx /\ k.high = s.high /\ k.win = s.win /\ k.retx = s.retx
      /\ k.seq = s.seq /\ k.rx = s.rx /\ k.established = s.established
  BY Zenon DEF SessionInfo
<1>3. k = Adopted(s, pq, fb)
  BY Zenon DEF Adopted
<1> HIDE DEF k
<1> QED BY <1>1, <1>2, <1>3

\* What handle_init leaves behind, field by field.
InitEffect(n, m, s, a, f) ==
    /\ s \in SessionInfo /\ a \in AckMsg /\ f \in MadeRec
    /\ sess' = [sess EXCEPT ![n] = s]
    /\ net' = (net \ {m}) \cup {a}
    /\ made' = [made EXCEPT ![n] = f]
    /\ s.rx = m.x /\ s.established = TRUE
    /\ sess[n] = Absent => /\ s.lx = <<n, made[n].x + 1>> /\ s.retx = 0
                           /\ f.x = made[n].x + 1
    /\ sess[n] # Absent => /\ s.lx = sess[n].lx /\ s.retx = sess[n].retx
                           /\ s.high = sess[n].high /\ s.win = sess[n].win
                           /\ f.x = made[n].x
    /\ \/ /\ sess[n] = Absent \/ sess[n].pq = Absent \/ m.from < n
          /\ s.pq = <<n, made[n].encap + 1>> /\ s.fallback = Absent
       \/ /\ sess[n] # Absent /\ sess[n].pq # Absent /\ ~(m.from < n)
          /\ s.pq = sess[n].pq /\ s.fallback = sess[n].fallback
    /\ f.encap = made[n].encap + 1 /\ f.rotated = made[n].rotated
    /\ a.type = "ack" /\ a.from = n /\ a.x = s.lx
    /\ a.ct.ek = m.ek /\ a.ct.ss = <<n, made[n].encap + 1>>
    /\ UNCHANGED <<kem, jobs, delivered, faults>>

LEMMA HandleInitEffect ==
    ASSUME SessionType, NEW n \in Node, NEW m \in net, m.type = "init", handle_init(n, m)
    PROVE  \E s, a, f : InitEffect(n, m, s, a, f)
<1> DEFINE ct == Encapsulate(n, m.ek)
           base == IF sess[n] = Absent THEN NewSession(n, m.x) ELSE sess[n]
           kept == Kept(base, m.x)
           adopted == Adopted(kept, ct.ss, Absent)
           s == IF Adopts(base, m.from, n) THEN adopted ELSE kept
           a == SessionAck(n, s, ct)
           f == [made[n] EXCEPT !.encap = @ + 1, !.x = IF sess[n] = Absent THEN @ + 1 ELSE @]
<1>1. /\ sess' = [sess EXCEPT ![n] = s]
      /\ net' = (net \ {m}) \cup {a}
      /\ UNCHANGED <<kem, jobs, delivered, faults>>
  BY Zenon DEF handle_init, Kept, Adopted
<1>2. made' = [made EXCEPT ![n] = f]
  BY Zenon DEF handle_init
<1>3. m.x \in Keys /\ m.ek \in Keys
  BY MessageTypes
<1>4. /\ base \in SessionInfo
      /\ sess[n] = Absent => /\ base.lx = <<n, made[n].x + 1>> /\ base.retx = 0
                             /\ base.pq = Absent
      /\ sess[n] # Absent => base = sess[n]
  BY <1>3, NewSessionRec DEF SessionType
<1> HIDE DEF base
<1>5. /\ made[n] \in MadeRec /\ made[n].x \in Nat /\ made[n].x + 1 \in Nat /\ made[n].encap + 1 \in Nat
      /\ n \in Nat
  BY PeerIsOther DEF SessionType, MadeRec
<1>6. /\ ct.ek = m.ek /\ ct.ss = <<n, made[n].encap + 1>> /\ ct \in [ek : Keys, ss : Keys]
      /\ ct.ss \in Secret
  BY <1>3, <1>5 DEF Encapsulate, Keys, Secret
<1> HIDE DEF ct
<1>7. /\ kept \in SessionInfo /\ kept.rx = m.x /\ kept.established = TRUE
      /\ kept.lx = base.lx /\ kept.high = base.high /\ kept.win = base.win /\ kept.retx = base.retx
      /\ kept.pq = base.pq /\ kept.fallback = base.fallback
  BY <1>3, <1>4, KeptRec
<1> HIDE DEF kept
<1>8. /\ adopted \in SessionInfo /\ adopted.pq = ct.ss /\ adopted.fallback = Absent
      /\ adopted.lx = kept.lx /\ adopted.high = kept.high /\ adopted.win = kept.win
      /\ adopted.retx = kept.retx
      /\ adopted.rx = kept.rx /\ adopted.established = kept.established
  BY <1>6, <1>7, AdoptedRec
<1> HIDE DEF adopted
<1>9. /\ s \in SessionInfo /\ s.rx = m.x /\ s.established = TRUE
      /\ s.lx = base.lx /\ s.high = base.high /\ s.win = base.win /\ s.retx = base.retx
      /\ \/ /\ base.pq = Absent \/ m.from < n
            /\ s.pq = ct.ss /\ s.fallback = Absent
         \/ /\ base.pq # Absent /\ ~(m.from < n)
            /\ s.pq = base.pq /\ s.fallback = base.fallback
  BY <1>7, <1>8 DEF Adopts
<1> HIDE DEF s
<1>10. /\ a \in AckMsg /\ a.type = "ack" /\ a.from = n /\ a.x = s.lx /\ a.ct = ct
  BY <1>6, <1>9 DEF SessionAck, AckMsg, SessionInfo
<1> HIDE DEF a
<1>11. f \in MadeRec
  BY <1>5, Zenon DEF MadeRec
<1>12. /\ f.encap = made[n].encap + 1 /\ f.rotated = made[n].rotated
       /\ f.x = IF sess[n] = Absent THEN made[n].x + 1 ELSE made[n].x
  BY <1>5, Zenon DEF MadeRec
<1> HIDE DEF f
<1>13. InitEffect(n, m, s, a, f)
  BY <1>1, <1>2, <1>4, <1>6, <1>9, <1>10, <1>11, <1>12 DEF InitEffect
<1> QED BY <1>13


LEMMA HandleInitInv ==
    ASSUME SessionInv, NEW n \in Node, NEW m \in net, m.type = "init", handle_init(n, m)
    PROVE  SessionInv'
<1>0. SessionType
  BY DEF SessionInv
<1>1. PICK s, a, f : InitEffect(n, m, s, a, f)
  BY <1>0, HandleInitEffect
<1>2. /\ made' \in [Node -> MadeRec] /\ made'[n] = f
      /\ \A k \in Node : made'[k].x >= made[k].x
      /\ \A k \in Node : OwnKeys(k) \subseteq OwnKeys(k)'
      /\ f.x = made[n].x + 1 => <<n, made[n].x + 1>> \in OwnKeys(n)'
  BY <1>0, <1>1, MadeTypes DEF InitEffect
<1>3. SessionType'
  BY <1>0, <1>1, <1>2 DEF SessionType, InitEffect
<1>4. MessageKeyed(a)'
  BY <1>1, <1>2 DEF InitEffect, SessionInv, SessionKeyed, MessageKeyed
<1>5. s.pq # Absent
  <2>1. <<n, made[n].encap + 1>> \in Nat \X Nat
    BY <1>0, PeerIsOther DEF SessionType, MadeRec
  <2> QED BY <1>1, <2>1, SessionAssumption DEF InitEffect, Secret
<1>6. \A d \in net' \ net : d = a
  BY <1>1 DEF InitEffect
<1>7. \A d \in net : d.type = "data" => d \in net'
  BY <1>1 DEF InitEffect
<1>8. /\ sess' = [sess EXCEPT ![n] = s] /\ UNCHANGED delivered
      /\ \/ /\ sess[n] # Absent
            /\ s.lx = sess[n].lx /\ s.high = sess[n].high /\ s.win = sess[n].win
         \/ s.lx = <<n, made[n].x + 1>> /\ made'[n].x = made[n].x + 1
  BY <1>1, <1>2 DEF InitEffect
<1> QED BY <1>2, <1>3, <1>4, <1>5, <1>6, <1>7, <1>8, QuietStep

\* What handle_ack leaves behind when there is a session, field by field.
AckEffect(n, m, s) ==
    /\ s \in SessionInfo
    /\ sess' = [sess EXCEPT ![n] = s]
    /\ s.rx = m.x /\ s.established = TRUE
    /\ s.lx = sess[n].lx /\ s.high = sess[n].high /\ s.win = sess[n].win /\ s.retx = sess[n].retx
    /\ \/ /\ sess[n].pq = Absent \/ n < m.from
          /\ s.pq = Decapsulate(n, kem[n].dk, m.ct) /\ s.fallback = DecapPrev(n, m.ct)
       \/ /\ sess[n].pq # Absent /\ ~(n < m.from)
          /\ s.pq = sess[n].pq /\ s.fallback = sess[n].fallback

\* Both decapsulation keys yield secrets.
LEMMA DecapsulateType ==
    ASSUME SessionType, NEW n \in Node, NEW ct \in [ek : Keys, ss : Keys]
    PROVE  /\ \A dk \in Nat : Decapsulate(n, dk, ct) \in Secret
           /\ DecapPrev(n, ct) \in Secret \cup {Absent}
<1>1. PICK i \in Nat, j \in Nat : ct.ss = <<i, j>>
  BY DEF Keys
<1>2. \A dk \in Nat : <<ct.ss[1], ct.ss[2], dk>> \in Secret /\ ct.ss \in Secret
  BY <1>1 DEF Secret
<1>3. \A dk \in Nat : Decapsulate(n, dk, ct) \in Secret
  BY <1>2 DEF Decapsulate
<1> QED BY <1>3 DEF DecapPrev, SessionType

LEMMA HandleAckEffect ==
    ASSUME SessionType, NEW n \in Node, NEW m \in net, m.type = "ack", handle_ack(n, m),
           sess[n] # Absent
    PROVE  \E s : AckEffect(n, m, s)
<1> DEFINE pq == Decapsulate(n, kem[n].dk, m.ct)
           fb == DecapPrev(n, m.ct)
           kept == Kept(sess[n], m.x)
           adopted == Adopted(kept, pq, fb)
           s == IF Adopts(kept, n, m.from) THEN adopted ELSE kept
<1>1. sess' = [sess EXCEPT ![n] = s]
  BY Zenon DEF handle_ack, Kept, Adopted
<1>2. m.x \in Keys /\ m.ct \in [ek : Keys, ss : Keys] /\ sess[n] \in SessionInfo /\ kem[n].dk \in Nat
  BY MessageTypes DEF SessionType
<1>3. pq \in Secret /\ fb \in Secret \cup {Absent}
  BY <1>2, DecapsulateType
<1> HIDE DEF pq, fb
<1>4. /\ kept \in SessionInfo /\ kept.rx = m.x /\ kept.established = TRUE
      /\ kept.lx = sess[n].lx /\ kept.high = sess[n].high /\ kept.win = sess[n].win
      /\ kept.retx = sess[n].retx /\ kept.pq = sess[n].pq /\ kept.fallback = sess[n].fallback
  BY <1>2, KeptRec
<1> HIDE DEF kept
<1>5. /\ adopted \in SessionInfo /\ adopted.pq = pq /\ adopted.fallback = fb
      /\ adopted.lx = kept.lx /\ adopted.high = kept.high /\ adopted.win = kept.win
      /\ adopted.retx = kept.retx
      /\ adopted.rx = kept.rx /\ adopted.established = kept.established
  BY <1>3, <1>4, AdoptedRec
<1> HIDE DEF adopted
<1>6. /\ s \in SessionInfo /\ s.rx = m.x /\ s.established = TRUE
      /\ s.lx = sess[n].lx /\ s.high = sess[n].high /\ s.win = sess[n].win /\ s.retx = sess[n].retx
      /\ \/ /\ sess[n].pq = Absent \/ n < m.from
            /\ s.pq = pq /\ s.fallback = fb
         \/ /\ sess[n].pq # Absent /\ ~(n < m.from)
            /\ s.pq = sess[n].pq /\ s.fallback = sess[n].fallback
  BY <1>4, <1>5 DEF Adopts
<1> HIDE DEF s
<1>7. AckEffect(n, m, s)
  BY <1>1, <1>6 DEF AckEffect, pq, fb
<1> QED BY <1>7

LEMMA HandleAckInv ==
    ASSUME SessionInv, NEW n \in Node, NEW m \in net, m.type = "ack", handle_ack(n, m)
    PROVE  SessionInv'
<1>0. SessionType
  BY DEF SessionInv
<1>1. net' = net \ {m} /\ UNCHANGED <<kem, jobs, made, delivered, faults>>
  BY DEF handle_ack
<1>2. \A k \in Node : made'[k].x >= made[k].x
  BY <1>0, <1>1 DEF SessionType, MadeRec
<1>3. CASE sess[n] = Absent
  <2>1. sess' = [sess EXCEPT ![n] = Absent]
    BY <1>0, <1>3 DEF handle_ack, SessionType
  <2>2. SessionType'
    BY <1>0, <1>1, <2>1 DEF SessionType
  <2> QED BY <1>1, <1>2, <2>1, <2>2, QuietStep
<1>4. CASE sess[n] # Absent
  <2>1. PICK s : AckEffect(n, m, s)
    BY <1>0, <1>4, HandleAckEffect
  <2>2. SessionType'
    BY <1>0, <1>1, <2>1 DEF SessionType, AckEffect
  <2>3. s.pq # Absent
    <3>1. Decapsulate(n, kem[n].dk, m.ct) \in Secret
      BY <1>0, MessageTypes, DecapsulateType DEF SessionType
    <3> QED BY <2>1, <3>1, SessionAssumption DEF AckEffect, Secret
  <2>4. /\ sess' = [sess EXCEPT ![n] = s]
        /\ s.lx = sess[n].lx /\ s.high = sess[n].high /\ s.win = sess[n].win
    BY <2>1 DEF AckEffect
  <2> QED BY <1>1, <1>2, <1>4, <2>2, <2>3, <2>4, QuietStep
<1> QED BY <1>3, <1>4


\* A step that changes neither sessions nor keys, and takes at most handshake
\* messages from the network.
LEMMA OtherStep ==
    ASSUME SessionInv, SessionType', UNCHANGED <<sess, delivered>>,
           \A k \in Node : made'[k].x = made[k].x, net' \subseteq net,
           \A m \in net : m.type = "data" => m \in net'
    PROVE  SessionInv'
<1>1. \A k \in Node : OwnKeys(k)' = OwnKeys(k)
  BY DEF OwnKeys
<1>2. \A k \in Node : SessionKeyed(k)'
  BY <1>1 DEF SessionInv, SessionKeyed
<1>3. ASSUME NEW m \in net' PROVE MessageKeyed(m)'
  BY <1>1, <1>3, MessageTypes DEF SessionInv, MessageKeyed
<1>4. ASSUME NEW m \in BagToSet(delivered)' PROVE DeliveredOnce(m)'
  <2>1. DeliveredOnce(m) /\ m \in net /\ m.type = "data"
    BY <1>4 DEF SessionInv, DeliveredOnce, BagToSet
  <2>2. Peer(m.from) \in Node
    BY <2>1, MessageTypes, PeerIsOther DEF SessionInv
  <2> QED BY <1>1, <2>1, <2>2 DEF DeliveredOnce
<1> QED BY <1>2, <1>3, <1>4 DEF SessionInv

LEMMA WriteInv == ASSUME SessionInv, NEW n \in Node, write_to(n) PROVE SessionInv'
<1> DEFINE f == [made[n] EXCEPT !.data = @ + 1]
<1>0. SessionType
  BY DEF SessionInv
<1>1. made' = [made EXCEPT ![n] = f]
  BY Zenon DEF write_to
<1>2. /\ made[n] \in MadeRec /\ made[n].x \in Nat /\ made[n].data + 1 \in Nat
  BY <1>0 DEF SessionType, MadeRec
<1>3. f \in MadeRec
  BY <1>2, Zenon DEF MadeRec
<1>4. f.x = made[n].x
  BY <1>2, Zenon DEF MadeRec
<1> HIDE DEF f
<1>5. made' \in [Node -> MadeRec] /\ \A k \in Node : made'[k].x = made[k].x
  BY <1>0, <1>1, <1>3, <1>4 DEF SessionType
<1>6. UNCHANGED <<sess, kem, net, delivered, faults>> /\ jobs' \in [Node -> Nat]
  BY <1>0 DEF write_to, SessionType
<1>7. SessionType'
  BY <1>0, <1>5, <1>6 DEF SessionType
<1> QED BY <1>5, <1>6, <1>7, OtherStep

\* The packet that encrypt_and_dispatch sends.
LEMMA EncryptInv == ASSUME SessionInv, NEW n \in Node, encrypt_and_dispatch(n) PROVE SessionInv'
<1>0. SessionType /\ jobs' \in [Node -> Nat] /\ UNCHANGED <<kem, made, delivered, faults>>
  BY DEF SessionInv, SessionType, encrypt_and_dispatch
<1>1. CASE sess[n] = Absent
  <2>1. UNCHANGED <<sess, net>>
    BY <1>1 DEF encrypt_and_dispatch
  <2>2. SessionType'
    BY <1>0, <2>1 DEF SessionType
  <2> QED BY <1>0, <2>1, <2>2, OtherStep
<1>2. CASE sess[n] # Absent
  <2> DEFINE m == [type |-> "data", from |-> n, x |-> sess[n].lx, seq |-> sess[n].seq,
                   key |-> PacketKey({sess[n].lx, sess[n].rx}, sess[n].pq)]
             s == [sess[n] EXCEPT !.seq = @ + 1]
  <2>1. sess' = [sess EXCEPT ![n] = s] /\ net' = net \cup {m}
    BY <1>2, Zenon DEF encrypt_and_dispatch
  <2>2. sess[n] \in SessionInfo /\ sess[n].seq + 1 \in Nat
    BY <1>0, <1>2 DEF SessionType, SessionInfo
  <2>3. s \in SessionInfo
    BY <2>2, Zenon DEF SessionInfo
  <2>4. /\ s.lx = sess[n].lx /\ s.high = sess[n].high /\ s.win = sess[n].win
        /\ s.rx = sess[n].rx /\ s.pq = sess[n].pq
    BY <2>2, Zenon DEF SessionInfo
  <2> HIDE DEF s
  <2>5. /\ m \in DataMsg /\ m.type = "data" /\ m.from = n /\ m.x = sess[n].lx
        /\ m.key[1] = {sess[n].lx, sess[n].rx} /\ m.key[2] = sess[n].pq
    BY <2>2 DEF DataMsg, SessionInfo, PacketKey
  <2> HIDE DEF m
  <2>6. SessionType'
    BY <1>0, <2>1, <2>3, <2>5 DEF SessionType
  <2>7. SessionKeyed(n) /\ OwnKeys(n)' = OwnKeys(n) /\ \A k \in Node : made'[k].x >= made[k].x
    BY <1>0 DEF SessionInv, SessionType, MadeRec, OwnKeys
  <2>8. ASSUME NEW d, d = m PROVE MessageKeyed(d)'
    BY <1>2, <2>5, <2>7, <2>8 DEF MessageKeyed, SessionKeyed
  <2>9. s # Absent => (s.rx # NoKey => s.pq # Absent)
    BY <1>2, <2>4, <2>7 DEF SessionKeyed
  <2> QED BY <1>0, <1>2, <2>1, <2>4, <2>6, <2>7, <2>8, <2>9, QuietStep
<1> QED BY <1>1, <1>2

LEMMA RotateInv == ASSUME SessionInv, NEW n \in Node, rotate_local_key(n) PROVE SessionInv'
<1> DEFINE s == [sess[n] EXCEPT !.lx = <<n, made[n].x + 1>>]
           f == [made[n] EXCEPT !.x = @ + 1, !.rotated = @ + 1]
<1>0. SessionType /\ sess[n] # Absent /\ UNCHANGED <<kem, jobs, net, delivered, faults>>
  BY DEF SessionInv, rotate_local_key
<1>1. sess' = [sess EXCEPT ![n] = s]
  BY Zenon DEF rotate_local_key
<1>2. made' = [made EXCEPT ![n] = f]
  BY Zenon DEF rotate_local_key
<1>3. /\ sess[n] \in SessionInfo /\ made[n] \in MadeRec /\ made[n].x + 1 \in Nat
      /\ made[n].rotated + 1 \in Nat /\ <<n, made[n].x + 1>> \in Keys
  BY <1>0, PeerIsOther DEF SessionType, SessionInfo, MadeRec, Keys
<1>4. s \in SessionInfo
  BY <1>3, Zenon DEF SessionInfo
<1>5. s.lx = <<n, made[n].x + 1>> /\ s.rx = sess[n].rx /\ s.pq = sess[n].pq
  BY <1>3, Zenon DEF SessionInfo
<1> HIDE DEF s
<1>6. f \in MadeRec
  BY <1>3, Zenon DEF MadeRec
<1>7. f.x = made[n].x + 1
  BY <1>3, Zenon DEF MadeRec
<1> HIDE DEF f
<1>8. made' \in [Node -> MadeRec] /\ made'[n] = f /\ \A k \in Node : made'[k].x >= made[k].x
  BY <1>0, <1>2, <1>6, <1>7, MadeTypes
<1>9. SessionType'
  BY <1>0, <1>1, <1>4, <1>8 DEF SessionType
<1>10. s # Absent => (s.rx # NoKey => s.pq # Absent)
  BY <1>0, <1>5 DEF SessionInv, SessionKeyed
<1> QED BY <1>0, <1>1, <1>5, <1>7, <1>8, <1>9, <1>10, QuietStep


LEMMA KemInv ==
    ASSUME SessionInv, NEW n \in Node, RotateKem(n) \/ DropPrev(n) PROVE SessionInv'
<1>0. SessionType /\ UNCHANGED <<sess, jobs, net, delivered, faults>>
  BY DEF SessionInv, RotateKem, DropPrev
<1>1. CASE RotateKem(n)
  <2> DEFINE f == [made[n] EXCEPT !.kem = @ + 1]
             e == [dk |-> made[n].kem + 1, prev |-> kem[n].dk]
  <2>1. made' = [made EXCEPT ![n] = f]
    BY <1>1, Zenon DEF RotateKem
  <2>2. kem' = [kem EXCEPT ![n] = e]
    BY <1>1 DEF RotateKem
  <2>3. /\ made[n] \in MadeRec /\ made[n].x \in Nat /\ made[n].kem + 1 \in Nat
        /\ e \in [dk : Nat, prev : Nat]
    BY <1>0 DEF SessionType, MadeRec
  <2>4. f \in MadeRec
    BY <2>3, Zenon DEF MadeRec
  <2>5. f.x = made[n].x
    BY <2>3, Zenon DEF MadeRec
  <2> HIDE DEF e, f
  <2>6. made' \in [Node -> MadeRec] /\ \A k \in Node : made'[k].x = made[k].x
    BY <1>0, <2>1, <2>4, <2>5 DEF SessionType
  <2>7. SessionType'
    BY <1>0, <2>2, <2>3, <2>6 DEF SessionType
  <2> QED BY <1>0, <2>6, <2>7, OtherStep
<1>2. CASE DropPrev(n)
  <2> DEFINE e == [kem[n] EXCEPT !.prev = 0]
  <2>1. kem' = [kem EXCEPT ![n] = e] /\ made' = made
    BY <1>2, Zenon DEF DropPrev
  <2>2. kem[n] \in [dk : Nat, prev : Nat] /\ 0 \in Nat
    BY <1>0 DEF SessionType
  <2>3. e \in [dk : Nat, prev : Nat]
    BY <2>2, Zenon
  <2> HIDE DEF e
  <2>4. SessionType'
    BY <1>0, <2>1, <2>3 DEF SessionType
  <2> QED BY <1>0, <2>1, <2>4, OtherStep
<1> QED BY <1>1, <1>2

LEMMA GoneInv == ASSUME SessionInv, NEW n \in Node, Remove(n) \/ Restart(n) PROVE SessionInv'
<1> DEFINE g == [faults EXCEPT !.removed = @ + 1]
<1>0. SessionType /\ sess' = [sess EXCEPT ![n] = Absent] /\ UNCHANGED <<net, delivered>>
  BY DEF SessionInv, Remove, Restart
<1>1. faults' = g
  BY Zenon DEF Remove, Restart
<1>2. faults \in [lost : Nat, removed : Nat] /\ faults.removed + 1 \in Nat
  BY <1>0 DEF SessionType
<1>3. g \in [lost : Nat, removed : Nat]
  BY <1>2, Zenon
<1> HIDE DEF g
<1>4. CASE Remove(n)
  <2>1. UNCHANGED <<kem, jobs, made>>
    BY <1>4 DEF Remove
  <2>2. SessionType' /\ \A k \in Node : made'[k].x >= made[k].x
    BY <1>0, <1>1, <1>3, <2>1 DEF SessionType, MadeRec
  <2> QED BY <1>0, <2>2, QuietStep
<1>5. CASE Restart(n)
  <2> DEFINE f == [made[n] EXCEPT !.kem = @ + 1]
             e == [dk |-> made[n].kem + 1, prev |-> 0]
  <2>1. made' = [made EXCEPT ![n] = f]
    BY <1>5, Zenon DEF Restart
  <2>2. kem' = [kem EXCEPT ![n] = e] /\ jobs' = [jobs EXCEPT ![n] = 0]
    BY <1>5 DEF Restart
  <2>3. /\ made[n] \in MadeRec /\ made[n].x \in Nat /\ made[n].kem + 1 \in Nat
        /\ e \in [dk : Nat, prev : Nat]
    BY <1>0 DEF SessionType, MadeRec
  <2>4. f \in MadeRec
    BY <2>3, Zenon DEF MadeRec
  <2>5. f.x = made[n].x
    BY <2>3, Zenon DEF MadeRec
  <2> HIDE DEF e, f
  <2>6. made' \in [Node -> MadeRec] /\ \A k \in Node : made'[k].x >= made[k].x
    BY <1>0, <2>1, <2>4, <2>5, MadeTypes
  <2>7. SessionType'
    BY <1>0, <1>1, <1>3, <2>2, <2>3, <2>6 DEF SessionType
  <2> QED BY <1>0, <2>6, <2>7, QuietStep
<1> QED BY <1>4, <1>5

LEMMA LoseInv == ASSUME SessionInv, NEW m \in net, Lose(m) PROVE SessionInv'
<1> DEFINE g == [faults EXCEPT !.lost = @ + 1]
<1>0. /\ SessionType /\ m.type # "data" /\ net' = net \ {m}
      /\ UNCHANGED <<sess, kem, jobs, made, delivered>>
  BY DEF SessionInv, Lose
<1>1. faults' = g
  BY Zenon DEF Lose
<1>2. faults \in [lost : Nat, removed : Nat] /\ faults.lost + 1 \in Nat
  BY <1>0 DEF SessionType
<1>3. g \in [lost : Nat, removed : Nat]
  BY <1>2, Zenon
<1> HIDE DEF g
<1>4. SessionType'
  BY <1>0, <1>1, <1>3 DEF SessionType
<1> QED BY <1>0, <1>4, OtherStep

\* The session after a packet, field by field.
LEMMA AcceptRec ==
    ASSUME NEW s \in SessionInfo, NEW m \in DataMsg, NEW pq \in Secret \cup {Absent}
    PROVE  LET k == Accept(s, m, pq)
           IN  /\ k \in SessionInfo /\ k.rx = m.x /\ k.pq = pq /\ k.fallback = Absent
               /\ k.high = SlideHigh(s.high, m.seq)
               /\ k.win = SlideWindow(s.high, s.win, m.seq)
               /\ k.lx = s.lx /\ k.retx = s.retx /\ k.established = s.established
<1> DEFINE hi == SlideHigh(s.high, m.seq)
           wi == SlideWindow(s.high, s.win, m.seq)
           k == [s EXCEPT !.rx = m.x, !.pq = pq, !.fallback = Absent, !.high = hi, !.win = wi]
<1>1. k = Accept(s, m, pq)
  BY Zenon DEF Accept
<1>2. hi \in Nat /\ wi \in SUBSET Nat /\ m.x \in Keys
  BY SlideTypes DEF SessionInfo, DataMsg
<1> HIDE DEF hi, wi
<1>3. k \in SessionInfo
  BY <1>2, Zenon DEF SessionInfo
<1>4. /\ k.rx = m.x /\ k.pq = pq /\ k.fallback = Absent /\ k.high = hi /\ k.win = wi
      /\ k.lx = s.lx /\ k.retx = s.retx /\ k.established = s.established
  BY Zenon DEF SessionInfo
<1> HIDE DEF k
<1> QED BY <1>1, <1>3, <1>4 DEF hi, wi


\* What decrypt leaves behind when it hands a packet up: it opened under the
\* session's own key and one of its candidate secrets.
DecryptEffect(n, m, s) ==
    /\ sess[n] # Absent /\ Admits(sess[n].high, sess[n].win, m.seq)
    /\ s \in SessionInfo
    /\ sess' = [sess EXCEPT ![n] = s]
    /\ delivered' = delivered (+) SetToBag({m})
    /\ m.key[1] = {sess[n].lx, m.x} /\ m.key[2] = s.pq
    /\ s.pq = sess[n].pq \/ (s.pq = sess[n].fallback /\ s.pq # Absent)
    /\ s.rx = m.x /\ s.fallback = Absent
    /\ s.high = SlideHigh(sess[n].high, m.seq)
    /\ s.win = SlideWindow(sess[n].high, sess[n].win, m.seq)
    /\ s.lx = sess[n].lx /\ s.retx = sess[n].retx /\ s.established = sess[n].established

LEMMA HandleDataEffect ==
    ASSUME SessionType, NEW n \in Node, NEW m \in net, m.type = "data", decrypt(n, m)
    PROVE  \/ UNCHANGED <<sess, delivered>>
           \/ \E s : DecryptEffect(n, m, s)
<1> DEFINE O == Opens(sess[n], m)
           pq == CHOOSE q \in O : TRUE
           s == Accept(sess[n], m, pq)
<1>1. SUFFICES ASSUME sess[n] # Absent, Admits(sess[n].high, sess[n].win, m.seq), O # {}
               PROVE  \E t : DecryptEffect(n, m, t)
  BY DEF decrypt
<1>2. sess' = [sess EXCEPT ![n] = s] /\ delivered' = delivered (+) SetToBag({m})
  BY <1>1 DEF decrypt
<1>3. pq \in O
  BY <1>1
<1> HIDE DEF pq
<1>4. /\ sess[n] \in SessionInfo /\ sess[n].pq \in Secret \cup {Absent}
      /\ sess[n].fallback \in Secret \cup {Absent} /\ m \in DataMsg
  BY <1>1, MessageTypes DEF SessionType, SessionInfo
<1>5. /\ pq \in Secret \cup {Absent}
      /\ m.key[1] = {sess[n].lx, m.x} /\ m.key[2] = pq
      /\ pq = sess[n].pq \/ (pq = sess[n].fallback /\ pq # Absent)
  <2>1. m.key = <<{sess[n].lx, m.x}, pq>>
    BY <1>3 DEF Opens, PacketKey
  <2> DEFINE K == {sess[n].lx, m.x}
  <2>2. m.key = <<K, pq>>
    BY <2>1
  <2> HIDE DEF K
  <2>3. m.key[1] = K /\ m.key[2] = pq
    BY <2>2
  <2>4. pq = sess[n].pq \/ (pq = sess[n].fallback /\ pq # Absent)
    BY <1>3, Zenon DEF Opens
  <2>5. pq \in Secret \cup {Absent}
    BY <1>4, <2>4
  <2> QED BY <2>3, <2>4, <2>5, Zenon DEF K
<1>6. /\ s \in SessionInfo /\ s.rx = m.x /\ s.pq = pq /\ s.fallback = Absent
      /\ s.high = SlideHigh(sess[n].high, m.seq)
      /\ s.win = SlideWindow(sess[n].high, sess[n].win, m.seq)
      /\ s.lx = sess[n].lx /\ s.retx = sess[n].retx /\ s.established = sess[n].established
  BY <1>4, <1>5, AcceptRec
<1> HIDE DEF s
<1>7. DecryptEffect(n, m, s)
  BY <1>1, <1>2, <1>5, <1>6 DEF DecryptEffect
<1> QED BY <1>7

\* A packet that is handed up was not handed up before, and its number and all
\* the numbers closed before stay closed.
LEMMA DecryptInv ==
    ASSUME SessionInv, NEW n \in Node, NEW m \in net, m.type = "data", decrypt(n, m)
    PROVE  SessionInv'
<1>0. SessionType /\ m.from = Peer(n) /\ UNCHANGED <<kem, jobs, made, net, faults>>
  BY DEF SessionInv, decrypt
<1>1. CASE UNCHANGED <<sess, delivered>>
  <2>1. SessionType'
    BY <1>0, <1>1 DEF SessionType
  <2> QED BY <1>0, <1>1, <2>1, OtherStep
<1>2. ASSUME NEW s, DecryptEffect(n, m, s) PROVE SessionInv'
  <2> USE <1>2 DEF DecryptEffect
  <2>1. SessionType'
    BY <1>0 DEF SessionType
  <2>2. \A k \in Node : OwnKeys(k)' = OwnKeys(k)
    BY <1>0 DEF OwnKeys
  <2>3. /\ m \in DataMsg /\ m.seq \in Nat /\ m.x \in OwnKeys(Peer(n)) /\ sess[n].lx \in OwnKeys(n)
        /\ sess[n].high \in Nat /\ sess[n].win \in SUBSET Nat /\ Peer(m.from) = n
        /\ m.key[2] = Absent => NoKey \in m.key[1]
    BY <1>0, MessageTypes, PeerIsOther
       DEF SessionInv, SessionType, SessionInfo, SessionKeyed, MessageKeyed
  <2>4. sess[n].lx # m.x /\ sess[n].lx # NoKey /\ m.x # NoKey
    BY <1>0, <2>3, KeysApart
  <2>5. m.key[2] # Absent /\ s.pq # Absent
    BY <2>3, <2>4
  <2>6. sess'[n] = s /\ \A k \in Node \ {n} : sess'[k] = sess[k]
    BY <1>0 DEF SessionType
  <2>7. \A k \in Node : SessionKeyed(k)'
    BY <2>2, <2>3, <2>5, <2>6 DEF SessionInv, SessionKeyed
  <2>8. ASSUME NEW d \in net' PROVE MessageKeyed(d)'
    BY <1>0, <2>2, <2>8, MessageTypes, ZenonT(30) DEF SessionInv, MessageKeyed
  <2>9. m \notin BagToSet(delivered)
    BY <2>3 DEF SessionInv, DeliveredOnce
  <2>10. /\ BagToSet(delivered') = BagToSet(delivered) \cup {m}
         /\ delivered'[m] = 1
         /\ \A d \in BagToSet(delivered) : d # m /\ delivered[d] = 1 => delivered'[d] = 1
    BY <2>9, BagAdds
  <2>11. DeliveredOnce(m)'
    <3>1. ~Admits(s.high, s.win, m.seq)
      BY <2>3, SlideCloses
    <3> QED BY <1>0, <2>2, <2>3, <2>5, <2>6, <2>10, <3>1 DEF DeliveredOnce
  <2>12. ASSUME NEW d \in BagToSet(delivered) PROVE DeliveredOnce(d)'
    <3>1. DeliveredOnce(d) /\ d \in net /\ d.type = "data" /\ d.seq \in Nat /\ Peer(d.from) \in Node
      BY <1>0, <2>12, MessageTypes, PeerIsOther DEF SessionInv, DeliveredOnce
    <3>2. delivered'[d] = 1
      BY <2>9, <2>10, <2>12, <3>1 DEF DeliveredOnce
    <3>3. ASSUME Peer(d.from) = n, d.key[1] = {s.lx, d.x} PROVE ~Admits(s.high, s.win, d.seq)
      <4>1. ~Admits(sess[n].high, sess[n].win, d.seq)
        BY <3>1, <3>3 DEF DeliveredOnce
      <4> QED BY <2>3, <3>1, <4>1, SlideNeverReopens
    <3> QED BY <1>0, <2>2, <2>6, <3>1, <3>2, <3>3 DEF DeliveredOnce
  <2>13. BagToSet(delivered)' = BagToSet(delivered) \cup {m}
    BY <2>10 DEF BagToSet
  <2> QED BY <2>1, <2>7, <2>8, <2>11, <2>12, <2>13 DEF SessionInv
<1> QED BY <1>0, <1>1, <1>2, HandleDataEffect

LEMMA NextSessionInv == SessionInv /\ [Next]_vars => SessionInv'
<1> SUFFICES ASSUME SessionInv, [Next]_vars PROVE SessionInv'
  OBVIOUS
<1>1. ASSUME NEW n \in Node, NEW m \in net, Handle(n, m) PROVE SessionInv'
  BY <1>1, HandleInitInv, HandleAckInv, DecryptInv DEF Handle
<1>2. CASE UNCHANGED vars
  <2>1. SessionType' /\ UNCHANGED <<sess, delivered, made, net>>
    BY <1>2 DEF vars, SessionInv, SessionType
  <2> QED BY <2>1, OtherStep
<1> QED BY <1>1, <1>2, InitiateInv, RetransmitInv, WriteInv, EncryptInv, RotateInv, KemInv,
           GoneInv, LoseInv DEF Next

LEMMA SessionInvHolds == Spec => []SessionInv
BY InitSessionInv, NextSessionInv, PTL DEF Spec

\* No packet is decrypted twice, for every window width and however often
\* sessions are removed, set up again, re-keyed and re-initiated while old
\* packets are about (session.rs 459-554, 1131-1154).
THEOREM DecryptsAtMostOnce == Spec => []AtMostOnce
<1>1. SessionInv => AtMostOnce
  BY DEF SessionInv, AtMostOnce, DeliveredOnce
<1> QED BY <1>1, SessionInvHolds, PTL

\* Whatever is decrypted was encrypted with an ML-KEM secret in its key and
\* never under the placeholder key (derive_packet_key, SessionInfo::decrypt).
THEOREM DecryptsKeyed == Spec => []DeliveredKeyed
<1>1. SessionInv => DeliveredKeyed
  <2> SUFFICES ASSUME SessionInv, NEW m \in BagToSet(delivered)
               PROVE  m.key[2] # Absent /\ NoKey \notin m.key[1]
    BY DEF DeliveredKeyed
  <2>1. DeliveredOnce(m) /\ m \in net /\ SessionType
    BY DEF SessionInv, DeliveredOnce
  <2>2. PICK k \in OwnKeys(Peer(m.from)) : m.key[1] = {k, m.x}
    BY <2>1 DEF DeliveredOnce
  <2>3. Peer(m.from) \in Node /\ m.x \in OwnKeys(Peer(Peer(m.from)))
    BY <2>1, MessageTypes, PeerIsOther DEF SessionInv, MessageKeyed
  <2>4. k # NoKey /\ m.x # NoKey
    BY <2>1, <2>2, <2>3, KeysApart
  <2> QED BY <2>1, <2>2, <2>4 DEF DeliveredOnce
<1> QED BY <1>1, SessionInvHolds, PTL

-----------------------------------------------------------------------------
(* Crossing initiations.  While nothing is lost, removed, retransmitted or  *)
(* rotated, there are at most two exchanges, one initiated by each node.    *)

\* n's handshake messages under way.
Inits(n) == {m \in net : m.type = "init" /\ m.from = n}
Acks(n) == {m \in net : m.type = "ack" /\ m.from = n}

\* n can still decapsulate what was encapsulated to ek.
LiveKem(n, ek) == ek # <<n, 0>> /\ ek \in {<<n, kem[n].dk>>, <<n, kem[n].prev>>}

\* What n itself encapsulated is its first secret; the rest comes from its peer.
OwnExact(n, v) == v = Absent \/ v = <<n, 1>> \/ v[1] = Peer(n)

\* n has adopted the secret that its peer encapsulated.
Holds(n) ==
    /\ <<Peer(n), 1>> \in Candidates(sess[n])
    /\ \A v \in Candidates(sess[n]) : v[1] = Peer(n)

\* n has answered the exchange that wins: the one of the smaller key, or the
\* only one there is.
Answered(n) ==
    /\ made[n].encap = 1
    /\ n > Peer(n) \/ (made[Peer(n)].encap = 0 /\ Inits(n) = {})

\* The exchange that wins is adopted at both ends, or its Ack is under way to
\* an end that will adopt it.
Settles(n) ==
    Answered(n) =>
        /\ sess[n] # Absent /\ sess[n].pq = <<n, 1>> /\ sess[n].fallback = Absent
        /\ \/ Acks(n) # {} /\ (n > Peer(n) \/ sess[Peer(n)].pq = Absent)
           \/ Holds(Peer(n))

\* Each node makes one session, initiates at most once and answers at most once.
OneExchange(n) ==
    /\ sess[n] = Absent => made[n].x = 0 /\ made[n].encap = 0
    /\ sess[n] # Absent => made[n].x = 1
    /\ made[n].encap \in {0, 1}
    /\ \A k, m \in Inits(n) : k = m
    /\ \A k, m \in Acks(n) : k = m
    /\ Inits(n) # {} => made[n].x = 1 /\ made[Peer(n)].encap = 0
    /\ Acks(n) # {} => made[n].encap = 1
    /\ made[n].encap = 1 => made[Peer(n)].x = 1
    /\ made[n].x = 1 /\ made[n].encap = 0 => Inits(n) # {} \/ made[Peer(n)].encap = 1

\* What answers n's Init can still be decapsulated, and so can n's Ack.
KemLive(n) ==
    /\ kem[n].dk # 0
    /\ \A m \in Inits(n) : LiveKem(n, m.ek)
    /\ \A m \in Acks(n) : LiveKem(Peer(n), m.ct.ek) /\ m.ct.ss = <<n, 1>>

\* The secrets of n's session come from answered exchanges, its remote key from
\* its peer.
SessionTraced(n) ==
    sess[n] # Absent =>
        /\ OwnExact(n, sess[n].pq) /\ OwnExact(n, sess[n].fallback)
        /\ sess[n].pq = Absent => sess[n].fallback = Absent
        /\ made[n].encap = 0 /\ made[Peer(n)].encap = 0 => sess[n].pq = Absent
        /\ sess[n].established => sess[n].rx = <<Peer(n), 1>>

DataTraced(n) == \A m \in net : m.type = "data" /\ m.from = n => OwnExact(n, m.key[2])

SecretsTraced(n) == KemLive(n) /\ SessionTraced(n) /\ DataTraced(n)

Crossing == \A n \in Node : OneExchange(n) /\ SecretsTraced(n) /\ Settles(n)

HandshakeInv == FaultFree => Crossing


LEMMA InitCrossing == Init => HandshakeInv
<1> SUFFICES ASSUME Init PROVE Crossing
  BY DEF HandshakeInv
<1>1. /\ net = {} /\ \A n \in Node : /\ sess[n] = Absent /\ made[n].x = 0 /\ made[n].encap = 0
                                     /\ kem[n].dk = 1
  BY DEF Init
<1> QED BY <1>1 DEF Crossing, OneExchange, SecretsTraced, KemLive, SessionTraced, DataTraced, Settles,
                    Answered, Inits, Acks

\* What initiate leaves behind, field by field.
InitiateEffect(n, s, m, f) ==
    /\ s \in SessionInfo /\ m \in InitMsg /\ f \in MadeRec
    /\ sess[n] = Absent
    /\ sess' = [sess EXCEPT ![n] = s]
    /\ net' = net \cup {m}
    /\ made' = [made EXCEPT ![n] = f]
    /\ s.pq = Absent /\ s.fallback = Absent /\ ~s.established /\ s.retx = 0
    /\ m.type = "init" /\ m.from = n /\ m.ek = <<n, kem[n].dk>>
    /\ f.x = made[n].x + 1 /\ f.encap = made[n].encap /\ f.rotated = made[n].rotated
    /\ UNCHANGED <<kem, faults>>

LEMMA InitiatesEffect ==
    ASSUME SessionType, NEW n \in Node, Initiate(n)
    PROVE  \E s, m, f : InitiateEffect(n, s, m, f)
<1> DEFINE s == NewSession(n, NoKey)
           m == SessionInit(n, s)
           f == [made[n] EXCEPT !.x = @ + 1]
<1>1. /\ sess[n] = Absent /\ sess' = [sess EXCEPT ![n] = s] /\ net' = net \cup {m}
      /\ UNCHANGED <<kem, faults>>
  BY DEF Initiate
<1>2. made' = [made EXCEPT ![n] = f]
  BY Zenon DEF Initiate
<1>3. NoKey \in Keys
  BY DEF NoKey, Keys
<1>4. /\ s \in SessionInfo /\ s.pq = Absent /\ s.fallback = Absent /\ ~s.established /\ s.retx = 0
  BY <1>3, NewSessionRec
<1> HIDE DEF s
<1>5. m \in InitMsg /\ m.from = n /\ m.type = "init" /\ m.ek = <<n, kem[n].dk>>
  BY <1>4, SessionInitMsg
<1> HIDE DEF m
<1>6. made[n] \in MadeRec /\ made[n].x + 1 \in Nat
  BY DEF SessionType, MadeRec
<1>7. f \in MadeRec
  BY <1>6, Zenon DEF MadeRec
<1>8. f.x = made[n].x + 1 /\ f.encap = made[n].encap /\ f.rotated = made[n].rotated
  BY <1>6, Zenon DEF MadeRec
<1> HIDE DEF f
<1>9. InitiateEffect(n, s, m, f)
  BY <1>1, <1>2, <1>4, <1>5, <1>7, <1>8 DEF InitiateEffect
<1> QED BY <1>9

LEMMA InitiateCrossing ==
    ASSUME SessionInv, Crossing, NEW n \in Node, Initiate(n)
    PROVE  Crossing'
<1>0. SessionType
  BY DEF SessionInv
<1>1. PICK s, m, f : InitiateEffect(n, s, m, f)
  BY <1>0, InitiatesEffect
<1>2. PICK p \in Node : p = Peer(n) /\ p # n /\ Peer(p) = n /\ Node = {n, p} /\ n \in Nat /\ p \in Nat
  BY PeerIsOther
<1>3. /\ sess'[n] = s /\ sess'[p] = sess[p] /\ made'[n] = f /\ made'[p] = made[p]
      /\ kem' = kem /\ faults' = faults /\ s # Absent
  <2>1. s # Absent
    BY <1>1, SessionAssumption DEF InitiateEffect
  <2> QED BY <1>0, <1>1, <1>2, <2>1 DEF SessionType, InitiateEffect
<1>4. /\ Inits(n)' = Inits(n) \cup {m} /\ Inits(p)' = Inits(p)
      /\ Acks(n)' = Acks(n) /\ Acks(p)' = Acks(p)
  BY <1>1, <1>2 DEF Inits, Acks, InitiateEffect
<1>5. /\ OneExchange(n) /\ OneExchange(p) /\ SecretsTraced(n) /\ SecretsTraced(p)
      /\ made[n].x = 0 /\ f.x = 1 /\ made[n].encap = 0 /\ f.encap = 0 /\ made[p].encap = 0
      /\ Inits(n) = {}
  BY <1>1, <1>2 DEF Crossing, OneExchange, InitiateEffect
<1>6. OneExchange(n)'
  BY <1>2, <1>3, <1>4, <1>5 DEF OneExchange
<1>7. OneExchange(p)'
  BY <1>2, <1>3, <1>4, <1>5 DEF OneExchange
<1>8. KemLive(n)' /\ KemLive(p)'
  <2>1. \A k, ek : LiveKem(k, ek)' <=> LiveKem(k, ek)
    BY <1>3 DEF LiveKem
  <2>2. LiveKem(n, m.ek)
    BY <1>1, <1>5 DEF SecretsTraced, KemLive, LiveKem, InitiateEffect
  <2> QED BY <1>2, <1>3, <1>4, <1>5, <2>1, <2>2 DEF SecretsTraced, KemLive
<1>9. SessionTraced(n)' /\ SessionTraced(p)'
  BY <1>1, <1>2, <1>3, <1>5 DEF SecretsTraced, SessionTraced, InitiateEffect, OwnExact
<1>10. DataTraced(n)' /\ DataTraced(p)'
  BY <1>1, <1>5 DEF SecretsTraced, DataTraced, InitiateEffect, OwnExact
<1>11. Settles(n)' /\ Settles(p)'
  BY <1>2, <1>3, <1>5 DEF Settles, Answered
<1> QED BY <1>2, <1>6, <1>7, <1>8, <1>9, <1>10, <1>11 DEF Crossing, SecretsTraced


\* A key of a node that has made one key.
LEMMA FirstKey ==
    ASSUME SessionInv, NEW m \in net, made[m.from].x = 1
    PROVE  m.x = <<m.from, 1>>
BY DEF SessionInv, MessageKeyed, OwnKeys

LEMMA HandleInitCrossing ==
    ASSUME SessionInv, Crossing, NEW n \in Node, NEW m \in net, m.type = "init", handle_init(n, m)
    PROVE  Crossing'
<1>0. SessionType
  BY DEF SessionInv
<1>1. PICK s, a, f : InitEffect(n, m, s, a, f)
  BY <1>0, HandleInitEffect
<1>2. PICK p \in Node : p = Peer(n) /\ p # n /\ Peer(p) = n /\ Node = {n, p} /\ n \in Nat /\ p \in Nat
  BY PeerIsOther
<1>3. /\ sess'[n] = s /\ sess'[p] = sess[p] /\ made'[n] = f /\ made'[p] = made[p]
      /\ kem' = kem /\ faults' = faults /\ s # Absent
  <2>1. s # Absent
    BY <1>1, SessionAssumption DEF InitEffect
  <2> QED BY <1>0, <1>1, <1>2, <2>1 DEF SessionType, InitEffect
<1>4. m \in Inits(p) /\ m.from = p
  BY <1>2 DEF handle_init, Inits
<1>5. /\ OneExchange(n) /\ OneExchange(p) /\ SecretsTraced(n) /\ SecretsTraced(p)
      /\ Settles(n) /\ Settles(p)
  BY <1>2 DEF Crossing
<1>6. /\ made[p].x = 1 /\ made[n].encap = 0 /\ f.encap = 1 /\ f.x = 1 /\ Acks(n) = {}
      /\ a.ct.ss = <<n, 1>> /\ m.x = <<p, 1>>
  <2>1. made[p].x = 1 /\ made[n].encap = 0
    BY <1>2, <1>4, <1>5 DEF OneExchange
  <2>2. m.x = <<p, 1>>
    BY <1>4, <2>1, FirstKey
  <2>3. Acks(n) = {} /\ (sess[n] # Absent => made[n].x = 1) /\ (sess[n] = Absent => made[n].x = 0)
    BY <1>5, <2>1 DEF OneExchange
  <2> QED BY <1>1, <2>1, <2>2, <2>3 DEF InitEffect
<1>7. /\ Inits(p)' = {} /\ Inits(n)' = Inits(n)
      /\ Acks(n)' = {a} /\ Acks(p)' = Acks(p)
  <2>1. \A k \in Inits(p) : k = m
    BY <1>4, <1>5 DEF OneExchange
  <2> QED BY <1>1, <1>2, <1>4, <1>6, <2>1 DEF Inits, Acks, InitEffect
<1>8. OneExchange(n)'
  BY <1>2, <1>3, <1>5, <1>6, <1>7 DEF OneExchange
<1>9. OneExchange(p)'
  BY <1>2, <1>3, <1>5, <1>6, <1>7 DEF OneExchange
<1>10. KemLive(n)' /\ KemLive(p)'
  <2>1. \A k, ek : LiveKem(k, ek)' <=> LiveKem(k, ek)
    BY <1>3 DEF LiveKem
  <2>2. LiveKem(p, a.ct.ek)
    BY <1>1, <1>4, <1>5 DEF SecretsTraced, KemLive, InitEffect
  <2> QED BY <1>2, <1>3, <1>5, <1>6, <1>7, <2>1, <2>2 DEF SecretsTraced, KemLive
<1>11. <<n, 1>> # Absent
  BY <1>2, SessionAssumption DEF Secret
<1>12. /\ s.rx = <<p, 1>>
       /\ \/ /\ sess[n] = Absent \/ sess[n].pq = Absent \/ p < n
             /\ s.pq = <<n, 1>> /\ s.fallback = Absent
          \/ /\ sess[n] # Absent /\ sess[n].pq # Absent /\ ~(p < n)
             /\ s.pq = sess[n].pq /\ s.fallback = sess[n].fallback
  BY <1>1, <1>4, <1>6 DEF InitEffect
<1>13. SessionTraced(n)' /\ SessionTraced(p)'
  <2>1. SessionTraced(n) /\ SessionTraced(p)
    BY <1>5 DEF SecretsTraced
  <2>2. \A k : OwnExact(n, k)' <=> OwnExact(n, k)
    BY DEF OwnExact
  <2>3. \A k : OwnExact(p, k)' <=> OwnExact(p, k)
    BY DEF OwnExact
  <2>4. OwnExact(n, <<n, 1>>) /\ OwnExact(n, Absent)
    BY <1>2 DEF OwnExact
  <2>5. SessionTraced(p)'
    BY <1>2, <1>3, <1>6, <2>1, <2>3 DEF SessionTraced
  <2>6. OwnExact(n, s.pq) /\ OwnExact(n, s.fallback) /\ (s.pq = Absent => s.fallback = Absent)
    BY <1>11, <1>12, <2>1, <2>4 DEF SessionTraced
  <2>7. SessionTraced(n)'
    BY <1>2, <1>3, <1>6, <1>12, <2>2, <2>6 DEF SessionTraced
  <2> QED BY <2>5, <2>7
<1>14. DataTraced(n)' /\ DataTraced(p)'
  BY <1>1, <1>5 DEF SecretsTraced, DataTraced, InitEffect, OwnExact
<1>15. Settles(n)'
  <2>1. CASE n > p
    BY <1>2, <1>3, <1>7, <1>12, <2>1 DEF Settles
  <2>2. CASE n < p
    <3>1. sess[n] # Absent => Inits(n) # {} \/ made[p].encap = 1
      BY <1>2, <1>5, <1>6 DEF OneExchange
    <3>2. sess[p] # Absent
      BY <1>5, <1>6 DEF OneExchange
    <3>3. made[p].encap = 0 => sess[p].pq = Absent
      BY <1>2, <1>5, <1>6, <3>2 DEF SecretsTraced, SessionTraced
    <3>4. Answered(n)' => sess[n] = Absent /\ sess[p].pq = Absent
      BY <1>2, <1>3, <1>7, <2>2, <3>1, <3>3 DEF Answered
    <3>5. Answered(n)' => s.pq = <<n, 1>> /\ s.fallback = Absent
      BY <1>12, <3>4
    <3> QED BY <1>2, <1>3, <1>7, <3>4, <3>5 DEF Settles
  <2> QED BY <1>2, <2>1, <2>2
<1>16. Settles(p)'
  <2> SUFFICES ASSUME p > n, made[p].encap = 1 PROVE Settles(p)'
    BY <1>2, <1>3, <1>6 DEF Settles, Answered
  <2>1. /\ sess[p] # Absent /\ sess[p].pq = <<p, 1>> /\ sess[p].fallback = Absent
        /\ Acks(p) # {} \/ Holds(n)
    BY <1>2, <1>5 DEF Settles, Answered
  <2>2. ASSUME Holds(n) PROVE Holds(n)'
    <3>1. sess[n] # Absent
      BY <1>2, <1>5 DEF OneExchange
    <3>2. sess[n].pq # Absent
      BY <1>5, <2>2, <3>1 DEF Holds, Candidates, SecretsTraced, SessionTraced
    <3>3. Candidates(s) = Candidates(sess[n])
      BY <1>2, <1>12, <3>1, <3>2 DEF Candidates
    <3> QED BY <1>3, <2>2, <3>3 DEF Holds
  <2> QED BY <1>2, <1>3, <1>7, <2>1, <2>2 DEF Settles
<1> QED BY <1>2, <1>8, <1>9, <1>10, <1>13, <1>14, <1>15, <1>16 DEF Crossing, SecretsTraced


LEMMA HandleAckCrossing ==
    ASSUME SessionInv, Crossing, NEW n \in Node, NEW m \in net, m.type = "ack", handle_ack(n, m)
    PROVE  Crossing'
<1>0. SessionType /\ net' = net \ {m} /\ UNCHANGED <<kem, made, faults>>
  BY DEF SessionInv, handle_ack
<1>1. PICK p \in Node : p = Peer(n) /\ p # n /\ Peer(p) = n /\ Node = {n, p} /\ n \in Nat /\ p \in Nat
  BY PeerIsOther
<1>2. m \in Acks(p) /\ m.from = p
  BY <1>1 DEF handle_ack, Acks
<1>3. /\ OneExchange(n) /\ OneExchange(p) /\ SecretsTraced(n) /\ SecretsTraced(p)
      /\ Settles(n) /\ Settles(p)
  BY <1>1 DEF Crossing
<1>4. /\ made[p].encap = 1 /\ made[n].x = 1 /\ made[p].x = 1 /\ sess[n] # Absent /\ m.x = <<p, 1>>
      /\ Inits(n) = {}
  <2>1. made[p].encap = 1 /\ made[n].x = 1 /\ sess[n] # Absent
    BY <1>1, <1>2, <1>3 DEF OneExchange
  <2>2. made[p].x = 1 /\ Inits(n) = {}
    BY <1>1, <1>3, <2>1 DEF OneExchange
  <2> QED BY <1>2, <2>1, <2>2, FirstKey
<1>5. PICK s : AckEffect(n, m, s)
  BY <1>0, <1>4, HandleAckEffect
<1>6. sess'[n] = s /\ sess'[p] = sess[p] /\ s # Absent
  <2>1. s # Absent
    BY <1>5, SessionAssumption DEF AckEffect
  <2> QED BY <1>0, <1>1, <1>5, <2>1 DEF SessionType, AckEffect
<1>7. /\ Inits(n)' = Inits(n) /\ Inits(p)' = Inits(p) /\ Acks(n)' = Acks(n) /\ Acks(p)' = {}
  <2>1. \A k \in Acks(p) : k = m
    BY <1>2, <1>3 DEF OneExchange
  <2> QED BY <1>0, <1>1, <1>2, <2>1 DEF Inits, Acks
<1>8. OneExchange(n)' /\ OneExchange(p)'
  BY <1>0, <1>1, <1>3, <1>4, <1>6, <1>7 DEF OneExchange
<1>9. KemLive(n)' /\ KemLive(p)'
  <2>1. \A k, ek : LiveKem(k, ek)' <=> LiveKem(k, ek)
    BY <1>0 DEF LiveKem
  <2> QED BY <1>0, <1>1, <1>3, <1>7, <2>1 DEF SecretsTraced, KemLive
\* The secrets that n decapsulates are its peer's, the right one among them.
<1>10. ASSUME sess[n].pq = Absent \/ n < p
       PROVE  /\ s.pq # Absent /\ s.pq[1] = p
              /\ s.fallback = Absent \/ s.fallback[1] = p
              /\ s.pq = <<p, 1>> \/ s.fallback = <<p, 1>>
  <2>1. s.pq = Decapsulate(n, kem[n].dk, m.ct) /\ s.fallback = DecapPrev(n, m.ct)
    BY <1>2, <1>5, <1>10 DEF AckEffect
  <2>2. /\ m.ct.ss = <<p, 1>> /\ m.ct.ek # <<n, 0>>
        /\ m.ct.ek = <<n, kem[n].dk>> \/ m.ct.ek = <<n, kem[n].prev>>
    BY <1>1, <1>2, <1>3 DEF SecretsTraced, KemLive, LiveKem
  <2>3. kem[n].dk \in Nat /\ kem[n].prev \in Nat
    BY <1>0 DEF SessionType
  <2>4. \A dk \in Nat : /\ Decapsulate(n, dk, m.ct) \in {<<p, 1>>, <<p, 1, dk>>}
                        /\ m.ct.ek = <<n, dk>> => Decapsulate(n, dk, m.ct) = <<p, 1>>
    BY <2>2 DEF Decapsulate
  <2>5. \A dk \in Nat : /\ Decapsulate(n, dk, m.ct) # Absent
                        /\ Decapsulate(n, dk, m.ct)[1] = p
    <3>1. \A dk \in Nat : <<p, 1>> \in Secret /\ <<p, 1, dk>> \in Secret
      BY <1>1 DEF Secret
    <3>2. \A dk \in Nat : <<p, 1>>[1] = p /\ <<p, 1, dk>>[1] = p
      OBVIOUS
    <3> QED BY <2>4, <3>1, <3>2, SessionAssumption
  <2> QED BY <2>1, <2>2, <2>3, <2>4, <2>5 DEF DecapPrev
<1>11. /\ s.rx = <<p, 1>> /\ s.established = TRUE
       /\ ~(sess[n].pq = Absent \/ n < p) => s.pq = sess[n].pq /\ s.fallback = sess[n].fallback
  BY <1>2, <1>4, <1>5 DEF AckEffect
<1>12. SessionTraced(n)' /\ SessionTraced(p)'
  BY <1>0, <1>1, <1>3, <1>4, <1>6, <1>10, <1>11 DEF SecretsTraced, SessionTraced, OwnExact
<1>13. DataTraced(n)' /\ DataTraced(p)'
  BY <1>0, <1>3 DEF SecretsTraced, DataTraced, OwnExact
<1>14. Settles(n)'
  <2>1. CASE n < p
    BY <1>0, <1>1, <1>4, <2>1 DEF Settles, Answered
  <2>2. CASE ~(n < p) /\ made[n].encap = 1
    <3>1. /\ sess[n].pq = <<n, 1>> /\ sess[n].fallback = Absent /\ n > p
          /\ Acks(n) # {} \/ Holds(p)
      BY <1>1, <1>3, <2>2 DEF Settles, Answered
    <3>2. <<n, 1>> # Absent
      BY <1>1, SessionAssumption DEF Secret
    <3>3. Holds(p)' <=> Holds(p)
      BY <1>6 DEF Holds
    <3> QED BY <1>1, <1>6, <1>7, <1>11, <2>2, <3>1, <3>2, <3>3 DEF Settles
  <2> QED BY <1>0, <2>1, <2>2 DEF Settles, Answered
<1>15. Settles(p)'
  <2> SUFFICES ASSUME Answered(p) PROVE Settles(p)'
    BY <1>0, <1>1, <1>7 DEF Settles, Answered
  <2>1. /\ sess[p] # Absent /\ sess[p].pq = <<p, 1>> /\ sess[p].fallback = Absent
        /\ p > n \/ sess[n].pq = Absent \/ Holds(n)
    BY <1>1, <1>3 DEF Settles
  <2>2. Holds(n)'
    <3>1. CASE sess[n].pq = Absent \/ n < p
      <4>1. <<p, 1>> # Absent
        BY <1>1, SessionAssumption DEF Secret
      <4> QED BY <1>1, <1>6, <1>10, <3>1, <4>1 DEF Holds, Candidates
    <3>2. CASE ~(sess[n].pq = Absent \/ n < p)
      BY <1>1, <1>6, <1>11, <2>1, <3>2 DEF Holds, Candidates
    <3> QED BY <3>1, <3>2
  <2> QED BY <1>1, <1>6, <2>1, <2>2 DEF Settles
<1> QED BY <1>1, <1>8, <1>9, <1>12, <1>13, <1>14, <1>15 DEF Crossing, SecretsTraced


\* A step that leaves the sessions' keys, the key pairs and the handshake
\* messages as they are.
LEMMA SameCrossing ==
    ASSUME Crossing, UNCHANGED kem,
           \A k \in Node :
               /\ made'[k].x = made[k].x /\ made'[k].encap = made[k].encap
               /\ sess'[k] = Absent <=> sess[k] = Absent
               /\ sess[k] # Absent =>
                     /\ sess'[k].pq = sess[k].pq /\ sess'[k].fallback = sess[k].fallback
                     /\ sess'[k].rx = sess[k].rx /\ sess'[k].established = sess[k].established
               /\ Inits(k)' = Inits(k) /\ Acks(k)' = Acks(k)
               /\ DataTraced(k)'
    PROVE  Crossing'
<1>1. ASSUME NEW n \in Node PROVE OneExchange(n)' /\ SecretsTraced(n)' /\ Settles(n)'
  <2>1. PICK p \in Node : p = Peer(n) /\ Peer(p) = n
    BY PeerIsOther
  <2>2. OneExchange(n) /\ OneExchange(p) /\ SecretsTraced(n) /\ Settles(n)
    BY DEF Crossing
  <2>3. OneExchange(n)'
    BY <2>1, <2>2, ZenonT(30) DEF OneExchange
  <2>4. KemLive(n)'
    <3>1. \A k, ek : LiveKem(k, ek)' <=> LiveKem(k, ek)
      BY DEF LiveKem
    <3> QED BY <2>1, <2>2, <3>1 DEF SecretsTraced, KemLive
  <2>5. SessionTraced(n)'
    BY <2>1, <2>2 DEF SecretsTraced, SessionTraced, OwnExact
  <2>6. Settles(n)'
    <3> SUFFICES ASSUME Answered(n) PROVE Settles(n)'
      BY <2>1 DEF Settles, Answered
    <3>1. sess[p] # Absent
      BY <2>1, <2>2 DEF OneExchange, Answered
    <3>2. Holds(p) => Holds(p)'
      BY <3>1 DEF Holds, Candidates
    <3> QED BY <2>1, <2>2, <3>1, <3>2, ZenonT(30) DEF Settles
  <2> QED BY <2>3, <2>4, <2>5, <2>6 DEF SecretsTraced
<1> QED BY <1>1 DEF Crossing

LEMMA DecryptCrossing ==
    ASSUME SessionInv, Crossing, NEW n \in Node, NEW m \in net, m.type = "data", decrypt(n, m)
    PROVE  Crossing'
<1>0. SessionType /\ m.from = Peer(n) /\ UNCHANGED <<kem, jobs, made, net, faults>>
  BY DEF SessionInv, decrypt
<1>1. CASE UNCHANGED <<sess, delivered>>
  <2>1. \A k \in Node : Inits(k)' = Inits(k) /\ Acks(k)' = Acks(k) /\ DataTraced(k)'
    BY <1>0 DEF Inits, Acks, DataTraced, OwnExact, Crossing, SecretsTraced
  <2> QED BY <1>0, <1>1, <2>1, SameCrossing
<1>2. ASSUME NEW s, DecryptEffect(n, m, s) PROVE Crossing'
  <2>1. PICK p \in Node : p = Peer(n) /\ p # n /\ Peer(p) = n /\ Node = {n, p} /\ n \in Nat /\ p \in Nat
    BY PeerIsOther
  <2>2. sess'[n] = s /\ sess'[p] = sess[p] /\ s # Absent /\ sess[n] # Absent
    <3>1. s # Absent
      BY <1>2, SessionAssumption DEF DecryptEffect
    <3> QED BY <1>0, <1>2, <2>1, <3>1 DEF SessionType, DecryptEffect
  <2>3. /\ OneExchange(n) /\ OneExchange(p) /\ SecretsTraced(n) /\ SecretsTraced(p)
        /\ Settles(n) /\ Settles(p)
    BY <2>1 DEF Crossing
  <2>4. m.x = <<p, 1>> /\ made[n].x = 1
    <3>1. m.x \in OwnKeys(p)
      BY <1>0, <2>1 DEF SessionInv, MessageKeyed
    <3>2. made[p].x \in {0, 1} /\ made[n].x = 1
      BY <2>2, <2>3 DEF OneExchange
    <3>3. made[p].x = 1
      BY <3>1, <3>2 DEF OwnKeys
    <3> QED BY <1>0, <2>1, <3>2, <3>3, FirstKey
  \* The packet has an ML-KEM secret, one of its sender or of n itself.
  <2>5. s.pq # Absent /\ sess[n].pq # Absent /\ (s.pq = <<p, 1>> \/ s.pq[1] = n)
    <3>1. sess[n].lx \in OwnKeys(n) /\ m.x \in OwnKeys(p)
      BY <1>0, <2>1, <2>2 DEF SessionInv, SessionKeyed, MessageKeyed
    <3>2. sess[n].lx # NoKey /\ m.x # NoKey
      BY <1>0, <2>1, <3>1, KeysApart
    <3>3. s.pq # Absent
      BY <1>2, <3>2 DEF SessionInv, MessageKeyed, DecryptEffect
    <3>4. OwnExact(p, s.pq)
      BY <1>0, <1>2, <2>1, <2>3 DEF SecretsTraced, DataTraced, DecryptEffect
    <3>5. sess[n].pq # Absent
      BY <1>2, <2>2, <2>3, <3>3 DEF SecretsTraced, SessionTraced, DecryptEffect
    <3> QED BY <2>1, <3>3, <3>4, <3>5 DEF OwnExact
  <2>6. /\ s.pq = sess[n].pq \/ s.pq = sess[n].fallback
        /\ s.fallback = Absent /\ s.rx = <<p, 1>> /\ s.established = sess[n].established
        /\ s.retx = sess[n].retx
    BY <1>2, <2>4 DEF DecryptEffect
  <2>7. /\ Inits(n)' = Inits(n) /\ Inits(p)' = Inits(p)
        /\ Acks(n)' = Acks(n) /\ Acks(p)' = Acks(p)
    BY <1>0 DEF Inits, Acks
  <2>8. OneExchange(n)' /\ OneExchange(p)'
    BY <1>0, <2>1, <2>2, <2>3, <2>7 DEF OneExchange
  <2>9. KemLive(n)' /\ KemLive(p)'
    <3>1. \A k, ek : LiveKem(k, ek)' <=> LiveKem(k, ek)
      BY <1>0 DEF LiveKem
    <3> QED BY <1>0, <2>1, <2>3, <2>7, <3>1 DEF SecretsTraced, KemLive
  <2>10. SessionTraced(n)' /\ SessionTraced(p)'
    BY <1>0, <2>1, <2>2, <2>3, <2>5, <2>6 DEF SecretsTraced, SessionTraced, OwnExact
  <2>11. DataTraced(n)' /\ DataTraced(p)'
    BY <1>0, <2>3, ZenonT(30) DEF SecretsTraced, DataTraced, OwnExact
  <2>12. Settles(n)'
    <3> SUFFICES ASSUME Answered(n) PROVE Settles(n)'
      BY <1>0, <2>1, <2>7 DEF Settles, Answered
    <3>1. s.pq = <<n, 1>>
      BY <2>3, <2>5, <2>6 DEF Settles
    <3>2. Holds(p) => Holds(p)'
      BY <2>2 DEF Holds
    <3> QED BY <2>1, <2>2, <2>3, <2>6, <2>7, <3>1, <3>2, ZenonT(30) DEF Settles
  <2>13. Settles(p)'
    <3> SUFFICES ASSUME Answered(p) PROVE Settles(p)'
      BY <1>0, <2>1, <2>7 DEF Settles, Answered
    <3>1. Holds(n) => Holds(n)'
      <4> SUFFICES ASSUME Holds(n) PROVE Holds(n)'
        OBVIOUS
      <4>1. s.pq = <<p, 1>>
        BY <2>1, <2>5, <2>6 DEF Holds, Candidates
      <4> QED BY <2>1, <2>2, <2>5, <2>6, <4>1 DEF Holds, Candidates
    <3> QED BY <2>1, <2>2, <2>3, <2>5, <2>7, <3>1 DEF Settles
  <2> QED BY <2>1, <2>8, <2>9, <2>10, <2>11, <2>12, <2>13 DEF Crossing, SecretsTraced
<1> QED BY <1>0, <1>1, <1>2, HandleDataEffect


LEMMA EncryptCrossing ==
    ASSUME SessionInv, Crossing, NEW n \in Node, encrypt_and_dispatch(n)
    PROVE  Crossing'
<1>0. SessionType /\ UNCHANGED <<kem, made, faults>>
  BY DEF SessionInv, encrypt_and_dispatch
<1>1. CASE sess[n] = Absent
  <2>1. UNCHANGED <<sess, net>>
    BY <1>1 DEF encrypt_and_dispatch
  <2>2. \A k \in Node : Inits(k)' = Inits(k) /\ Acks(k)' = Acks(k) /\ DataTraced(k)'
    BY <2>1 DEF Inits, Acks, DataTraced, OwnExact, Crossing, SecretsTraced
  <2> QED BY <1>0, <2>1, <2>2, SameCrossing
<1>2. CASE sess[n] # Absent
  <2> DEFINE m == [type |-> "data", from |-> n, x |-> sess[n].lx, seq |-> sess[n].seq,
                   key |-> PacketKey({sess[n].lx, sess[n].rx}, sess[n].pq)]
             s == [sess[n] EXCEPT !.seq = @ + 1]
  <2>1. sess' = [sess EXCEPT ![n] = s] /\ net' = net \cup {m}
    BY <1>2, Zenon DEF encrypt_and_dispatch
  <2>2. sess[n] \in SessionInfo /\ sess[n].seq + 1 \in Nat
    BY <1>0, <1>2 DEF SessionType, SessionInfo
  <2>3. s \in SessionInfo
    BY <2>2, Zenon DEF SessionInfo
  <2>4. /\ s.rx = sess[n].rx /\ s.pq = sess[n].pq /\ s.fallback = sess[n].fallback
        /\ s.established = sess[n].established /\ s.retx = sess[n].retx
    BY <2>2, Zenon DEF SessionInfo
  <2> HIDE DEF s
  <2>5. m.type = "data" /\ m.from = n /\ m.key[2] = sess[n].pq
    BY DEF PacketKey
  <2> HIDE DEF m
  <2>6. \A k \in Node : Inits(k)' = Inits(k) /\ Acks(k)' = Acks(k)
    BY <2>1, <2>5 DEF Inits, Acks
  <2>7. ASSUME NEW k \in Node PROVE DataTraced(k)'
    <3>1. DataTraced(k) /\ (k = n => OwnExact(n, m.key[2]))
      BY <1>2, <2>5 DEF Crossing, SecretsTraced, SessionTraced
    <3> QED BY <2>1, <2>5, <3>1 DEF DataTraced, OwnExact
  <2>8. s # Absent
    BY <2>3, SessionAssumption
  <2>9. sess'[n] = s /\ \A k \in Node \ {n} : sess'[k] = sess[k]
    BY <1>0, <2>1 DEF SessionType
  <2> QED BY <1>0, <1>2, <2>4, <2>6, <2>7, <2>8, <2>9, SameCrossing
<1> QED BY <1>1, <1>2

LEMMA WriteCrossing ==
    ASSUME SessionInv, Crossing, NEW n \in Node, write_to(n)
    PROVE  Crossing'
<1> DEFINE f == [made[n] EXCEPT !.data = @ + 1]
<1>0. SessionType /\ UNCHANGED <<sess, kem, net, faults>>
  BY DEF SessionInv, write_to
<1>1. made' = [made EXCEPT ![n] = f]
  BY Zenon DEF write_to
<1>2. made[n] \in MadeRec
  BY <1>0 DEF SessionType
<1>3. f.x = made[n].x /\ f.encap = made[n].encap /\ f.rotated = made[n].rotated
  BY <1>2, Zenon DEF MadeRec
<1> HIDE DEF f
<1>4. made'[n] = f /\ \A k \in Node \ {n} : made'[k] = made[k]
  BY <1>0, <1>1 DEF SessionType
<1>5. \A k \in Node : Inits(k)' = Inits(k) /\ Acks(k)' = Acks(k) /\ DataTraced(k)'
  BY <1>0 DEF Inits, Acks, DataTraced, OwnExact, Crossing, SecretsTraced
<1> QED BY <1>0, <1>3, <1>4, <1>5, SameCrossing

\* An ML-KEM rotation and the end of its overlap: what is under way can still
\* be decapsulated.
LEMMA KemCrossing ==
    ASSUME SessionInv, Crossing, NEW n \in Node, RotateKem(n) \/ DropPrev(n)
    PROVE  Crossing'
<1>0. SessionType /\ UNCHANGED <<sess, net, faults>> /\ OverlapOver(n)
  BY DEF SessionInv, RotateKem, DropPrev
<1>1. \A k \in Node : made'[k].x = made[k].x /\ made'[k].encap = made[k].encap
  <2>1. CASE RotateKem(n)
    <3> DEFINE f == [made[n] EXCEPT !.kem = @ + 1]
    <3>1. made' = [made EXCEPT ![n] = f]
      BY <2>1, Zenon DEF RotateKem
    <3>2. made[n] \in MadeRec
      BY <1>0 DEF SessionType
    <3>3. f.x = made[n].x /\ f.encap = made[n].encap /\ f.rotated = made[n].rotated
      BY <3>2, Zenon DEF MadeRec
    <3> HIDE DEF f
    <3>4. made'[n] = f /\ \A k \in Node \ {n} : made'[k] = made[k]
      BY <1>0, <3>1 DEF SessionType
    <3> QED BY <3>3, <3>4
  <2>2. CASE DropPrev(n)
    BY <2>2 DEF DropPrev
  <2> QED BY <2>1, <2>2
<1>2. /\ \A k \in Node \ {n} : kem'[k] = kem[k]
      /\ kem'[n].dk # 0 /\ kem[n].dk \in {kem'[n].dk, kem'[n].prev}
  <2>1. CASE RotateKem(n)
    <3>1. made[n].kem \in Nat /\ kem[n].dk \in Nat
      BY <1>0 DEF SessionType, MadeRec
    <3>2. kem' = [kem EXCEPT ![n] = [dk |-> made[n].kem + 1, prev |-> kem[n].dk]]
      BY <2>1 DEF RotateKem
    <3> QED BY <1>0, <3>1, <3>2 DEF SessionType
  <2>2. CASE DropPrev(n)
    <3> DEFINE e == [kem[n] EXCEPT !.prev = 0]
    <3>1. kem' = [kem EXCEPT ![n] = e]
      BY <2>2, Zenon DEF DropPrev
    <3>2. kem[n] \in [dk : Nat, prev : Nat]
      BY <1>0 DEF SessionType
    <3>3. e.dk = kem[n].dk
      BY <3>2, Zenon
    <3> HIDE DEF e
    <3>4. kem[n].dk # 0
      BY DEF Crossing, SecretsTraced, KemLive
    <3> QED BY <1>0, <3>1, <3>3, <3>4 DEF SessionType
  <2> QED BY <2>1, <2>2
<1>3. ASSUME NEW k \in Node, NEW ek, LiveKem(k, ek), k = n => ek # <<n, kem[n].prev>>
      PROVE  LiveKem(k, ek)'
  BY <1>2, <1>3 DEF LiveKem
<1>4. \A k \in Node : Inits(k)' = Inits(k) /\ Acks(k)' = Acks(k) /\ DataTraced(k)'
  BY <1>0 DEF Inits, Acks, DataTraced, OwnExact, Crossing, SecretsTraced
<1>5. ASSUME NEW k \in Node PROVE KemLive(k)'
  <2>1. Peer(k) \in Node
    BY PeerIsOther
  <2>2. KemLive(k) /\ kem[k].dk # 0
    BY DEF Crossing, SecretsTraced, KemLive
  <2>3. \A m \in Inits(k) : LiveKem(k, m.ek)'
    BY <1>0, <1>3, <2>2 DEF KemLive, OverlapOver, Inits
  <2>4. \A m \in Acks(k) : LiveKem(Peer(k), m.ct.ek)'
    BY <1>0, <1>3, <2>1, <2>2 DEF KemLive, OverlapOver, Acks
  <2>5. kem'[k].dk # 0
    BY <1>2, <2>2
  <2> QED BY <1>4, <2>2, <2>3, <2>4, <2>5 DEF KemLive
<1>6. ASSUME NEW k \in Node PROVE OneExchange(k)' /\ SessionTraced(k)' /\ Settles(k)'
  <2>1. /\ Peer(k) \in Node /\ OneExchange(k) /\ SessionTraced(k) /\ Settles(k)
    BY PeerIsOther DEF Crossing, SecretsTraced
  <2>2. OneExchange(k)'
    BY <1>0, <1>1, <1>4, <2>1, ZenonT(30) DEF OneExchange
  <2>3. SessionTraced(k)'
    BY <1>0, <1>1, <2>1 DEF SessionTraced, OwnExact
  <2>4. Settles(k)'
    BY <1>0, <1>1, <1>4, <2>1 DEF Settles, Answered, Holds
  <2> QED BY <2>2, <2>3, <2>4
<1> QED BY <1>4, <1>5, <1>6 DEF Crossing, SecretsTraced


\* Steps after which the network or the nodes are no longer free of faults.
LEMMA FaultySteps ==
    ASSUME SessionInv,
           \/ \E n \in Node : Retransmit(n) \/ rotate_local_key(n) \/ Remove(n) \/ Restart(n)
           \/ \E m \in net : Lose(m)
    PROVE  ~FaultFree'
<1>0. SessionType
  BY DEF SessionInv
<1>1. ASSUME NEW n \in Node, Retransmit(n) PROVE ~FaultFree'
  <2> DEFINE s == [sess[n] EXCEPT !.retx = @ + 1]
  <2>1. sess' = [sess EXCEPT ![n] = s] /\ sess[n] # Absent
    BY <1>1, Zenon DEF Retransmit
  <2>2. sess[n] \in SessionInfo /\ sess[n].retx \in Nat /\ sess[n].retx + 1 \in Nat
    BY <1>0, <2>1 DEF SessionType, SessionInfo
  <2>3. s \in SessionInfo
    BY <2>2, Zenon DEF SessionInfo
  <2>4. s.retx = sess[n].retx + 1
    BY <2>2, Zenon DEF SessionInfo
  <2> HIDE DEF s
  <2>5. sess'[n] = s /\ s # Absent
    BY <1>0, <2>1, <2>3, SessionAssumption DEF SessionType
  <2> QED BY <2>2, <2>4, <2>5 DEF FaultFree
<1>2. ASSUME NEW n \in Node, rotate_local_key(n) PROVE ~FaultFree'
  <2> DEFINE f == [made[n] EXCEPT !.x = @ + 1, !.rotated = @ + 1]
  <2>1. made' = [made EXCEPT ![n] = f]
    BY <1>2, Zenon DEF rotate_local_key
  <2>2. made[n] \in MadeRec /\ made[n].rotated \in Nat
    BY <1>0 DEF SessionType, MadeRec
  <2>3. f.rotated = made[n].rotated + 1
    BY <2>2, Zenon DEF MadeRec
  <2> HIDE DEF f
  <2>4. made'[n] = f
    BY <1>0, <2>1 DEF SessionType
  <2> QED BY <2>2, <2>3, <2>4 DEF FaultFree
<1>3. faults \in [lost : Nat, removed : Nat] /\ faults.removed \in Nat /\ faults.lost \in Nat
  BY <1>0 DEF SessionType
<1>4. ASSUME NEW n \in Node, Remove(n) \/ Restart(n) PROVE ~FaultFree'
  <2> DEFINE g == [faults EXCEPT !.removed = @ + 1]
  <2>1. faults' = g
    BY <1>4, Zenon DEF Remove, Restart
  <2>2. g.removed = faults.removed + 1
    BY <1>3, Zenon
  <2> HIDE DEF g
  <2> QED BY <1>3, <2>1, <2>2 DEF FaultFree
<1>5. ASSUME NEW m \in net, Lose(m) PROVE ~FaultFree'
  <2> DEFINE g == [faults EXCEPT !.lost = @ + 1]
  <2>1. faults' = g
    BY <1>5, Zenon DEF Lose
  <2>2. g.lost = faults.lost + 1
    BY <1>3, Zenon
  <2> HIDE DEF g
  <2> QED BY <1>3, <2>1, <2>2 DEF FaultFree
<1> QED BY <1>1, <1>2, <1>4, <1>5


\* A step into a fault-free state that is none of those comes from a fault-free
\* state: it keeps the counters that FaultFree looks at.
LEMMA FaultFreeBefore ==
    ASSUME SessionInv, FaultFree', NEW n \in Node,
           \/ Initiate(n) \/ write_to(n) \/ encrypt_and_dispatch(n) \/ RotateKem(n) \/ DropPrev(n)
           \/ \E m \in net : Handle(n, m)
    PROVE  FaultFree
<1>0. SessionType
  BY DEF SessionInv
<1>1. ASSUME NEW s, sess' = [sess EXCEPT ![n] = s],
             sess[n] # Absent => s # Absent /\ s.retx = sess[n].retx,
             faults' = faults, \A k \in Node : made'[k].rotated = made[k].rotated
      PROVE  FaultFree
  <2>1. \A k \in Node : sess[k] # Absent => sess'[k] # Absent /\ sess'[k].retx = sess[k].retx
    BY <1>0, <1>1 DEF SessionType
  <2> QED BY <1>1, <2>1 DEF FaultFree
<1>2. ASSUME sess' = sess, faults' = faults, \A k \in Node : made'[k].rotated = made[k].rotated
      PROVE  FaultFree
  BY <1>2 DEF FaultFree
<1>3. ASSUME NEW f, made' = [made EXCEPT ![n] = f], f.rotated = made[n].rotated
      PROVE  \A k \in Node : made'[k].rotated = made[k].rotated
  BY <1>0, <1>3 DEF SessionType
<1>4. made[n] \in MadeRec
  BY <1>0 DEF SessionType
<1>5. CASE Initiate(n)
  <2>1. PICK s, m, f : InitiateEffect(n, s, m, f)
    BY <1>0, <1>5, InitiatesEffect
  <2> QED BY <1>1, <1>3, <2>1 DEF InitiateEffect
<1>6. CASE write_to(n)
  <2> DEFINE f == [made[n] EXCEPT !.data = @ + 1]
  <2>1. made' = [made EXCEPT ![n] = f] /\ UNCHANGED <<sess, faults>>
    BY <1>6, Zenon DEF write_to
  <2>2. f.rotated = made[n].rotated
    BY <1>4, Zenon DEF MadeRec
  <2> QED BY <1>2, <1>3, <2>1, <2>2
<1>7. CASE RotateKem(n)
  <2> DEFINE f == [made[n] EXCEPT !.kem = @ + 1]
  <2>1. made' = [made EXCEPT ![n] = f] /\ UNCHANGED <<sess, faults>>
    BY <1>7, Zenon DEF RotateKem
  <2>2. f.rotated = made[n].rotated
    BY <1>4, Zenon DEF MadeRec
  <2> QED BY <1>2, <1>3, <2>1, <2>2
<1>8. CASE DropPrev(n)
  BY <1>2, <1>8 DEF DropPrev
<1>9. CASE encrypt_and_dispatch(n)
  <2>1. UNCHANGED <<made, faults>>
    BY <1>9 DEF encrypt_and_dispatch
  <2>2. CASE sess[n] = Absent
    BY <1>2, <1>9, <2>1, <2>2 DEF encrypt_and_dispatch
  <2>3. CASE sess[n] # Absent
    <3> DEFINE s == [sess[n] EXCEPT !.seq = @ + 1]
    <3>1. sess' = [sess EXCEPT ![n] = s]
      BY <1>9, <2>3, Zenon DEF encrypt_and_dispatch
    <3>2. sess[n] \in SessionInfo /\ sess[n].seq + 1 \in Nat
      BY <1>0, <2>3 DEF SessionType, SessionInfo
    <3>3. s \in SessionInfo
      BY <3>2, Zenon DEF SessionInfo
    <3>4. s.retx = sess[n].retx
      BY <3>2, ZenonT(30) DEF SessionInfo
    <3> HIDE DEF s
    <3> QED BY <1>1, <2>1, <3>1, <3>3, <3>4, SessionAssumption
  <2> QED BY <2>2, <2>3
<1>10. ASSUME NEW m \in net, m.type = "init", handle_init(n, m) PROVE FaultFree
  <2>1. PICK s, a, f : InitEffect(n, m, s, a, f)
    BY <1>0, <1>10, HandleInitEffect
  <2>2. s # Absent
    BY <2>1, SessionAssumption DEF InitEffect
  <2> QED BY <1>1, <1>3, <2>1, <2>2 DEF InitEffect
<1>11. ASSUME NEW m \in net, m.type = "ack", handle_ack(n, m) PROVE FaultFree
  <2>1. UNCHANGED <<made, faults>>
    BY <1>11 DEF handle_ack
  <2>2. CASE sess[n] = Absent
    BY <1>2, <1>11, <2>1, <2>2 DEF handle_ack
  <2>3. CASE sess[n] # Absent
    <3>1. PICK s : AckEffect(n, m, s)
      BY <1>0, <1>11, <2>3, HandleAckEffect
    <3>2. s # Absent
      BY <3>1, SessionAssumption DEF AckEffect
    <3> QED BY <1>1, <2>1, <3>1, <3>2 DEF AckEffect
  <2> QED BY <2>2, <2>3
<1>12. ASSUME NEW m \in net, m.type = "data", decrypt(n, m) PROVE FaultFree
  <2>1. UNCHANGED <<made, faults>>
    BY <1>12 DEF decrypt
  <2>2. ASSUME NEW s, DecryptEffect(n, m, s) PROVE FaultFree
    <3>1. s # Absent
      BY <2>2, SessionAssumption DEF DecryptEffect
    <3> QED BY <1>1, <2>1, <2>2, <3>1, ZenonT(30) DEF DecryptEffect
  <2> QED BY <1>0, <1>2, <1>12, <2>1, <2>2, HandleDataEffect
<1> QED BY <1>5, <1>6, <1>7, <1>8, <1>9, <1>10, <1>11, <1>12 DEF Handle

LEMMA NextHandshakeInv == SessionInv /\ HandshakeInv /\ [Next]_vars => HandshakeInv'
<1> SUFFICES ASSUME SessionInv, HandshakeInv, [Next]_vars, FaultFree' PROVE Crossing'
  BY DEF HandshakeInv
<1>1. ASSUME NEW n \in Node,
             \/ Initiate(n) \/ write_to(n) \/ encrypt_and_dispatch(n) \/ RotateKem(n) \/ DropPrev(n)
      PROVE  Crossing'
  <2>1. Crossing
    BY <1>1, FaultFreeBefore DEF HandshakeInv
  <2> QED BY <1>1, <2>1, InitiateCrossing, WriteCrossing, EncryptCrossing, KemCrossing
<1>2. ASSUME NEW n \in Node, NEW m \in net, Handle(n, m) PROVE Crossing'
  <2>1. Crossing
    BY <1>2, FaultFreeBefore DEF HandshakeInv
  <2> QED BY <1>2, <2>1, HandleInitCrossing, HandleAckCrossing, DecryptCrossing DEF Handle
<1>3. CASE UNCHANGED vars
  <2>1. UNCHANGED <<sess, kem, made, net, faults>> /\ FaultFree
    BY <1>3 DEF vars, FaultFree
  <2>2. Crossing
    BY <2>1 DEF HandshakeInv
  <2>3. \A k \in Node : Inits(k)' = Inits(k) /\ Acks(k)' = Acks(k) /\ DataTraced(k)'
    BY <2>1, <2>2 DEF Inits, Acks, DataTraced, OwnExact, Crossing, SecretsTraced
  <2> QED BY <2>1, <2>2, <2>3, SameCrossing
<1> QED BY <1>1, <1>2, <1>3, FaultySteps DEF Next

\* Crossing initiations converge, for any number of ML-KEM rotations and
\* payloads and in whatever order Inits, Acks and packets are handled
\* (handle_init and handle_ack, session.rs 1115-1145 and 1187-1198).
THEOREM CrossingsConverge == Spec => []CrossingConverges
<1>1. SessionInv /\ HandshakeInv => CrossingConverges
  <2> SUFFICES ASSUME SessionInv, Crossing, Quiet, \A n \in Node : Established(n)
               PROVE  /\ \A n \in Node : Candidates(sess[n]) \cap Candidates(sess[Peer(n)]) # {}
                      /\ \A n \in Node : sess[n].rx = sess[Peer(n)].lx
    BY DEF HandshakeInv, CrossingConverges, SecretsConverge
  <2>1. ASSUME NEW n \in Node
        PROVE  /\ Candidates(sess[n]) \cap Candidates(sess[Peer(n)]) # {}
               /\ sess[n].rx = sess[Peer(n)].lx
    <3>1. PICK p \in Node : p = Peer(n) /\ p # n /\ Peer(p) = n /\ n \in Nat /\ p \in Nat
      BY PeerIsOther
    <3>2. /\ OneExchange(n) /\ OneExchange(p) /\ SecretsTraced(n) /\ Settles(n) /\ Settles(p)
          /\ sess[n] # Absent /\ sess[p] # Absent /\ sess[n].established
      BY DEF Crossing, Established
    <3>3. Inits(n) = {} /\ Inits(p) = {} /\ Acks(n) = {} /\ Acks(p) = {}
      BY DEF Quiet, Inits, Acks
    <3>4. Answered(n) \/ Answered(p)
      BY <3>1, <3>2, <3>3 DEF OneExchange, Answered
    <3>5. <<n, 1>> # Absent /\ <<p, 1>> # Absent
      BY <3>1, SessionAssumption DEF Secret
    <3>6. Candidates(sess[n]) \cap Candidates(sess[p]) # {}
      <4>1. CASE Answered(n)
        BY <3>1, <3>2, <3>3, <3>5, <4>1 DEF Settles, Holds, Candidates
      <4>2. CASE Answered(p)
        BY <3>1, <3>2, <3>3, <3>5, <4>2 DEF Settles, Holds, Candidates
      <4> QED BY <3>4, <4>1, <4>2
    <3>7. sess[n].rx = <<p, 1>>
      BY <3>1, <3>2 DEF SecretsTraced, SessionTraced
    <3>8. sess[p].lx = <<p, 1>>
      <4>1. made[p].x = 1
        BY <3>2 DEF OneExchange
      <4>2. SessionKeyed(p)
        BY DEF SessionInv
      <4> QED BY <3>2, <4>1, <4>2 DEF SessionKeyed, OwnKeys
    <3> QED BY <3>1, <3>6, <3>7, <3>8
  <2> QED BY <2>1
<1>2. Spec => []HandshakeInv
  BY InitCrossing, NextHandshakeInv, SessionInvHolds, PTL DEF Spec
<1> QED BY <1>1, <1>2, SessionInvHolds, PTL

=============================================================================
