------------------------------ MODULE Session ------------------------------
(***************************************************************************)
(* The end-to-end session of two nodes (src/src/session.rs and the write   *)
(* path of src/src/router): SessionInit / SessionAck with an X25519 key    *)
(* and an ML-KEM exchange, retransmission, crossing initiations, the data  *)
(* packets, both key rotations, session removal and restart, over a mesh   *)
(* that loses and reorders (relays forward after a random delay).          *)
(*                                                                         *)
(* Keys are symbolic.  <<n, i>> is the i-th key pair that node n made and  *)
(* stands for both halves.  A Diffie-Hellman secret is the set of the two  *)
(* key pairs.  Signatures, pins and the initiation rate limit are not      *)
(* here: both nodes are honest and keep their signing identity.            *)
(***************************************************************************)
EXTENDS SlidingWindow, FiniteSets, Bags

CONSTANTS Node,          \* the two nodes: numbers, ordered as their public keys
          RotateEvery,   \* KEY_ROTATION_INTERVAL: packets between key rotations
          Absent,        \* Rust's None
          MaxRotate,     \* X25519 rotations of a node
          MaxKem,        \* ML-KEM key pairs up to which a node rotates
          MaxRetx,       \* retransmissions of one SessionInit
          MaxLoss,       \* handshake messages the network loses
          MaxRemove,     \* sessions removed (disconnect, idle expiry, restart)
          MaxData,       \* payloads a writer writes
          Writers        \* the nodes that write data

\* X25519 keys; ML-KEM secrets, those of a failed decapsulation included.
Keys == Nat \X Nat
Secret == (Nat \X Nat) \cup (Nat \X Nat \X Nat)

\* struct SessionInfo.
SessionInfo ==
    [lx : Keys, rx : Keys, seq : Nat, high : Nat, win : SUBSET Nat, established : BOOLEAN,
     pq : Secret \cup {Absent}, fallback : Secret \cup {Absent}, retx : Nat]

ASSUME SessionAssumption ==
    /\ Node \subseteq Nat \ {0} /\ Cardinality(Node) = 2
    /\ RotateEvery \in Nat \ {0} /\ Writers \subseteq Node
    /\ {MaxRotate, MaxKem, MaxRetx, MaxLoss, MaxRemove, MaxData} \subseteq Nat
    /\ IsFiniteSet(Node)
    /\ Absent \notin Secret \cup SessionInfo             \* None is no value

NoKey == <<0, 0>>        \* the all-zero X25519 placeholder of `initiate'

VARIABLES
    sess,                \* sess[n]: n's SessionInfo for the other node, or Absent
    kem,                 \* kem[n]: PqKeys, the numbers of dk and prev_dk (0: None)
    jobs,                \* jobs[n]: payloads that passed write_to's establishment
                         \* check and are not yet encrypted
    made,                \* made[n]: how many X25519 keys, ML-KEM keys, secrets,
                         \* rotations and payloads so far
    net,                 \* messages in flight; a data packet stays for ever (it
                         \* may arrive again, or never)
    delivered,           \* bag of the data packets decrypted
    faults               \* losses and removals so far

vars == <<sess, kem, jobs, made, net, delivered, faults>>

Peer(n) == CHOOSE p \in Node : p # n

NewSession(n, rx) ==
    [lx |-> <<n, made[n].x + 1>>, rx |-> rx, seq |-> 0, high |-> 0, win |-> {},
     established |-> FALSE, pq |-> Absent, fallback |-> Absent, retx |-> 0]

Init ==
    /\ sess = [n \in Node |-> Absent]
    /\ kem = [n \in Node |-> [dk |-> 1, prev |-> 0]]
    /\ jobs = [n \in Node |-> 0]
    /\ made = [n \in Node |-> [x |-> 0, kem |-> 1, encap |-> 0, rotated |-> 0, data |-> 0]]
    /\ net = {}
    /\ delivered = EmptyBag
    /\ faults = [lost |-> 0, removed |-> 0]

SessionInit(n, s) ==
    [type |-> "init", from |-> n, x |-> s.lx, ek |-> <<n, kem[n].dk>>, no |-> s.retx]

SessionAck(n, s, ct) == [type |-> "ack", from |-> n, x |-> s.lx, ct |-> ct]

-----------------------------------------------------------------------------
(* The handshake. *)

\* get_or_initiate_bytes / initiate: handle_conn on a new link, or write_to
\* without an established session.
Initiate(n) ==
    /\ sess[n] = Absent
    /\ LET s == NewSession(n, NoKey)
       IN  /\ sess' = [sess EXCEPT ![n] = s]
           /\ net' = net \cup {SessionInit(n, s)}
    /\ made' = [made EXCEPT ![n].x = @ + 1]
    /\ UNCHANGED <<kem, jobs, delivered, faults>>

\* A bug that counts the retransmission and sends nothing.
MutantRetransmitSilent(n) ==
    /\ sess[n] # Absent /\ ~sess[n].established
    /\ sess[n].retx < MaxRetx
    /\ sess' = [sess EXCEPT ![n].retx = @ + 1]
    /\ UNCHANGED <<kem, jobs, made, net, delivered, faults>>

\* pending_handshake_inits, on the maintenance tick.
Retransmit(n) ==
    /\ sess[n] # Absent /\ ~sess[n].established
    /\ sess[n].retx < MaxRetx
    /\ LET s == [sess[n] EXCEPT !.retx = @ + 1]
       IN  /\ sess' = [sess EXCEPT ![n] = s]
           /\ net' = net \cup {SessionInit(n, s)}
    /\ UNCHANGED <<kem, jobs, made, delivered, faults>>

Encapsulate(n, ek) == [ek |-> ek, ss |-> <<n, made[n].encap + 1>>]

\* ML-KEM rejects implicitly: the wrong key yields an unrelated secret.
Decapsulate(n, dk, ct) == IF ct.ek = <<n, dk>> THEN ct.ss ELSE <<ct.ss[1], ct.ss[2], dk>>

\* Bugs: no tie-break at all; the secret is never stored.
MutantAdoptsAlways(s, initiator, responder) == TRUE
MutantAdoptsNever(s, initiator, responder) == FALSE

\* The convergence rule of handle_init and handle_ack: the exchange that the
\* smaller public key initiated wins over one already adopted.
Adopts(s, initiator, responder) == s.pq = Absent \/ initiator < responder

\* A bug that restarts the replay window of a session it keeps.
MutantHandleInitResets(n, m) ==
    /\ m.from = Peer(n)
    /\ LET ct   == Encapsulate(n, m.ek)
           old  == sess[n]
           base == IF old = Absent THEN NewSession(n, m.x)
                   ELSE [old EXCEPT !.high = 0, !.win = {}]
           kept == [base EXCEPT !.rx = m.x, !.established = TRUE]
           s    == IF Adopts(base, m.from, n)
                   THEN [kept EXCEPT !.pq = ct.ss, !.fallback = Absent]
                   ELSE kept
       IN  /\ sess' = [sess EXCEPT ![n] = s]
           /\ net' = (net \ {m}) \cup {SessionAck(n, s, ct)}
           /\ made' = [made EXCEPT ![n].encap = @ + 1,
                                   ![n].x = IF old = Absent THEN @ + 1 ELSE @]
    /\ UNCHANGED <<kem, jobs, delivered, faults>>

\* A fresh secret is encapsulated for every SessionInit and its ciphertext goes
\* into the Ack, whether or not the secret is adopted here.
handle_init(n, m) ==
    /\ m.from = Peer(n)
    /\ LET ct   == Encapsulate(n, m.ek)
           old  == sess[n]
           base == IF old = Absent THEN NewSession(n, m.x) ELSE old
           kept == [base EXCEPT !.rx = m.x, !.established = TRUE]
           s    == IF Adopts(base, m.from, n)
                   THEN [kept EXCEPT !.pq = ct.ss, !.fallback = Absent]
                   ELSE kept
       IN  /\ sess' = [sess EXCEPT ![n] = s]
           /\ net' = (net \ {m}) \cup {SessionAck(n, s, ct)}
           /\ made' = [made EXCEPT ![n].encap = @ + 1,
                                   ![n].x = IF old = Absent THEN @ + 1 ELSE @]
    /\ UNCHANGED <<kem, jobs, delivered, faults>>

\* decap_prev: the candidate of the retired key while it is kept.
DecapPrev(n, ct) == IF kem[n].prev = 0 THEN Absent ELSE Decapsulate(n, kem[n].prev, ct)

handle_ack(n, m) ==
    /\ m.from = Peer(n)
    /\ net' = net \ {m}
    /\ IF sess[n] = Absent
       THEN UNCHANGED sess                                    \* unsolicited
       ELSE LET kept == [sess[n] EXCEPT !.rx = m.x, !.established = TRUE]
            IN  sess' = [sess EXCEPT ![n] =
                    IF Adopts(kept, n, m.from)
                    THEN [kept EXCEPT !.pq = Decapsulate(n, kem[n].dk, m.ct),
                                      !.fallback = DecapPrev(n, m.ct)]
                    ELSE kept]
    /\ UNCHANGED <<kem, jobs, made, delivered, faults>>

-----------------------------------------------------------------------------
(* Data. *)

\* write_to: the establishment check; the encryption happens later, on a crypto
\* worker or after the locks of the check were released.
write_to(n) ==
    /\ sess[n] # Absent /\ sess[n].established
    /\ n \in Writers /\ made[n].data < MaxData
    /\ jobs' = [jobs EXCEPT ![n] = @ + 1]
    /\ made' = [made EXCEPT ![n].data = @ + 1]
    /\ UNCHANGED <<sess, kem, net, delivered, faults>>

PacketKey(dh, pq) == <<dh, pq>>

\* encrypt_and_dispatch on whatever session is in the table by then.
encrypt_and_dispatch(n) ==
    /\ jobs[n] > 0
    /\ jobs' = [jobs EXCEPT ![n] = @ - 1]
    /\ IF sess[n] = Absent
       THEN UNCHANGED <<sess, net>>
       ELSE /\ net' = net \cup {[type |-> "data", from |-> n, x |-> sess[n].lx, seq |-> sess[n].seq,
                                 key |-> PacketKey({sess[n].lx, sess[n].rx}, sess[n].pq)]}
            /\ sess' = [sess EXCEPT ![n].seq = @ + 1]
    /\ UNCHANGED <<kem, made, delivered, faults>>

Accept(s, m, pq) ==
    [s EXCEPT !.rx = m.x, !.pq = pq, !.fallback = Absent,
              !.high = SlideHigh(s.high, m.seq), !.win = SlideWindow(s.high, s.win, m.seq)]

\* The candidate secret under which packet m authenticates: the primary first,
\* then the fallback; the one that works becomes the primary.
Opens(s, m) ==
    {pq \in {s.pq} \cup ({s.fallback} \ {Absent}) : m.key = PacketKey({s.lx, m.x}, pq)}

decrypt(n, m) ==
    /\ m.from = Peer(n)
    /\ IF sess[n] # Absent /\ Admits(sess[n].high, sess[n].win, m.seq) /\ Opens(sess[n], m) # {}
       THEN /\ sess' = [sess EXCEPT ![n] = Accept(@, m, CHOOSE pq \in Opens(@, m) : TRUE)]
            /\ delivered' = delivered (+) SetToBag({m})
       ELSE UNCHANGED <<sess, delivered>>
    /\ UNCHANGED <<kem, jobs, made, net, faults>>

-----------------------------------------------------------------------------
(* Rotations, removal, restart, loss. *)

\* rotate_session_keys: the old private key is gone at once.
rotate_local_key(n) ==
    /\ sess[n] # Absent /\ sess[n].established
    /\ sess[n].seq > 0 /\ sess[n].seq % RotateEvery = 0
    /\ made[n].rotated < MaxRotate
    /\ sess' = [sess EXCEPT ![n].lx = <<n, made[n].x + 1>>]
    /\ made' = [made EXCEPT ![n].x = @ + 1, ![n].rotated = @ + 1]
    /\ UNCHANGED <<kem, jobs, net, delivered, faults>>

\* No handshake begun with n's retired key is under way.
OverlapOver(n) ==
    \A m \in net : /\ m.type = "init" => m.ek # <<n, kem[n].prev>>
                   /\ m.type = "ack" => m.ct.ek # <<n, kem[n].prev>>

\* PqKeys::rotate_if_due, the rotation: the old decapsulation key is kept.  The
\* interval between rotations (24 hours) is longer than the overlap.
RotateKem(n) ==
    /\ made[n].kem < MaxKem
    /\ OverlapOver(n)
    /\ kem' = [kem EXCEPT ![n] = [dk |-> made[n].kem + 1, prev |-> kem[n].dk]]
    /\ made' = [made EXCEPT ![n].kem = @ + 1]
    /\ UNCHANGED <<sess, jobs, net, delivered, faults>>

\* PqKeys::rotate_if_due, the end of the overlap.  ML_KEM_KEY_OVERLAP_MS is a
\* minute, taken to outlast every handshake begun with the retired key.
DropPrev(n) ==
    /\ kem[n].prev # 0
    /\ OverlapOver(n)
    /\ kem' = [kem EXCEPT ![n].prev = 0]
    /\ UNCHANGED <<sess, jobs, made, net, delivered, faults>>

\* SessionManager::remove (the last act of remove_peer) or idle expiry.
Remove(n) ==
    /\ sess[n] # Absent
    /\ faults.removed < MaxRemove
    /\ sess' = [sess EXCEPT ![n] = Absent]
    /\ faults' = [faults EXCEPT !.removed = @ + 1]
    /\ UNCHANGED <<kem, jobs, made, net, delivered>>

\* The daemon restarts: sessions, queued payloads and ML-KEM keys are new.
Restart(n) ==
    /\ faults.removed < MaxRemove
    /\ sess' = [sess EXCEPT ![n] = Absent]
    /\ kem' = [kem EXCEPT ![n] = [dk |-> made[n].kem + 1, prev |-> 0]]
    /\ jobs' = [jobs EXCEPT ![n] = 0]
    /\ made' = [made EXCEPT ![n].kem = @ + 1]
    /\ faults' = [faults EXCEPT !.removed = @ + 1]
    /\ UNCHANGED <<net, delivered>>

Lose(m) ==
    /\ m.type # "data"
    /\ faults.lost < MaxLoss
    /\ net' = net \ {m}
    /\ faults' = [faults EXCEPT !.lost = @ + 1]
    /\ UNCHANGED <<sess, kem, jobs, made, delivered>>

Handle(n, m) == \/ m.type = "init" /\ handle_init(n, m)
                \/ m.type = "ack" /\ handle_ack(n, m)
                \/ m.type = "data" /\ decrypt(n, m)

Next ==
    \/ \E n \in Node : \/ Initiate(n) \/ Retransmit(n) \/ write_to(n) \/ encrypt_and_dispatch(n)
                       \/ rotate_local_key(n) \/ RotateKem(n) \/ DropPrev(n)
                       \/ Remove(n) \/ Restart(n)
    \/ \E n \in Node, m \in net : Handle(n, m)
    \/ \E m \in net : Lose(m)

Spec == Init /\ [][Next]_vars

\* The maintenance task ticks for ever and every frame still in the network is
\* read by the handler loop in the end.
Fairness == /\ \A n \in Node : WF_vars(Retransmit(n))
            /\ WF_vars(\E n \in Node, m \in net : m.type # "data" /\ Handle(n, m))

FairSpec == Spec /\ Fairness

-----------------------------------------------------------------------------
(* Properties. *)

Established(n) == sess[n] # Absent /\ sess[n].established

\* No handshake message is in flight.
Quiet == \A m \in net : m.type = "data"

Candidates(s) == {s.pq, s.fallback} \ {Absent}

\* Once the handshake messages are through and both sides count the session as
\* established, "both sides MUST derive the same pq_shared" (session.rs
\* 1834-1836): they hold a common ML-KEM secret, the primary or, within a key
\* rotation's overlap, the fallback.
SecretsConverge ==
    Quiet /\ (\A n \in Node : Established(n)) =>
        \A n \in Node : Candidates(sess[n]) \cap Candidates(sess[Peer(n)]) # {}

\* Nothing was lost, removed, retransmitted or rotated (ML-KEM keys excepted).
FaultFree == /\ faults = [lost |-> 0, removed |-> 0]
             /\ \A n \in Node : /\ sess[n] # Absent => sess[n].retx = 0
                                /\ made[n].rotated = 0

\* Crossing initiations converge in whatever order the two Inits and two Acks
\* are handled and wherever an ML-KEM rotation falls (the convergence rule of
\* session.rs 1115-1145 and 1187-1198): a common secret, and each side encrypts
\* to the X25519 key that the other holds.
CrossingConverges ==
    FaultFree /\ Quiet /\ (\A n \in Node : Established(n)) =>
        /\ SecretsConverge
        /\ \A n \in Node : sess[n].rx = sess[Peer(n)].lx

\* No packet is decrypted twice, although sessions are removed, set up again,
\* re-keyed and re-initiated while old packets are still about: the replay
\* window starts over only together with a new X25519 key (session.rs 459-554,
\* 1131-1154).
AtMostOnce == \A m \in BagToSet(delivered) : delivered[m] = 1

\* Whatever is decrypted was encrypted by the peer's session for this one: with
\* an ML-KEM secret in the key, and never under the placeholder key.
DeliveredKeyed ==
    \A m \in BagToSet(delivered) : m.key[2] # Absent /\ NoKey \notin m.key[1]

\* A started handshake ends: the session becomes established or is removed,
\* although handshake messages are lost (retransmission, session.rs 1272-1307).
HandshakeCompletes ==
    \A n \in Node : (sess[n] # Absent /\ ~sess[n].established) ~> (sess[n] = Absent \/ sess[n].established)

\* Some packet, in flight or still to be sent, gets through in some direction:
\* "The remote will see the new pub in subsequent packets and update its
\* state" (session.rs 413-414).
RatchetConnected ==
    Quiet /\ (\A n \in Node : Established(n) /\ jobs[n] = 0) =>
        \/ \E n \in Node : sess[n].rx = sess[Peer(n)].lx
        \/ \E n \in Node, m \in net : /\ m.from = Peer(n) /\ Opens(sess[n], m) # {}
                                      /\ Admits(sess[n].high, sess[n].win, m.seq)

\* encrypt_and_dispatch "assumes the session with dst is already established"
\* (router/mod.rs 1546): no packet is encrypted under the placeholder key.
EncryptsEstablished == \A m \in net : m.type = "data" => NoKey \notin m.key[1]

=============================================================================
