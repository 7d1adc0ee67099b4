-------------------------- MODULE ForwardingProofs --------------------------
(***************************************************************************)
(* Proofs about the links to the peers (PeerLinks) and about what is sent  *)
(* over them (Forwarding, CuckooGossip and Floods), for every mesh, any    *)
(* number of connections and dial tasks, every set of scenes and plans and *)
(* every value of the limits.                                              *)
(***************************************************************************)
EXTENDS PeerLinks, Forwarding, Floods, FiniteSetTheorems, WellFoundedInduction, TLAPS

Phases == {"closed", "handshake", "accepted", "waiting", "checking",
           "admitted", "entering", "running", "leaving", "held"}

LinksType ==
    /\ dialer \in [Slots -> Node]
    /\ phase \in [Slots -> [Node -> Phases]]
    /\ peer \in [Node -> [up : BOOLEAN, txs : SUBSET Slots]]
    /\ connected \in [Node -> Nat]
    /\ perip \in [Node -> Nat]

\* The connections that n's listener has accepted and whose task has not ended.
Accepted(n) == {l \in Slots : dialer[l] # n /\ phase[l][n] # "closed"}

\* The per-address count of the listener is the number of its tasks, and stays
\* within its limit (PerIpGuard).
PerIpExact ==
    \A n \in Node : perip[n] = Cardinality(Accepted(n)) /\ perip[n] <= MaxPerIp

\* A peer that is not in the table has no senders.
DownIsEmpty == \A n \in Node : ~peer[n].up => peer[n].txs = {}

LinksInv == LinksType /\ CountsLinks /\ SendersLive /\ PerIpExact /\ DownIsEmpty

-----------------------------------------------------------------------------

\* Adding a connection to a set of connections, or taking one out, moves the
\* size by one or not at all.
LEMMA Sizes ==
    ASSUME NEW S \in SUBSET Slots, NEW l \in Slots
    PROVE  /\ Cardinality(S) \in Nat
           /\ Cardinality(S \cup {l}) = IF l \in S THEN Cardinality(S) ELSE Cardinality(S) + 1
           /\ Cardinality(S \ {l}) = IF l \in S THEN Cardinality(S) - 1 ELSE Cardinality(S)
           /\ l \in S => Cardinality(S) > 0
<1>1. IsFiniteSet(S) /\ IsFiniteSet(S \cup {l})
  BY LinksAssumption, FS_Subset, FS_AddElement, Zenon
<1>2. Cardinality(S) \in Nat
  BY <1>1, FS_CardinalityType, Zenon
<1>3. Cardinality(S \cup {l}) = IF l \in S THEN Cardinality(S) ELSE Cardinality(S) + 1
  BY <1>1, FS_AddElement, Zenon
<1>4. /\ IsFiniteSet(S \ {l})
      /\ Cardinality(S \ {l}) = IF l \in S THEN Cardinality(S) - 1 ELSE Cardinality(S)
  BY <1>1, FS_RemoveElement, Zenon
<1>5. Cardinality(S \ {l}) \in Nat
  BY <1>4, FS_CardinalityType, Zenon
<1> QED BY <1>2, <1>3, <1>4, <1>5

LEMMA NoSize == Cardinality({}) = 0
BY FS_EmptySet, Zenon

\* The two nodes are each other's peers.
LEMMA PeerIsOther ==
    ASSUME NEW n \in Node
    PROVE  Peer(n) \in Node /\ Peer(n) # n /\ Node = {n, Peer(n)}
<1>1. /\ IsFiniteSet(Node \ {n}) /\ Cardinality(Node \ {n}) = 1
  BY LinksAssumption, FS_RemoveElement
<1>2. PICK p : Node \ {n} = {p}
  BY <1>1, FS_Singleton, Zenon
<1>3. Peer(n) = p
  BY <1>2 DEF Peer
<1> QED BY <1>2, <1>3, Zenon

-----------------------------------------------------------------------------

LEMMA InitLinksInv == Init => LinksInv
<1> SUFFICES ASSUME Init PROVE LinksInv
  BY Zenon
<1>1. Node # {}
  BY LinksAssumption, FS_EmptySet
<1>2. LinksType
  BY <1>1, Zenon DEF Init, LinksType, Phases
<1>3. \A n \in Node : Counted(n) = {} /\ Accepted(n) = {} /\ peer[n].txs = {}
  BY Zenon DEF Init, Counted, Accepted
<1>4. CountsLinks
  BY <1>3, NoSize, Zenon DEF Init, CountsLinks
<1>5. SendersLive
  BY <1>3, NoSize, LinksAssumption DEF SendersLive
<1>6. PerIpExact
  <2>1. MaxPerIp \in Nat
    BY LinksAssumption, Zenon
  <2>2. \A n \in Node : perip[n] = 0 /\ Cardinality(Accepted(n)) = 0
    BY <1>3, NoSize, Zenon DEF Init
  <2> QED BY <2>1, <2>2 DEF PerIpExact
<1> QED BY <1>2, <1>3, <1>4, <1>5, <1>6, Zenon DEF LinksInv, DownIsEmpty

\* What a step of n's task for l does to the sets that are counted.
LEMMA MoveChanges ==
    ASSUME LinksType, NEW l \in Slots, NEW n \in Node, NEW ph \in Phases,
           Move(l, n, ph), UNCHANGED dialer
    PROVE  /\ phase' \in [Slots -> [Node -> Phases]]
           /\ phase'[l][n] = ph
           /\ \A k \in Slots, m \in Node : k # l \/ m # n => phase'[k][m] = phase[k][m]
           /\ \A m \in Node \ {n} : Counted(m)' = Counted(m) /\ Accepted(m)' = Accepted(m)
           /\ Counted(n)' = IF ph \in {"entering", "running", "leaving"}
                            THEN Counted(n) \cup {l} ELSE Counted(n) \ {l}
           /\ Accepted(n)' = IF dialer[l] # n /\ ph # "closed"
                             THEN Accepted(n) \cup {l} ELSE Accepted(n) \ {l}
<1>1. /\ phase' \in [Slots -> [Node -> Phases]]
      /\ phase'[l][n] = ph
      /\ \A k \in Slots, m \in Node : k # l \/ m # n => phase'[k][m] = phase[k][m]
  BY Zenon DEF LinksType, Move
<1>2. \A m \in Node \ {n} : Counted(m)' = Counted(m) /\ Accepted(m)' = Accepted(m)
  BY <1>1, Zenon DEF Counted, Accepted
<1>3. Counted(n)' = IF ph \in {"entering", "running", "leaving"}
                    THEN Counted(n) \cup {l} ELSE Counted(n) \ {l}
  BY <1>1, Zenon DEF Counted
<1>4. Accepted(n)' = IF dialer[l] # n /\ ph # "closed"
                     THEN Accepted(n) \cup {l} ELSE Accepted(n) \ {l}
  BY <1>1, Zenon DEF Accepted
<1> QED BY <1>1, <1>2, <1>3, <1>4, Zenon

\* A step of one task that leaves the peer table alone and keeps both counts.
LEMMA QuietMove ==
    ASSUME LinksInv, NEW l \in Slots, NEW n \in Node, NEW ph \in Phases,
           Move(l, n, ph), UNCHANGED <<dialer, peer, connected, perip>>,
           phase[l][n] \notin {"closed", "running"}, ph # "closed",
           phase[l][n] \in {"entering", "leaving"} <=> ph \in {"entering", "running", "leaving"}
    PROVE  LinksInv'
<1> USE DEF LinksInv, LinksType
<1>0. Counted(n)' = Counted(n) /\ Accepted(n)' = Accepted(n)
  BY MoveChanges DEF Counted, Accepted
<1>1. \A m \in Node : Counted(m)' = Counted(m) /\ Accepted(m)' = Accepted(m)
  BY <1>0, MoveChanges, Zenon
<1>2. CountsLinks'
  BY <1>1, Zenon DEF CountsLinks
<1>3. SendersLive'
  BY MoveChanges DEF SendersLive
<1>4. PerIpExact' /\ DownIsEmpty'
  BY <1>1, Zenon DEF PerIpExact, DownIsEmpty
<1> QED BY <1>2, <1>3, <1>4, MoveChanges, Zenon


\* A task that ends gives back its count once, if a listener's task it is.
LEMMA EndCounts ==
    ASSUME LinksInv, NEW l \in Slots, NEW n \in Node, End(l, n), UNCHANGED dialer,
           phase[l][n] # "closed"
    PROVE  perip' \in [Node -> Nat] /\ PerIpExact'
<1> USE DEF LinksInv, LinksType
<1>1. Move(l, n, "closed") /\ "closed" \in Phases
  BY Zenon DEF End, Phases
<1>2. /\ Accepted(n)' = Accepted(n) \ {l}
      /\ \A m \in Node \ {n} : Accepted(m)' = Accepted(m)
  BY <1>1, MoveChanges, Zenon
<1>3. Accepted(n) \in SUBSET Slots /\ (l \in Accepted(n) <=> dialer[l] # n)
  BY Zenon DEF Accepted
<1>4. /\ Cardinality(Accepted(n)) \in Nat
      /\ Cardinality(Accepted(n)') = IF dialer[l] # n THEN Cardinality(Accepted(n)) - 1
                                     ELSE Cardinality(Accepted(n))
      /\ dialer[l] # n => Cardinality(Accepted(n)) > 0
  <2> DEFINE S == Accepted(n)
  <2>1. /\ Cardinality(S) \in Nat
        /\ Cardinality(S \ {l}) = IF l \in S THEN Cardinality(S) - 1 ELSE Cardinality(S)
        /\ l \in S => Cardinality(S) > 0
    BY <1>3, Sizes, Zenon
  <2> HIDE DEF S
  <2> QED BY <1>2, <1>3, <2>1, Zenon DEF S
<1>5. /\ perip' \in [Node -> Nat]
      /\ perip'[n] = IF dialer[l] # n THEN perip[n] - 1 ELSE perip[n]
      /\ \A m \in Node \ {n} : perip'[m] = perip[m]
  BY <1>4 DEF End, PerIpExact
<1>6. MaxPerIp \in Nat
  BY LinksAssumption, Zenon
<1>7. perip'[n] = Cardinality(Accepted(n)') /\ perip'[n] <= MaxPerIp
  BY <1>4, <1>5, <1>6 DEF PerIpExact
<1>8. \A m \in Node \ {n} : perip'[m] = Cardinality(Accepted(m)') /\ perip'[m] <= MaxPerIp
  BY <1>2, <1>5, Zenon DEF PerIpExact
<1> QED BY <1>5, <1>7, <1>8, Zenon DEF PerIpExact

\* A task that ends before it is counted as a link keeps the invariant.
LEMMA EarlyEnd ==
    ASSUME LinksInv, NEW l \in Slots, NEW n \in Node, End(l, n),
           UNCHANGED <<dialer, peer, connected>>,
           phase[l][n] \notin {"closed", "entering", "running", "leaving"}
    PROVE  LinksInv'
<1> USE DEF LinksInv, LinksType
<1>1. Move(l, n, "closed") /\ "closed" \in Phases
  BY Zenon DEF End, Phases
<1>2. PerIpExact' /\ perip' \in [Node -> Nat]
  BY EndCounts, Zenon
<1>3. Counted(n)' = Counted(n)
  BY <1>1, MoveChanges DEF Counted
<1>4. \A m \in Node : Counted(m)' = Counted(m)
  BY <1>1, <1>3, MoveChanges, Zenon
<1>5. CountsLinks'
  BY <1>4, Zenon DEF CountsLinks
<1>6. SendersLive' /\ DownIsEmpty'
  <2>1. \A m \in Node : \A k \in peer[m].txs : k \in Slots /\ phase[k][m] = "running"
    BY Zenon DEF SendersLive
  <2>a. \A k \in Slots, m \in Node : k # l \/ m # n => phase'[k][m] = phase[k][m]
    BY <1>1, MoveChanges
  <2>b. phase[l][n] # "running"
    BY <1>1, Zenon
  <2>2. \A m \in Node : \A k \in peer[m].txs : phase'[k][m] = "running"
    BY <2>1, <2>a, <2>b, Zenon
  <2>3. peer' = peer
    BY <1>1, Zenon
  <2> QED BY <2>2, <2>3, Zenon DEF SendersLive, DownIsEmpty
<1> QED BY <1>1, <1>2, <1>5, <1>6, MoveChanges, Zenon

\* A task that is counted as a link as it enters handle_conn.
LEMMA CountIn ==
    ASSUME LinksInv, NEW l \in Slots, NEW n \in Node, Move(l, n, "entering"),
           connected' = [connected EXCEPT ![n] = @ + 1],
           UNCHANGED <<dialer, peer, perip>>,
           phase[l][n] \in {"accepted", "admitted"}
    PROVE  LinksInv'
<1> USE DEF LinksInv, LinksType
<1>1. "entering" \in Phases
  BY Zenon DEF Phases
<1>2. /\ Counted(n)' = Counted(n) \cup {l}
      /\ \A m \in Node \ {n} : Counted(m)' = Counted(m)
  BY <1>1, MoveChanges, Zenon
<1>3. Counted(n) \in SUBSET Slots /\ l \notin Counted(n)
  BY Zenon DEF Counted
<1>4. Cardinality(Counted(n)') = Cardinality(Counted(n)) + 1
  BY <1>2, <1>3, Sizes, Zenon
<1>5. CountsLinks'
  BY <1>2, <1>4, Zenon DEF CountsLinks
<1>6. Accepted(n)' = Accepted(n)
  BY <1>1, MoveChanges, Zenon DEF Accepted
<1>7. \A m \in Node : Accepted(m)' = Accepted(m)
  BY <1>1, <1>6, MoveChanges, Zenon
<1>8. PerIpExact'
  BY <1>7, Zenon DEF PerIpExact
<1>9. SendersLive' /\ DownIsEmpty'
  <2>1. \A m \in Node : \A k \in peer[m].txs : k \in Slots /\ phase[k][m] = "running"
    BY Zenon DEF SendersLive
  <2>a. \A k \in Slots, m \in Node : k # l \/ m # n => phase'[k][m] = phase[k][m]
    BY <1>1, MoveChanges, Zenon
  <2>b. phase[l][n] # "running"
    BY <1>1, Zenon
  <2>2. \A m \in Node : \A k \in peer[m].txs : phase'[k][m] = "running"
    BY <2>1, <2>a, <2>b, Zenon
  <2>3. peer' = peer
    BY <1>1, Zenon
  <2> QED BY <2>2, <2>3, Zenon DEF SendersLive, DownIsEmpty
<1> QED BY <1>1, <1>5, <1>8, <1>9, MoveChanges

LEMMA LeaveKeepsInv ==
    ASSUME LinksInv, NEW l \in Slots, NEW n \in Node, Leave(l, n)
    PROVE  LinksInv'
<1> USE DEF LinksInv, LinksType
<1>1. /\ Move(l, n, "closed") /\ "closed" \in Phases /\ End(l, n)
      /\ UNCHANGED <<dialer, peer>> /\ phase[l][n] = "leaving"
      /\ connected' = [connected EXCEPT ![n] = IF @ > 0 THEN @ - 1 ELSE 0]
  BY Zenon DEF Leave, End, Phases
<1>2. PerIpExact' /\ perip' \in [Node -> Nat]
  BY <1>1, EndCounts, Zenon
<1>3. /\ Counted(n)' = Counted(n) \ {l}
      /\ \A m \in Node \ {n} : Counted(m)' = Counted(m)
  BY <1>1, MoveChanges, Zenon
<1>4. Counted(n) \in SUBSET Slots /\ l \in Counted(n)
  BY <1>1, Zenon DEF Counted
<1>5. Cardinality(Counted(n)') = Cardinality(Counted(n)) - 1 /\ Cardinality(Counted(n)) > 0
  <2>1. /\ Cardinality(Counted(n) \ {l}) = Cardinality(Counted(n)) - 1
        /\ Cardinality(Counted(n)) > 0
    BY ONLY <1>4, l \in Slots, Sizes, Zenon
  <2> QED BY ONLY <1>3, <2>1, Zenon
<1>6. /\ connected' \in [Node -> Nat] /\ connected'[n] = connected[n] - 1
      /\ \A m \in Node \ {n} : connected'[m] = connected[m]
  BY <1>1, <1>5 DEF CountsLinks
<1>7. CountsLinks'
  BY <1>3, <1>5, <1>6, Zenon DEF CountsLinks
<1>8. SendersLive' /\ DownIsEmpty'
  <2>1. \A m \in Node : \A k \in peer[m].txs : k \in Slots /\ phase[k][m] = "running"
    BY Zenon DEF SendersLive
  <2>a. \A k \in Slots, m \in Node : k # l \/ m # n => phase'[k][m] = phase[k][m]
    BY <1>1, MoveChanges
  <2>b. phase[l][n] # "running"
    BY <1>1, Zenon
  <2>2. \A m \in Node : \A k \in peer[m].txs : phase'[k][m] = "running"
    BY <2>1, <2>a, <2>b, Zenon
  <2>3. peer' = peer
    BY <1>1, Zenon
  <2> QED BY <2>2, <2>3, Zenon DEF SendersLive, DownIsEmpty
<1> QED BY <1>1, <1>2, <1>6, <1>7, <1>8, MoveChanges, Zenon


\* The counts do not move while a task is inside handle_conn.
LEMMA InsideCounts ==
    ASSUME LinksInv, NEW l \in Slots, NEW n \in Node, NEW ph \in {"running", "leaving"},
           Move(l, n, ph), UNCHANGED <<dialer, connected, perip>>,
           phase[l][n] \in {"entering", "running"}
    PROVE  CountsLinks' /\ PerIpExact'
<1> USE DEF LinksInv, LinksType
<1>1. ph \in Phases
  BY Zenon DEF Phases
<1>2. Counted(n)' = Counted(n) /\ Accepted(n)' = Accepted(n)
  BY <1>1, MoveChanges DEF Counted, Accepted
<1>3. \A m \in Node : Counted(m)' = Counted(m) /\ Accepted(m)' = Accepted(m)
  BY <1>1, <1>2, MoveChanges, Zenon
<1> QED BY <1>3, Zenon DEF CountsLinks, PerIpExact

\* add_peer keeps within the cap, also when a stale check has let in too many.
LEMMA AddPeerBounded ==
    ASSUME NEW p \in [up : BOOLEAN, txs : SUBSET Slots], NEW l \in Slots,
           Cardinality(p.txs) <= MaxLinks, ~p.up => p.txs = {}
    PROVE  /\ AddPeer(p, l) \in [up : BOOLEAN, txs : SUBSET Slots]
           /\ AddPeer(p, l).up
           /\ Cardinality(AddPeer(p, l).txs) <= MaxLinks
           /\ AddPeer(p, l).txs \subseteq p.txs \cup {l}
<1>0. MaxLinks \in Nat /\ MaxLinks > 0
  BY LinksAssumption
<1>1. CASE p.up /\ Cardinality(p.txs) >= MaxLinks
  BY <1>1, Zenon DEF AddPeer
<1>2. CASE ~(p.up /\ Cardinality(p.txs) >= MaxLinks)
  <2>1. AddPeer(p, l) = [up |-> TRUE, txs |-> p.txs \cup {l}]
    BY <1>2, Zenon DEF AddPeer
  <2> DEFINE S == p.txs
             T == S \cup {l}
  <2>a. S \in SUBSET Slots
    BY Zenon
  <2> HIDE DEF S
  <2>b. /\ Cardinality(S) \in Nat
        /\ Cardinality(T) = IF l \in S THEN Cardinality(S) ELSE Cardinality(S) + 1
    BY <2>a, Sizes, Zenon
  <2>2. Cardinality(S) \in Nat /\ Cardinality(T) \in Nat /\ Cardinality(T) <= Cardinality(S) + 1
    BY <2>b
  <2>3. Cardinality(S) < MaxLinks
    BY <1>0, <1>2, <2>2, NoSize DEF S
  <2>4. Cardinality(T) <= MaxLinks
    BY <1>0, <2>2, <2>3
  <2>5. T \in SUBSET Slots /\ AddPeer(p, l) = [up |-> TRUE, txs |-> T] /\ T \subseteq p.txs \cup {l}
    BY <2>1, <2>a, Zenon DEF S
  <2> HIDE DEF T
  <2> QED BY <2>4, <2>5
<1> QED BY <1>1, <1>2, Zenon

LEMMA EnterKeepsInv ==
    ASSUME LinksInv, NEW l \in Slots, NEW n \in Node, Enter(l, n)
    PROVE  LinksInv'
<1> USE DEF LinksInv, LinksType
<1>1. /\ Move(l, n, "running") /\ "running" \in Phases /\ phase[l][n] = "entering"
      /\ peer' = [peer EXCEPT ![n] = AddPeer(@, l)]
      /\ UNCHANGED <<dialer, connected, perip>>
  BY Zenon DEF Enter, Phases
<1>2. CountsLinks' /\ PerIpExact'
  BY <1>1, InsideCounts, Zenon
<1>3. /\ AddPeer(peer[n], l) \in [up : BOOLEAN, txs : SUBSET Slots]
      /\ AddPeer(peer[n], l).up
      /\ Cardinality(AddPeer(peer[n], l).txs) <= MaxLinks
      /\ AddPeer(peer[n], l).txs \subseteq peer[n].txs \cup {l}
  <2>1. /\ peer[n] \in [up : BOOLEAN, txs : SUBSET Slots]
        /\ Cardinality(peer[n].txs) <= MaxLinks /\ (~peer[n].up => peer[n].txs = {})
    BY Zenon DEF SendersLive, DownIsEmpty
  <2> QED BY <2>1, AddPeerBounded, Zenon
<1>4. /\ peer' \in [Node -> [up : BOOLEAN, txs : SUBSET Slots]]
      /\ peer'[n] = AddPeer(peer[n], l)
      /\ \A m \in Node \ {n} : peer'[m] = peer[m]
  BY <1>1, <1>3, Zenon
<1>5. /\ phase'[l][n] = "running"
      /\ \A k \in Slots, m \in Node : phase[k][m] = "running" => phase'[k][m] = "running"
  BY <1>1, MoveChanges
<1>6. \A m \in Node : \A k \in peer[m].txs : k \in Slots /\ phase[k][m] = "running"
  BY Zenon DEF SendersLive
<1>7. ASSUME NEW m \in Node, NEW k \in peer'[m].txs PROVE phase'[k][m] = "running"
  <2>1. CASE m # n
    BY <1>4, <1>5, <1>6, <1>7, <2>1, Zenon
  <2>2. CASE m = n
    <3>1. k \in peer[n].txs \/ k = l
      BY <1>3, <1>4, <1>7, <2>2, Zenon
    <3> QED BY <1>5, <1>6, <2>2, <3>1, Zenon
  <2> QED BY <2>1, <2>2, Zenon
<1>8. SendersLive' /\ DownIsEmpty'
  BY <1>3, <1>4, <1>7, Zenon DEF SendersLive, DownIsEmpty
<1> QED BY <1>1, <1>2, <1>4, <1>8, MoveChanges, Zenon

\* The whole peer goes with the first of its links to fail.
LEMMA ReadErrorKeepsInv ==
    ASSUME LinksInv, NEW l \in Slots, NEW n \in Node, ReadError(l, n)
    PROVE  LinksInv'
<1> USE DEF LinksInv, LinksType
<1>1. /\ Move(l, n, "leaving") /\ "leaving" \in Phases /\ phase[l][n] = "running"
      /\ peer' = [peer EXCEPT ![n] = RemovePeer]
      /\ UNCHANGED <<dialer, connected, perip>>
  BY Zenon DEF ReadError, Phases
<1>2. CountsLinks' /\ PerIpExact'
  BY <1>1, InsideCounts, Zenon
<1>3. /\ peer' \in [Node -> [up : BOOLEAN, txs : SUBSET Slots]]
      /\ peer'[n].txs = {}
      /\ \A m \in Node \ {n} : peer'[m] = peer[m]
  BY <1>1, Zenon DEF RemovePeer
<1>4. \A k \in Slots : \A m \in Node \ {n} : phase'[k][m] = phase[k][m]
  BY <1>1, MoveChanges
<1>5. \A m \in Node : \A k \in peer[m].txs : k \in Slots /\ phase[k][m] = "running"
  BY Zenon DEF SendersLive
<1>6. ASSUME NEW m \in Node
      PROVE  /\ Cardinality(peer'[m].txs) <= MaxLinks
             /\ \A k \in peer'[m].txs : phase'[k][m] = "running"
             /\ ~peer'[m].up => peer'[m].txs = {}
  <2>1. CASE m # n
    BY <1>3, <1>4, <1>5, <2>1 DEF SendersLive, DownIsEmpty
  <2>2. CASE m = n
    <3>1. MaxLinks \in Nat /\ Cardinality(peer'[n].txs) = 0
      BY <1>3, NoSize, LinksAssumption, Zenon
    <3>2. Cardinality(peer'[n].txs) <= MaxLinks
      BY <3>1
    <3> QED BY <1>3, <2>2, <3>2, Zenon
  <2> QED BY <2>1, <2>2, Zenon
<1>7. SendersLive' /\ DownIsEmpty'
  BY <1>6, Zenon DEF SendersLive, DownIsEmpty
<1> QED BY <1>1, <1>2, <1>3, <1>7, MoveChanges, Zenon

\* A step that only takes senders out of the table.
LEMMA FewerSenders ==
    ASSUME LinksInv, NEW n \in Node, NEW p \in [up : BOOLEAN, txs : SUBSET Slots],
           peer' = [peer EXCEPT ![n] = p], p.txs \subseteq peer[n].txs,
           Cardinality(p.txs) <= MaxLinks, ~p.up => p.txs = {},
           UNCHANGED <<dialer, phase, connected, perip>>
    PROVE  LinksInv'
<1> USE DEF LinksInv, LinksType
<1>1. /\ peer' \in [Node -> [up : BOOLEAN, txs : SUBSET Slots]] /\ peer'[n] = p
      /\ \A m \in Node \ {n} : peer'[m] = peer[m]
  BY Zenon
<1>2. \A m \in Node : Counted(m)' = Counted(m) /\ Accepted(m)' = Accepted(m)
  BY Zenon DEF Counted, Accepted
<1>3. CountsLinks' /\ PerIpExact'
  BY <1>2, Zenon DEF CountsLinks, PerIpExact
<1>4. SendersLive' /\ DownIsEmpty'
  BY <1>1, Zenon DEF SendersLive, DownIsEmpty
<1> QED BY <1>1, <1>3, <1>4, Zenon


\* A connection in the listener's hands counts against its address, a dropped
\* socket does not.
LEMMA ConnectKeepsInv ==
    ASSUME LinksInv, NEW l \in Slots, NEW n \in Node, Connect(n, l)
    PROVE  LinksInv'
<1> USE DEF LinksInv, LinksType
<1> DEFINE p == Peer(n)
           ok == Cardinality(Handshaking(p)) < MaxPending /\ perip[p] < MaxPerIp
<1>1. p \in Node /\ p # n /\ Node = {n, p}
  BY PeerIsOther, Zenon
<1>2. /\ Free(l) /\ UNCHANGED <<peer, connected>>
      /\ dialer' = [dialer EXCEPT ![l] = n]
      /\ phase' = [phase EXCEPT ![l] =
                     [m \in Node |-> IF m = n \/ ok THEN "handshake" ELSE "closed"]]
      /\ perip' = IF ok THEN [perip EXCEPT ![p] = @ + 1] ELSE perip
  BY Zenon DEF Connect
<1>3. ok \in BOOLEAN /\ (ok => perip[p] < MaxPerIp)
  BY Zenon
<1> HIDE DEF ok, p
<1>4. /\ dialer' \in [Slots -> Node] /\ phase' \in [Slots -> [Node -> Phases]]
      /\ perip' \in [Node -> Nat] /\ dialer'[l] = n
      /\ phase'[l][n] = "handshake" /\ phase'[l][p] = IF ok THEN "handshake" ELSE "closed"
      /\ \A k \in Slots \ {l} : phase'[k] = phase[k] /\ dialer'[k] = dialer[k]
  BY <1>1, <1>2, <1>3 DEF Phases
<1>5. \A m \in Node : phase[l][m] = "closed" /\ phase'[l][m] \in {"handshake", "closed"}
  BY <1>1, <1>2, <1>4, Zenon DEF Free
<1>6. \A m \in Node : Counted(m)' = Counted(m)
  <2> SUFFICES ASSUME NEW m \in Node PROVE Counted(m)' = Counted(m)
    BY Zenon
  <2>1. ASSUME NEW k \in Slots \ {l} PROVE phase'[k][m] = phase[k][m]
    BY <1>4, Zenon
  <2>2. phase[l][m] = "closed" /\ phase'[l][m] \in {"handshake", "closed"}
    BY <1>5, Zenon
  <2> QED BY ONLY <2>1, <2>2, Zenon DEF Counted
<1>7. /\ Accepted(n)' = Accepted(n)
      /\ Accepted(p)' = IF ok THEN Accepted(p) \cup {l} ELSE Accepted(p)
  BY <1>1, <1>4, <1>5 DEF Accepted
<1>8. CountsLinks'
  BY <1>2, <1>6, Zenon DEF CountsLinks
<1>9. \A m \in Node : \A k \in peer[m].txs : k \in Slots /\ phase[k][m] = "running"
  BY Zenon DEF SendersLive
<1>10. \A m \in Node : \A k \in peer[m].txs : phase'[k][m] = "running"
  BY <1>4, <1>5, <1>9
<1>11. SendersLive' /\ DownIsEmpty'
  BY <1>2, <1>10, Zenon DEF SendersLive, DownIsEmpty
<1>12. PerIpExact'
  <2>1. perip'[n] = Cardinality(Accepted(n)') /\ perip'[n] <= MaxPerIp
    BY <1>1, <1>2, <1>7, Zenon DEF PerIpExact
  <2>2. Accepted(p) \in SUBSET Slots /\ l \notin Accepted(p)
    BY <1>1, <1>5, Zenon DEF Accepted
  <2>3. Cardinality(Accepted(p) \cup {l}) = Cardinality(Accepted(p)) + 1
    BY <2>2, Sizes, Zenon
  <2>4. perip'[p] = Cardinality(Accepted(p)') /\ perip'[p] <= MaxPerIp
    <3>1. MaxPerIp \in Nat
      BY LinksAssumption, Zenon
    <3>2. perip[p] \in Nat /\ perip[p] = Cardinality(Accepted(p)) /\ perip[p] <= MaxPerIp
      BY <1>1, Zenon DEF PerIpExact
    <3>3. CASE ok
      BY <1>1, <1>2, <1>3, <1>7, <2>3, <3>1, <3>2, <3>3
    <3>4. CASE ~ok
      BY <1>1, <1>2, <1>7, <3>2, <3>4, Zenon
    <3> QED BY <3>3, <3>4, Zenon
  <2> QED BY <1>1, <2>1, <2>4, Zenon DEF PerIpExact
<1> QED BY <1>2, <1>4, <1>8, <1>11, <1>12, Zenon

\* Two handshakes that succeed together are no links yet.
LEMMA HandshakeKeepsInv ==
    ASSUME LinksInv, NEW l \in Slots, HandshakeDone(l)
    PROVE  LinksInv'
<1> USE DEF LinksInv, LinksType
<1>1. /\ \A m \in Node : phase[l][m] = "handshake" /\ phase'[l][m] \in {"accepted", "waiting", "checking"}
      /\ phase' \in [Slots -> [Node -> Phases]]
      /\ \A k \in Slots \ {l} : phase'[k] = phase[k]
      /\ UNCHANGED <<dialer, peer, connected, perip>>
  BY Zenon DEF HandshakeDone, Phases
<1>2. \A m \in Node : Counted(m)' = Counted(m) /\ Accepted(m)' = Accepted(m)
  BY <1>1, Zenon DEF Counted, Accepted
<1>3. CountsLinks' /\ PerIpExact'
  BY <1>1, <1>2, Zenon DEF CountsLinks, PerIpExact
<1>4. \A m \in Node : \A k \in peer[m].txs : k \in Slots /\ phase[k][m] = "running"
  BY Zenon DEF SendersLive
<1>5. \A m \in Node : \A k \in peer[m].txs : phase'[k][m] = "running"
  BY <1>1, <1>4
<1>6. SendersLive' /\ DownIsEmpty'
  BY <1>1, <1>5, Zenon DEF SendersLive, DownIsEmpty
<1> QED BY <1>1, <1>3, <1>6, Zenon

\* A step that touches nothing the invariant speaks of.
LEMMA OutsideKeepsInv ==
    ASSUME LinksInv, UNCHANGED <<dialer, phase, peer, connected, perip>>
    PROVE  LinksInv'
<1>1. \A m \in Node : Counted(m)' = Counted(m) /\ Accepted(m)' = Accepted(m)
  BY Zenon DEF Counted, Accepted
<1> QED BY <1>1, Zenon DEF LinksInv, LinksType, CountsLinks, SendersLive, PerIpExact, DownIsEmpty

LEMMA EndStepKeepsInv ==
    ASSUME LinksInv, NEW l \in Slots, NEW n \in Node, EndStep(l, n)
    PROVE  LinksInv'
<1>1. CASE HandshakeFailed(l, n)
  BY <1>1, EarlyEnd, Zenon DEF HandshakeFailed
<1>2. CASE AcceptCap(l, n)
  <2>1. CASE connected[n] >= MaxLinks
    BY <1>2, <2>1, EarlyEnd, Zenon DEF AcceptCap
  <2>2. CASE ~(connected[n] >= MaxLinks)
    BY <1>2, <2>2, CountIn, Zenon DEF AcceptCap
  <2> QED BY <2>1, <2>2, Zenon
<1>3. CASE TieBreak(l, n)
  BY <1>3, QuietMove, Zenon DEF TieBreak, Phases
<1>4. CASE CapCheck(l, n)
  BY <1>4, QuietMove, Zenon DEF CapCheck, Phases
<1>5. CASE Admit(l, n)
  BY <1>5, CountIn, Zenon DEF Admit
<1>6. CASE Release(l, n)
  BY <1>6, EarlyEnd, Zenon DEF Release
<1> QED BY <1>1, <1>2, <1>3, <1>4, <1>5, <1>6,
           EnterKeepsInv, ReadErrorKeepsInv, LeaveKeepsInv, Zenon DEF EndStep


LEMMA NextLinksInv == LinksInv /\ [Next]_vars => LinksInv'
<1> SUFFICES ASSUME LinksInv, [Next]_vars PROVE LinksInv'
  BY Zenon
<1>1. ASSUME NEW l \in Slots, NEW n \in Node, SweepClosed(l, n) PROVE LinksInv'
  <2> DEFINE p == [peer[n] EXCEPT !.txs = @ \ {l}]
  <2>0. peer[n] \in [up : BOOLEAN, txs : SUBSET Slots]
    BY Zenon DEF LinksInv, LinksType
  <2>1. peer[n].txs \ {l} \in SUBSET Slots
    BY <2>0, Zenon
  <2>2. p \in [up : BOOLEAN, txs : SUBSET Slots]
    BY <2>0, <2>1, Zenon
  <2>3. p.up = peer[n].up /\ p.txs = peer[n].txs \ {l}
    BY <2>0, Zenon
  <2>4. peer' = [peer EXCEPT ![n] = p] /\ UNCHANGED <<dialer, phase, connected, perip>>
    BY <1>1, Zenon DEF SweepClosed
  <2> HIDE DEF p
  <2>5. Cardinality(p.txs) <= MaxLinks
    <3> DEFINE S == peer[n].txs
    <3>1. S \in SUBSET Slots /\ Cardinality(S) <= MaxLinks /\ MaxLinks \in Nat
      BY <2>0, LinksAssumption, Zenon DEF LinksInv, SendersLive
    <3> HIDE DEF S
    <3>2. /\ Cardinality(S) \in Nat
          /\ Cardinality(S \ {l}) = IF l \in S THEN Cardinality(S) - 1 ELSE Cardinality(S)
      BY <3>1, Sizes, Zenon
    <3>3. Cardinality(S \ {l}) <= MaxLinks
      BY <3>1, <3>2
    <3> QED BY <2>3, <3>3, Zenon DEF S
  <2>6. ~p.up => p.txs = {}
    BY <2>3, Zenon DEF LinksInv, DownIsEmpty
  <2> QED BY <2>2, <2>3, <2>4, <2>5, <2>6, FewerSenders, Zenon
<1>2. ASSUME NEW n \in Node, expire_peers(n) PROVE LinksInv'
  <2> DEFINE p == RemovePeer
  <2>1. p \in [up : BOOLEAN, txs : SUBSET Slots] /\ p.txs = {}
    BY Zenon DEF RemovePeer
  <2>2. peer' = [peer EXCEPT ![n] = p] /\ UNCHANGED <<dialer, phase, connected, perip>>
    BY <1>2, Zenon DEF expire_peers
  <2>3. Cardinality(p.txs) <= MaxLinks
    <3>1. MaxLinks \in Nat /\ Cardinality(p.txs) = 0
      BY <2>1, NoSize, LinksAssumption, Zenon
    <3> QED BY <3>1
  <2> HIDE DEF p
  <2> QED BY <2>1, <2>2, <2>3, FewerSenders, Zenon
<1>3. ASSUME NEW l \in Slots, Break(l) PROVE LinksInv'
  BY <1>3, OutsideKeepsInv, Zenon DEF Break
<1>4. CASE UNCHANGED vars
  BY <1>4, OutsideKeepsInv, Zenon DEF vars
<1> QED BY <1>1, <1>2, <1>3, <1>4, ConnectKeepsInv, HandshakeKeepsInv, EndStepKeepsInv, Zenon
        DEF Next

LEMMA LinksInvHolds == Spec => []LinksInv
BY InitLinksInv, NextLinksInv, PTL DEF Spec

\* `connected' counts the handle_conn tasks at every moment: it neither leaks
\* nor loses a link, for any number of connections and dial tasks, and its
\* saturating decrement never saturates (transport.rs 438-466, 621-641).
THEOREM ConnectedCountsLinks == Spec => []CountsLinks
<1>1. LinksInv => CountsLinks
  BY Zenon DEF LinksInv
<1> QED BY <1>1, LinksInvHolds, PTL

\* Every sender in the peer table belongs to a connection still in handle_conn,
\* and there are at most MAX_PARALLEL_LINKS_PER_PEER of them, although the
\* count that dial_inner checks may be stale (add_peer, transport.rs 608-624).
THEOREM SendersAreLive == Spec => []SendersLive
<1>1. LinksInv => SendersLive
  BY Zenon DEF LinksInv
<1> QED BY <1>1, LinksInvHolds, PTL

\* The listener's per-address count is the number of its tasks for the address
\* and never passes MAX_PER_IP_HANDSHAKES: PerIpGuard gives each count back
\* once, on every path out of the task (transport.rs 69-85, 360-385).
THEOREM PerIpCountExact == Spec => []PerIpExact
<1>1. LinksInv => PerIpExact
  BY Zenon DEF LinksInv
<1> QED BY <1>1, LinksInvHolds, PTL

-----------------------------------------------------------------------------
(* Where one node dials: a link that both ends use is kept.                *)

\* What the dialling end of a link is doing, and the end that accepted it.
EndsAgree(far, near) ==
    \/ far = "closed" /\ near = "closed"
    \/ far = "handshake" /\ near \in {"handshake", "closed"}
    \/ /\ far \in {"waiting", "checking", "admitted", "entering", "running"}
       /\ near \in {"accepted", "entering", "running"}

\* Only d dials, with no more tasks than a peer may have links (and with one if it has to wait for
\* the other's dial); the ends of every link agree, and both have a sender where they read.
Steady(d) ==
    /\ dials[Peer(d)] = 0 /\ dials[d] \in 0 .. MaxLinks /\ (d > Peer(d) => dials[d] <= 1)
    /\ Cardinality(Dialled(d)) <= dials[d]
    /\ \A l \in Slots :
          /\ EndsAgree(phase[l][d], phase[l][Peer(d)])
          /\ phase[l][d] = "waiting" => d > Peer(d)
          /\ phase[l][d] # "closed" => dialer[l] = d /\ l \notin broken
          /\ \A n \in Node : phase[l][n] = "running" => l \in peer[n].txs

\* The other links of a dial task's node, or of its peer, are fewer than its dial tasks.
LEMMA RoomLeft ==
    ASSUME NEW d \in Node, Steady(d), NEW l \in Slots, phase[l][d] # "closed",
           NEW S \in SUBSET Slots, l \notin S, \A k \in S : phase[k][d] # "closed"
    PROVE  Cardinality(S) \in Nat /\ Cardinality(S) < dials[d] /\ dials[d] <= MaxLinks
<1>1. Dialled(d) \in SUBSET Slots /\ S \cup {l} \in SUBSET Dialled(d)
  BY Zenon DEF Steady, Dialled
<1>2. IsFiniteSet(Dialled(d))
  BY <1>1, LinksAssumption, FS_Subset, Zenon
<1>3. Cardinality(S \cup {l}) <= Cardinality(Dialled(d)) /\ Cardinality(Dialled(d)) \in Nat
  BY <1>1, <1>2, FS_Subset, FS_CardinalityType, Zenon
<1>4. Cardinality(S) \in Nat /\ Cardinality(S \cup {l}) = Cardinality(S) + 1
  BY Sizes, Zenon
<1>5. dials[d] \in 0 .. MaxLinks /\ Cardinality(Dialled(d)) <= dials[d] /\ MaxLinks \in Nat
  BY LinksAssumption, Zenon DEF Steady
<1> QED BY <1>3, <1>4, <1>5

\* A step of one task between two phases in which the ends agree.
LEMMA SteadyMove ==
    ASSUME LinksInv, NEW d \in Node, Steady(d), NEW l \in Slots, NEW n \in Node, NEW ph \in Phases,
           Move(l, n, ph), UNCHANGED <<dials, dialer, broken>>,
           phase[l][n] # "running", phase[l][d] # "closed",
           EndsAgree(phase'[l][d], phase'[l][Peer(d)]),
           phase'[l][d] = "waiting" => d > Peer(d),
           \A m \in Node : peer[m].txs \subseteq peer'[m].txs,
           ph = "running" => l \in peer'[n].txs
    PROVE  Steady(d)' /\ \A k \in Slots : Usable(k) => Usable(k)'
<1>0. LinksType /\ Peer(d) \in Node
  BY PeerIsOther, Zenon DEF LinksInv
<1>1. /\ phase'[l][n] = ph
      /\ \A k \in Slots, m \in Node : k # l \/ m # n => phase'[k][m] = phase[k][m]
  BY <1>0, MoveChanges
<1>2. Cardinality(Dialled(d)') <= dials[d]
  <2>1. Dialled(d) \in SUBSET Slots /\ Dialled(d)' \in SUBSET Dialled(d)
    <3>1. \A k \in Slots : dialer'[k] = d /\ phase'[k][d] # "closed" => phase[k][d] # "closed"
      BY <1>1, Zenon
    <3> QED BY <3>1, Zenon DEF Dialled
  <2>2. IsFiniteSet(Dialled(d))
    BY <2>1, LinksAssumption, FS_Subset, Zenon
  <2>3. /\ Cardinality(Dialled(d)') <= Cardinality(Dialled(d))
        /\ Cardinality(Dialled(d)) \in Nat /\ Cardinality(Dialled(d)') \in Nat
    BY <2>1, <2>2, FS_Subset, FS_CardinalityType, Zenon
  <2>4. dials[d] \in 0 .. MaxLinks /\ Cardinality(Dialled(d)) <= dials[d]
    BY Zenon DEF Steady
  <2> QED BY <2>3, <2>4
<1>3. ASSUME NEW k \in Slots
      PROVE  /\ EndsAgree(phase'[k][d], phase'[k][Peer(d)])
             /\ phase'[k][d] = "waiting" => d > Peer(d)
             /\ phase'[k][d] # "closed" => dialer'[k] = d /\ k \notin broken'
             /\ \A m \in Node : phase'[k][m] = "running" => k \in peer'[m].txs
  <2>1. CASE k = l
    BY <1>0, <1>1, <2>1, Zenon DEF Steady
  <2>2. CASE k # l
    BY <1>0, <1>1, <2>2, Zenon DEF Steady
  <2> QED BY <2>1, <2>2, Zenon
<1>4. Steady(d)'
  BY <1>2, <1>3, Zenon DEF Steady
<1>5. ASSUME NEW k \in Slots, Usable(k) PROVE Usable(k)'
  <2>1. k # l \/ \A m \in Node : m # n
    BY <1>5, Zenon DEF Usable
  <2> QED BY <1>1, <1>5, <2>1, Zenon DEF Usable
<1> QED BY <1>4, <1>5, Zenon

\* In a steady state no task has a reason to give its link up.
LEMMA SteadyEnds ==
    ASSUME LinksInv, NEW d \in Node, Steady(d), NEW l \in Slots, NEW n \in Node
    PROVE  /\ ~TieBreak(l, n) \/ (n = d /\ connected[n] = 0)
           /\ ~Release(l, n) /\ ~ReadError(l, n) /\ ~Leave(l, n) /\ ~SweepClosed(l, n)
           /\ HandshakeFailed(l, n) => n = d /\ phase[l][Peer(d)] = "closed"
           /\ AcceptCap(l, n) => n = Peer(d) /\ connected[n] < MaxLinks
           /\ CapCheck(l, n) => n = d /\ connected[n] < MaxLinks
           /\ Admit(l, n) => n = d
<1>0. /\ n = d \/ (n = Peer(d) /\ Peer(n) = d)
      /\ Peer(d) \in Node /\ Peer(d) # d
  <2>1. /\ Peer(d) \in Node /\ Peer(d) # d /\ Node = {d, Peer(d)}
        /\ Peer(n) \in Node /\ Peer(n) # n
    BY PeerIsOther, Zenon
  <2> QED BY <2>1, Zenon
<1>1. /\ EndsAgree(phase[l][d], phase[l][Peer(d)])
      /\ phase[l][d] # "closed" => l \notin broken
      /\ phase[l][d] = "waiting" => d > Peer(d)
      /\ \A m \in Node : phase[l][m] = "running" => l \in peer[m].txs
  BY Zenon DEF Steady
<1>2. ~Release(l, n) /\ ~Leave(l, n)
  BY <1>0, <1>1, Zenon DEF Release, Leave, EndsAgree
<1>3. ~ReadError(l, n)
  BY <1>0, <1>1, Zenon DEF ReadError, Eof, EndsAgree
<1>4. ~SweepClosed(l, n)
  <2>1. l \in peer[n].txs => phase[l][n] = "running"
    BY Zenon DEF LinksInv, SendersLive
  <2> QED BY <1>0, <1>1, <2>1, Zenon DEF SweepClosed, EndsAgree
<1>5. HandshakeFailed(l, n) => n = d /\ phase[l][Peer(d)] = "closed"
  BY <1>0, <1>1, Zenon DEF HandshakeFailed, EndsAgree
<1>6. ASSUME phase[l][d] # "closed", phase[l][n] \notin {"entering", "running", "leaving"}
      PROVE  connected[n] \in Nat /\ connected[n] < dials[d] /\ dials[d] <= MaxLinks
  <2>1. Counted(n) \in SUBSET Slots /\ l \notin Counted(n)
    BY <1>6, Zenon DEF Counted
  <2>2. ASSUME NEW k \in Counted(n) PROVE phase[k][d] # "closed"
    <3>1. k \in Slots /\ phase[k][n] \in {"entering", "running", "leaving"}
      BY <2>2, Zenon DEF Counted
    <3>2. EndsAgree(phase[k][d], phase[k][Peer(d)])
      BY <3>1, Zenon DEF Steady
    <3> QED BY <1>0, <3>1, <3>2, Zenon DEF EndsAgree
  <2>3. connected[n] = Cardinality(Counted(n))
    BY Zenon DEF LinksInv, CountsLinks
  <2> QED BY <1>6, <2>1, <2>2, <2>3, RoomLeft, Zenon
<1>7. /\ dials[d] \in Nat /\ (d > Peer(d) => dials[d] <= 1) /\ MaxLinks \in Nat
  BY LinksAssumption DEF Steady
<1>8. AcceptCap(l, n) => n = Peer(d) /\ connected[n] < MaxLinks
  <2> SUFFICES ASSUME AcceptCap(l, n) PROVE n = Peer(d) /\ connected[n] < MaxLinks
    BY Zenon
  <2>1. phase[l][n] = "accepted"
    BY Zenon DEF AcceptCap
  <2>2. n = Peer(d) /\ phase[l][d] # "closed"
    BY <1>0, <1>1, <2>1, Zenon DEF EndsAgree
  <2> QED BY <1>6, <1>7, <2>1, <2>2
<1>9. CapCheck(l, n) => n = d /\ connected[n] < MaxLinks
  <2> SUFFICES ASSUME CapCheck(l, n) PROVE n = d /\ connected[n] < MaxLinks
    BY Zenon
  <2>1. phase[l][n] = "checking"
    BY Zenon DEF CapCheck
  <2>2. n = d
    BY <1>0, <1>1, <2>1, Zenon DEF EndsAgree
  <2> QED BY <1>6, <1>7, <2>1, <2>2
<1>10. Admit(l, n) => n = d
  BY <1>0, <1>1, Zenon DEF Admit, EndsAgree
<1>11. ~TieBreak(l, n) \/ (n = d /\ connected[n] = 0)
  <2> SUFFICES ASSUME TieBreak(l, n) PROVE n = d /\ connected[n] = 0
    BY Zenon
  <2>1. phase[l][n] = "waiting"
    BY Zenon DEF TieBreak
  <2>2. n = d /\ dials[d] <= 1
    BY <1>0, <1>1, <1>7, <2>1, Zenon DEF EndsAgree
  <2> QED BY <1>6, <1>7, <2>1, <2>2
<1> QED BY <1>2, <1>3, <1>4, <1>5, <1>8, <1>9, <1>10, <1>11, Zenon

LEMMA SteadyEnter ==
    ASSUME LinksInv, NEW d \in Node, Steady(d), NEW l \in Slots, NEW n \in Node, Enter(l, n)
    PROVE  Steady(d)' /\ \A k \in Slots : Usable(k) => Usable(k)'
<1>0. /\ n = d \/ n = Peer(d)
      /\ Peer(d) \in Node /\ Peer(d) # d /\ LinksType
  BY PeerIsOther, Zenon DEF LinksInv
<1>1. /\ phase[l][n] = "entering" /\ Move(l, n, "running")
      /\ peer' = [peer EXCEPT ![n] = AddPeer(peer[n], l)]
      /\ UNCHANGED <<dials, dialer, broken>>
  BY Zenon DEF Enter
<1>2. EndsAgree(phase[l][d], phase[l][Peer(d)])
  BY Zenon DEF Steady
<1>3. phase[l][d] # "closed"
  BY <1>0, <1>1, <1>2, Zenon DEF EndsAgree
<1>4. /\ phase'[l][n] = "running"
      /\ \A m \in Node : m # n => phase'[l][m] = phase[l][m]
  BY <1>0, <1>1, MoveChanges DEF Phases
<1>5. EndsAgree(phase'[l][d], phase'[l][Peer(d)]) /\ (phase'[l][d] = "waiting" => phase[l][d] = "waiting")
  BY <1>0, <1>1, <1>2, <1>4, Zenon DEF EndsAgree
<1>6. Cardinality(peer[n].txs) < MaxLinks
  <2>1. peer[n].txs \in SUBSET Slots
    BY <1>0, Zenon DEF LinksType
  <2>2. \A k \in peer[n].txs : phase[k][n] = "running"
    BY Zenon DEF LinksInv, SendersLive
  <2>3. l \notin peer[n].txs
    BY <1>1, <2>2, Zenon
  <2>4. ASSUME NEW k \in peer[n].txs PROVE phase[k][d] # "closed"
    <3>1. EndsAgree(phase[k][d], phase[k][Peer(d)]) /\ phase[k][n] = "running"
      BY <2>1, <2>2, Zenon DEF Steady
    <3> QED BY <1>0, <3>1, Zenon DEF EndsAgree
  <2>5. MaxLinks \in Nat /\ dials[d] \in Nat
    BY LinksAssumption DEF Steady
  <2>6. Cardinality(peer[n].txs) \in Nat /\ Cardinality(peer[n].txs) < dials[d] /\ dials[d] <= MaxLinks
    BY <1>3, <2>1, <2>3, <2>4, RoomLeft, Zenon
  <2> QED BY <2>5, <2>6
<1>7. AddPeer(peer[n], l) = [up |-> TRUE, txs |-> peer[n].txs \cup {l}]
  <2>1. peer[n].txs \in SUBSET Slots /\ MaxLinks \in Nat
    BY <1>0, LinksAssumption, Zenon DEF LinksType
  <2>2. Cardinality(peer[n].txs) \in Nat
    BY <2>1, Sizes, Zenon
  <2> QED BY <1>6, <2>1, <2>2 DEF AddPeer
<1>8. /\ l \in peer'[n].txs /\ \A m \in Node : peer[m].txs \subseteq peer'[m].txs
  BY <1>0, <1>1, <1>7 DEF LinksType
<1>9. phase[l][d] = "waiting" => d > Peer(d)
  BY Zenon DEF Steady
<1>10. "running" \in Phases /\ phase[l][n] # "running"
  BY <1>1, Zenon DEF Phases
<1> QED BY <1>1, <1>3, <1>5, <1>8, <1>9, <1>10, SteadyMove, Zenon

\* A new connection, or one whose handshake is over at both ends.
LEMMA SteadyNew ==
    ASSUME LinksInv, NEW d \in Node, Steady(d), NEW l \in Slots, NEW x \in Phases, NEW y \in Phases,
           phase' = [phase EXCEPT ![l] = [n \in Node |-> IF n = d THEN x ELSE y]],
           x # "closed", x # "running", y # "running", EndsAgree(x, y), x = "waiting" => d > Peer(d),
           ~Usable(l), UNCHANGED <<dials, peer>>,
           dialer' = [dialer EXCEPT ![l] = d], broken' = broken \ {l},
           Cardinality(Dialled(d) \cup {l}) <= dials[d]
    PROVE  Steady(d)' /\ \A k \in Slots : Usable(k) => Usable(k)'
<1>0. LinksType /\ Peer(d) \in Node /\ Peer(d) # d
  BY PeerIsOther, Zenon DEF LinksInv
<1>1. /\ \A k \in Slots, m \in Node : phase'[k][m] = IF k # l THEN phase[k][m]
                                                      ELSE IF m = d THEN x ELSE y
      /\ dialer'[l] = d /\ \A k \in Slots : k # l => dialer'[k] = dialer[k]
  BY <1>0, Zenon DEF LinksType
<1>2. Dialled(d)' = Dialled(d) \cup {l}
  BY <1>1 DEF Dialled
<1>3. ASSUME NEW k \in Slots
      PROVE  /\ EndsAgree(phase'[k][d], phase'[k][Peer(d)])
             /\ phase'[k][d] = "waiting" => d > Peer(d)
             /\ phase'[k][d] # "closed" => dialer'[k] = d /\ k \notin broken'
             /\ \A m \in Node : phase'[k][m] = "running" => k \in peer'[m].txs
  <2>1. CASE k = l
    BY <1>0, <1>1, <2>1, Zenon
  <2>2. CASE k # l
    BY <1>0, <1>1, <2>2 DEF Steady
  <2> QED BY <2>1, <2>2, Zenon
<1>4. Steady(d)'
  BY <1>2, <1>3, Zenon DEF Steady
<1>5. ASSUME NEW k \in Slots, Usable(k) PROVE Usable(k)'
  BY <1>1, <1>5 DEF Usable
<1> QED BY <1>4, <1>5, Zenon

LEMMA SteadyConnect ==
    ASSUME LinksInv, NEW d \in Node, Steady(d), NEW l \in Slots, NEW n \in Node, Connect(n, l)
    PROVE  Steady(d)' /\ \A k \in Slots : Usable(k) => Usable(k)'
<1>0. /\ n = d \/ n = Peer(d)
      /\ Peer(d) \in Node /\ Peer(d) # d /\ Node = {d, Peer(d)}
  BY PeerIsOther, Zenon
<1>1. /\ Free(l) /\ Cardinality(Dialled(n)) < dials[n]
      /\ dialer' = [dialer EXCEPT ![l] = n] /\ broken' = broken \ {l} /\ UNCHANGED <<dials, peer>>
  BY Zenon DEF Connect
<1>2. \A m \in Node : Dialled(m) \in SUBSET Slots /\ Cardinality(Dialled(m)) \in Nat
  BY Sizes, Zenon DEF Dialled
<1>3. n = d
  <2>1. dials[Peer(d)] = 0
    BY Zenon DEF Steady
  <2> QED BY <1>0, <1>1, <1>2, <2>1
<1>4. PICK y \in {"handshake", "closed"} :
         phase' = [phase EXCEPT ![l] = [m \in Node |-> IF m = d THEN "handshake" ELSE y]]
  <2> DEFINE ok == Cardinality(Handshaking(Peer(n))) < MaxPending /\ perip[Peer(n)] < MaxPerIp
  <2>1. phase' = [phase EXCEPT ![l] = [m \in Node |-> IF m = n \/ ok THEN "handshake" ELSE "closed"]]
    BY Zenon DEF Connect
  <2> HIDE DEF ok
  <2>2. CASE ok
    <3>1. [m \in Node |-> IF m = n \/ ok THEN "handshake" ELSE "closed"]
            = [m \in Node |-> IF m = d THEN "handshake" ELSE "handshake"]
      BY <2>2, Zenon
    <3> QED BY <2>1, <3>1, Zenon
  <2>3. CASE ~ok
    <3>1. [m \in Node |-> IF m = n \/ ok THEN "handshake" ELSE "closed"]
            = [m \in Node |-> IF m = d THEN "handshake" ELSE "closed"]
      BY <1>3, <2>3, Zenon
    <3> QED BY <2>1, <3>1, Zenon
  <2> QED BY <2>2, <2>3, Zenon
<1>5. ~Usable(l) /\ l \notin Dialled(d)
  BY <1>0, <1>1, Zenon DEF Usable, Free, Dialled
<1>6. Cardinality(Dialled(d) \cup {l}) <= dials[d]
  <2>1. Cardinality(Dialled(d) \cup {l}) = Cardinality(Dialled(d)) + 1
    BY <1>2, <1>5, Sizes, Zenon
  <2>2. dials[d] \in Nat
    BY LinksAssumption DEF Steady
  <2> QED BY <1>1, <1>2, <1>3, <2>1, <2>2
<1>7. EndsAgree("handshake", y) /\ y \in Phases /\ "handshake" \in Phases
  BY <1>4, Zenon DEF EndsAgree, Phases
<1> QED BY <1>1, <1>3, <1>4, <1>5, <1>6, <1>7, SteadyNew, Zenon

LEMMA SteadyHandshake ==
    ASSUME LinksInv, NEW d \in Node, Steady(d), NEW l \in Slots, HandshakeDone(l)
    PROVE  Steady(d)' /\ \A k \in Slots : Usable(k) => Usable(k)'
<1> DEFINE x == IF d > Peer(d) THEN "waiting" ELSE "checking"
<1>0. Peer(d) \in Node /\ Peer(d) # d /\ Node = {d, Peer(d)}
  BY PeerIsOther, Zenon
<1>1. /\ \A n \in Node : phase[l][n] = "handshake"
      /\ l \notin broken /\ UNCHANGED <<dials, dialer, broken, peer>>
  BY Zenon DEF HandshakeDone
<1>2. dialer[l] = d /\ dialer \in [Slots -> Node]
  BY <1>1, Zenon DEF Steady, LinksInv, LinksType
<1>3. phase' = [phase EXCEPT ![l] = [n \in Node |-> IF n = d THEN x ELSE "accepted"]]
  <2>1. [n \in Node |-> IF n # dialer[l] THEN "accepted" ELSE IF n > Peer(n) THEN "waiting" ELSE "checking"]
          = [n \in Node |-> IF n = d THEN x ELSE "accepted"]
    BY <1>2, Zenon
  <2> QED BY <2>1, Zenon DEF HandshakeDone
<1>4. dialer' = [dialer EXCEPT ![l] = d] /\ broken' = broken \ {l}
  BY <1>1, <1>2, Zenon
<1>5. ~Usable(l) /\ Dialled(d) \cup {l} = Dialled(d) /\ Cardinality(Dialled(d)) <= dials[d]
  BY <1>0, <1>1, <1>2, Zenon DEF Usable, Dialled, Steady
<1>6. /\ x \in Phases /\ x \notin {"closed", "running"} /\ EndsAgree(x, "accepted")
      /\ x = "waiting" => d > Peer(d)
      /\ "accepted" \in Phases
  BY Zenon DEF EndsAgree, Phases
<1> HIDE DEF x
<1>7. Cardinality(Dialled(d) \cup {l}) <= dials[d]
  BY <1>5, Zenon
<1> QED BY <1>1, <1>3, <1>4, <1>5, <1>6, <1>7, SteadyNew, Zenon

LEMMA NextSteady ==
    ASSUME LinksInv, NEW d \in Node, Steady(d), [Next]_vars, ~\E l \in Slots : Break(l)
    PROVE  Steady(d)' /\ \A k \in Slots : Usable(k) => Usable(k)'
<1> DEFINE Goal == Steady(d)' /\ \A k \in Slots : Usable(k) => Usable(k)'
<1> HIDE DEF Goal
<1>0. Peer(d) \in Node /\ Peer(d) # d /\ LinksType
  BY PeerIsOther, Zenon DEF LinksInv
<1>1. ASSUME NEW l \in Slots, NEW n \in Node, NEW ph \in Phases, Move(l, n, ph),
             UNCHANGED <<dials, dialer, broken, peer>>, phase[l][n] # "running", ph # "running",
             ph # "waiting", phase[l][d] # "closed",
             n = d => EndsAgree(ph, phase[l][Peer(d)]), n # d => n = Peer(d) /\ EndsAgree(phase[l][d], ph)
      PROVE  Goal
  <2>1. /\ phase'[l][n] = ph /\ \A m \in Node : m # n => phase'[l][m] = phase[l][m]
    BY <1>0, <1>1, MoveChanges
  <2>2. EndsAgree(phase'[l][d], phase'[l][Peer(d)]) /\ (phase'[l][d] = "waiting" => d > Peer(d))
    BY <1>0, <1>1, <2>1, Zenon DEF Steady
  <2> QED BY <1>1, <2>2, SteadyMove, Zenon DEF Goal
<1>2. ASSUME NEW l \in Slots, NEW n \in Node, EndStep(l, n) PROVE Goal
  <2>0. /\ ~TieBreak(l, n) \/ (n = d /\ connected[n] = 0)
        /\ ~Release(l, n) /\ ~ReadError(l, n) /\ ~Leave(l, n)
        /\ HandshakeFailed(l, n) => n = d /\ phase[l][Peer(d)] = "closed"
        /\ AcceptCap(l, n) => n = Peer(d) /\ connected[n] < MaxLinks
        /\ CapCheck(l, n) => n = d /\ connected[n] < MaxLinks
        /\ Admit(l, n) => n = d
    BY SteadyEnds, Zenon
  <2>1. EndsAgree(phase[l][d], phase[l][Peer(d)]) /\ connected[n] \in Nat /\ MaxLinks \in Nat
    BY <1>0, LinksAssumption, Zenon DEF Steady, LinksType
  <2>2. {"closed", "entering", "checking", "admitted"} \subseteq Phases
    BY Zenon DEF Phases
  <2>3. CASE HandshakeFailed(l, n)
    <3>1. /\ phase[l][n] = "handshake" /\ Move(l, n, "closed")
          /\ UNCHANGED <<dials, dialer, broken, peer>>
      BY <2>3, Zenon DEF HandshakeFailed, End
    <3>2. EndsAgree("closed", phase[l][Peer(d)])
      BY <2>0, <2>3, Zenon DEF EndsAgree
    <3> QED BY <1>1, <2>0, <2>2, <2>3, <3>1, <3>2, Zenon
  <2>4. CASE AcceptCap(l, n)
    <3>1. /\ phase[l][n] = "accepted" /\ Move(l, n, "entering")
          /\ UNCHANGED <<dials, dialer, broken, peer>>
      <4>1. ~(connected[n] >= MaxLinks)
        BY <2>0, <2>1, <2>4
      <4> QED BY <2>4, <4>1, Zenon DEF AcceptCap
    <3>2. EndsAgree(phase[l][d], "entering") /\ phase[l][d] # "closed"
      BY <2>0, <2>1, <2>4, <3>1, Zenon DEF EndsAgree
    <3> QED BY <1>0, <1>1, <2>0, <2>2, <2>4, <3>1, <3>2, Zenon
  <2>5. CASE TieBreak(l, n)
    <3>1. /\ phase[l][n] = "waiting" /\ Move(l, n, "checking")
          /\ UNCHANGED <<dials, dialer, broken, peer>>
      <4>1. ~(connected[n] > 0)
        BY <2>0, <2>5
      <4> QED BY <2>5, <4>1, Zenon DEF TieBreak
    <3>2. EndsAgree("checking", phase[l][Peer(d)])
      BY <2>0, <2>1, <2>5, <3>1, Zenon DEF EndsAgree
    <3> QED BY <1>1, <2>0, <2>2, <2>5, <3>1, <3>2, Zenon
  <2>6. CASE CapCheck(l, n)
    <3>1. /\ phase[l][n] = "checking" /\ Move(l, n, "admitted")
          /\ UNCHANGED <<dials, dialer, broken, peer>>
      BY <2>0, <2>1, <2>6 DEF CapCheck
    <3>2. EndsAgree("admitted", phase[l][Peer(d)])
      BY <2>0, <2>1, <2>6, <3>1, Zenon DEF EndsAgree
    <3> QED BY <1>1, <2>0, <2>2, <2>6, <3>1, <3>2, Zenon
  <2>7. CASE Admit(l, n)
    <3>1. /\ phase[l][n] = "admitted" /\ Move(l, n, "entering")
          /\ UNCHANGED <<dials, dialer, broken, peer>>
      BY <2>7, Zenon DEF Admit
    <3>2. EndsAgree("entering", phase[l][Peer(d)])
      BY <2>0, <2>1, <2>7, <3>1, Zenon DEF EndsAgree
    <3> QED BY <1>1, <2>0, <2>2, <2>7, <3>1, <3>2, Zenon
  <2>8. CASE Enter(l, n)
    BY <2>8, SteadyEnter, Zenon DEF Goal
  <2> QED BY <1>2, <2>0, <2>3, <2>4, <2>5, <2>6, <2>7, <2>8, Zenon DEF EndStep
<1>3. ASSUME NEW n \in Node, expire_peers(n) PROVE Goal
  <2>1. /\ \A l \in Slots : phase[l][n] = "running" => l \in broken
        /\ peer' = [peer EXCEPT ![n] = RemovePeer]
        /\ UNCHANGED <<dials, dialer, phase, broken>>
    BY <1>3, Zenon DEF expire_peers
  <2>2. n = d \/ n = Peer(d)
    BY PeerIsOther, Zenon
  <2>3. \A l \in Slots : phase[l][n] # "running"
    BY <2>1, <2>2, Zenon DEF Steady, EndsAgree
  <2>4. \A m \in Node : m # n => peer'[m] = peer[m]
    BY <1>0, <2>1, Zenon DEF LinksType
  <2>5. Steady(d)'
    <3>1. Dialled(d)' = Dialled(d)
      BY <2>1, Zenon DEF Dialled
    <3> QED BY <2>1, <2>3, <2>4, <3>1, Zenon DEF Steady
  <2>6. \A k \in Slots : Usable(k) => Usable(k)'
    BY <2>3, Zenon DEF Usable
  <2> QED BY <2>5, <2>6, Zenon DEF Goal
<1>4. ASSUME UNCHANGED vars PROVE Goal
  BY <1>4, Zenon DEF vars, Steady, Dialled, Usable, Goal
<1>5. ASSUME NEW l \in Slots, NEW n \in Node, SweepClosed(l, n) PROVE FALSE
  BY <1>5, SteadyEnds, Zenon
<1>6. ASSUME NEW l \in Slots, NEW n \in Node, Connect(n, l) PROVE Goal
  BY <1>6, SteadyConnect, Zenon DEF Goal
<1>7. ASSUME NEW l \in Slots, HandshakeDone(l) PROVE Goal
  BY <1>7, SteadyHandshake, Zenon DEF Goal
<1>8. ASSUME Next PROVE Goal
  BY <1>2, <1>3, <1>5, <1>6, <1>7, <1>8, Zenon DEF Next
<1>9. Next \/ UNCHANGED vars
  BY Zenon
<1> QED BY <1>4, <1>8, <1>9, Zenon DEF Goal

\* Where one node dials, with as many tasks as there may be links (with one if its key is the
\* larger), a link that both ends use is given up only when the network breaks one: no handshake,
\* cap check, tie-break, further dial, sweep or expiry in between takes it down, although
\* remove_peer would drop the senders of all links at once (conn.rs 319-323, transport.rs 563-641).
THEOREM SteadyLinksAreKept ==
    ASSUME NEW d \in Node, NEW l \in Slots
    PROVE  Spec => [](Steady(d) /\ Usable(l) /\ breaks = MaxBreaks => []Usable(l))
<1> DEFINE Q == Steady(d) /\ Usable(l) /\ breaks = MaxBreaks
<1>1. LinksInv /\ Q /\ [Next]_vars => Q'
  <2> SUFFICES ASSUME LinksInv, Steady(d), Usable(l), breaks = MaxBreaks, [Next]_vars
               PROVE  Steady(d)' /\ Usable(l)' /\ breaks' = MaxBreaks
    BY Zenon
  <2>1. ~\E k \in Slots : Break(k)
    BY LinksAssumption DEF Break
  <2>2. Steady(d)' /\ Usable(l)'
    BY <2>1, NextSteady, Zenon
  <2>3. breaks' = breaks
    BY <2>1 DEF Next, vars, Connect, EndStep, HandshakeFailed, AcceptCap, TieBreak, CapCheck, Admit,
                Release, Enter, ReadError, Leave, SweepClosed, HandshakeDone, expire_peers
  <2> QED BY <2>2, <2>3, Zenon
<1>2. Q => Usable(l)
  BY Zenon
<1> QED BY <1>1, <1>2, LinksInvHolds, PTL DEF Spec

-----------------------------------------------------------------------------
FrameType ==
    [type : {"Traffic", "PathNegative", "PathLookup", "PathNotify", "HolePunch"},
     from : Member, to : Member, hops : Nat, trail : SUBSET Member, id : Nat]

\* The distances on file are those of the scene.
TrueCoords == own_coord = scene.dist /\ coord_table = [n \in Member |-> scene.dist]

\* Each node of the trail is farther from dst than the node the frame is at.
Descends == \A f \in Types({"Traffic"}) : \A t \in f.trail : scene.dist[f.to] < scene.dist[t]

\* A frame never counts more hops than the limit.
HopsBounded == \A f \in Types({"Traffic"}) : f.hops <= MAX_FORWARD_HOPS

\* The inductive invariant.
ForwardInv ==
    /\ scene \in Scenes
    /\ moves \in Nat /\ ids \in Nat
    /\ frames \subseteq FrameType
    /\ moves = 0 => TrueCoords /\ Descends
    /\ HopsBounded

-----------------------------------------------------------------------------

\* A frame that a node makes is well typed.
LEMMA NewFrame ==
    ASSUME NEW type \in {"Traffic", "PathNegative", "PathLookup", "PathNotify", "HolePunch"},
           NEW n \in Member, NEW p \in Member
    PROVE  /\ Frame(type, n, p) \in FrameType
           /\ Frame(type, n, p).type = type /\ Frame(type, n, p).trail = {}
           /\ Frame(type, n, p).hops = 0 /\ Frame(type, n, p).to = p
BY Zenon DEF Frame, FrameType

\* A hint is a PathNegative.
LEMMA HintFrame ==
    ASSUME NEW n \in Member, NEW p \in Member, NEW ttl \in Nat
    PROVE  Negative(n, p, ttl) \in SUBSET {f \in FrameType : f.type = "PathNegative"}
<1> DEFINE f == Frame("PathNegative", n, p)
           g == [f EXCEPT !.hops = ttl]
<1>0. f \in FrameType /\ f.type = "PathNegative"
  BY NewFrame
<1> HIDE DEF f
<1>1. g \in FrameType
  BY <1>0, Zenon DEF FrameType
<1>2. g.type = "PathNegative"
  BY <1>0, Zenon DEF FrameType
<1>3. Negative(n, p, ttl) \subseteq {g}
  BY Zenon DEF Negative, f
<1> HIDE DEF g
<1> QED BY <1>1, <1>2, <1>3, Zenon

\* A greedy hop goes to a member that is strictly closer to dst by the
\* distances the node has on file.
LEMMA GreedyIsCloser ==
    ASSUME NEW n \in Member, NEW exclude, NEW h \in greedy_next_hop(n, exclude)
    PROVE  h \in Member /\ coord_table[n][h] < own_coord[n]
BY Zenon DEF greedy_next_hop, Closer, PeersOf, Linked

\* Every hop that any rule offers is a member.
LEMMA HopsAreMembers ==
    ASSUME NEW n \in Member
    PROVE  /\ PeersOf(n) \subseteq Member
           /\ \A x : lookup(n, x) \subseteq Member
           /\ \A from : lookup_by_tag_excluding(n, from) \subseteq Member
           /\ \A from : \A H \in LookupHops(n, from) : H \subseteq Member
<1>1. PeersOf(n) \subseteq Member
  BY Zenon DEF PeersOf, Linked
<1>2. \A S : Cheapest(n, S) \subseteq S /\ Preferred(n, S) \subseteq S
  BY Zenon DEF Cheapest, Preferred
<1>3. \A x : Claimers(n, x) \subseteq Member
  BY <1>1, Zenon DEF Claimers
<1>4. \A exclude : greedy_next_hop(n, exclude) \subseteq Member
  BY GreedyIsCloser, Zenon
<1>5. ASSUME NEW x PROVE lookup(n, x) \subseteq Member
  BY <1>1, <1>2, <1>3, <1>4, Zenon DEF lookup
<1>6. ASSUME NEW from PROVE lookup_by_tag_excluding(n, from) \subseteq Member
  BY <1>2, <1>3, Zenon DEF lookup_by_tag_excluding
<1>7. ASSUME NEW from, NEW H \in LookupHops(n, from) PROVE H \subseteq Member
  <2>1. Cheapest(n, Claimers(n, scene.dst)) \subseteq Member
    BY <1>2, <1>3, Zenon
  <2> QED BY <1>1, <1>7, <2>1, Zenon DEF LookupHops
<1> QED BY <1>1, <1>5, <1>6, <1>7, Zenon

\* A step that adds frames of other kinds, or traffic that starts a trail, and
\* takes frames away, keeps the invariant.
LEMMA FramesChange ==
    ASSUME ForwardInv, UNCHANGED <<scene, own_coord, coord_table, moves>>, ids' \in Nat,
           \A f \in frames' \ frames :
              /\ f \in FrameType
              /\ f.type = "Traffic" => f.trail = {} /\ f.hops <= MAX_FORWARD_HOPS
    PROVE  ForwardInv'
BY Zenon DEF ForwardInv, TrueCoords, Descends, HopsBounded, Types

LEMMA InitForwardInv == ForwardInit => ForwardInv
BY SceneAssumption DEF ForwardInit, ForwardInv, TrueCoords, Descends, HopsBounded, Types

\* The transit step: a greedy hop descends, a claim starts a new trail, a spent
\* frame or one without a route leaves at most a PathNegative behind.
LEMMA TrafficKeepsInv ==
    ASSUME ForwardInv, NEW f \in frames, handle_traffic(f)
    PROVE  ForwardInv'
<1> DEFINE n == f.to
<1>1. /\ f \in FrameType /\ f.type = "Traffic" /\ n \in Member /\ f.from \in Member
      /\ UNCHANGED <<scene, own_coord, coord_table, moves, ids>> /\ ids \in Nat
  BY Zenon DEF ForwardInv, FrameType, handle_traffic
<1>2. ASSUME NEW ttl \in Nat, frames' = (frames \ {f}) \cup Negative(n, f.from, ttl)
      PROVE  ForwardInv'
  <2> DEFINE new == Negative(n, f.from, ttl)
  <2>1. new \subseteq FrameType /\ \A g \in new : g.type = "PathNegative"
    BY <1>1, HintFrame, Zenon
  <2> QED BY <1>1, <1>2, <2>1, FramesChange, Zenon
<1>3. ASSUME frames' = frames \ {f} PROVE ForwardInv'
  BY <1>1, <1>3, FramesChange, Zenon
<1>4. ASSUME NEW h \in greedy_next_hop(n, {f.from}), ~Spent(f), frames' = Passed(f, h, TRUE)
      PROVE  ForwardInv'
  <2>1. h \in Member /\ coord_table[n][h] < own_coord[n]
    BY <1>1, <1>4, GreedyIsCloser, Zenon
  <2> DEFINE g == [f EXCEPT !.from = f.to, !.to = h, !.hops = @ + 1, !.trail = @ \cup {f.to}]
  <2>a. frames' = (frames \ {f}) \cup {g}
    BY <1>4, Zenon DEF Passed
  <2>b. f.hops + 1 \in Nat /\ f.trail \cup {n} \in SUBSET Member
    BY <1>1 DEF FrameType
  <2>c. g \in FrameType
    BY <1>1, <2>1, <2>b, Zenon DEF FrameType
  <2>d. g.to = h /\ g.trail = f.trail \cup {n} /\ g.hops = f.hops + 1
    BY <1>1, Zenon DEF FrameType
  <2>2. g \in FrameType /\ g.to = h /\ g.trail = f.trail \cup {n} /\ g.hops = f.hops + 1
    BY <2>c, <2>d, Zenon
  <2> HIDE DEF g
  <2>3. g.hops <= MAX_FORWARD_HOPS
    BY <1>1, <1>4, <2>2, SceneAssumption DEF Spent, FrameType
  <2>4. ASSUME moves = 0 PROVE \A t \in g.trail : scene.dist[g.to] < scene.dist[t]
    <3>1. scene.dist[h] < scene.dist[n] /\ scene.dist \in [Member -> Nat]
      BY <1>1, <2>1, <2>4, SceneAssumption, Zenon DEF ForwardInv, TrueCoords
    <3>2. \A t \in f.trail : t \in Member /\ scene.dist[n] < scene.dist[t]
      BY <1>1, <2>4, Zenon DEF ForwardInv, Descends, Types, FrameType
    <3>3. \A t \in f.trail : scene.dist[h] < scene.dist[t]
      BY <3>1, <3>2, <2>1, <1>1
    <3> QED BY <3>1, <3>3, <2>2, Zenon
  <2> QED BY <1>1, <2>a, <2>2, <2>3, <2>4, Zenon
          DEF ForwardInv, TrueCoords, Descends, HopsBounded, Types
<1>5. ASSUME NEW h \in lookup_by_tag_excluding(n, f.from), ~Spent(f),
             frames' = Passed(f, h, FALSE)
      PROVE  ForwardInv'
  <2>1. h \in Member
    BY <1>1, <1>5, HopsAreMembers, Zenon
  <2> DEFINE g == [f EXCEPT !.from = f.to, !.to = h, !.hops = @ + 1, !.trail = {}]
  <2>a. frames' = (frames \ {f}) \cup {g}
    BY <1>5, Zenon DEF Passed
  <2>b. f.hops + 1 \in Nat /\ {} \in SUBSET Member
    BY <1>1 DEF FrameType
  <2>c. g \in FrameType
    BY <1>1, <2>1, <2>b, Zenon DEF FrameType
  <2>d. g.trail = {} /\ g.hops = f.hops + 1
    BY <1>1, Zenon DEF FrameType
  <2>2. g \in FrameType /\ g.trail = {} /\ g.hops = f.hops + 1
    BY <2>c, <2>d, Zenon
  <2>3. g.hops <= MAX_FORWARD_HOPS
    BY <1>1, <1>5, <2>2, SceneAssumption DEF Spent, FrameType
  <2> DEFINE new == {g}
  <2> HIDE DEF g
  <2>4. new \in SUBSET FrameType /\ \A e \in new : e.trail = {} /\ e.hops <= MAX_FORWARD_HOPS
    BY <2>2, <2>3, Zenon
  <2>5. frames' \subseteq frames \cup new
    BY <2>a, Zenon
  <2> HIDE DEF new
  <2> QED BY <1>1, <2>4, <2>5, FramesChange, Zenon
<1> QED BY <1>2, <1>3, <1>4, <1>5, SceneAssumption, Zenon DEF handle_traffic

\* A PathNegative only ever leaves a PathNegative behind.
LEMMA NegativeKeepsInv ==
    ASSUME ForwardInv, NEW f \in frames, handle_path_negative(f)
    PROVE  ForwardInv'
<1>1. /\ f \in FrameType /\ f.to \in Member
      /\ UNCHANGED <<scene, own_coord, coord_table, moves, ids>> /\ ids \in Nat
  BY Zenon DEF ForwardInv, FrameType, handle_path_negative
<1>2. ASSUME f.hops > 1, NEW h \in Member,
             frames' = (frames \ {f}) \cup Negative(f.to, h, f.hops - 1)
      PROVE  ForwardInv'
  <2> DEFINE new == Negative(f.to, h, f.hops - 1)
  <2>1. f.hops - 1 \in Nat
    BY <1>1, <1>2 DEF FrameType
  <2>2. new \subseteq FrameType /\ \A g \in new : g.type = "PathNegative"
    BY <1>1, <2>1, HintFrame, Zenon
  <2> QED BY <1>1, <1>2, <2>2, FramesChange, Zenon
<1>3. ASSUME frames' = frames \ {f} PROVE ForwardInv'
  BY <1>1, <1>3, FramesChange, Zenon
<1>4. \A S : Cheapest(f.to, Claimers(f.to, scene.dst) \ S) \subseteq Member
  BY <1>1, Zenon DEF Cheapest, Claimers, PeersOf, Linked
<1>5. \A S, T : Cheapest(f.to, (Claimers(f.to, scene.dst) \ S) \ T) \subseteq Member
  BY <1>1, Zenon DEF Cheapest, Claimers, PeersOf, Linked
<1> QED BY <1>2, <1>3, <1>4, <1>5, Zenon DEF handle_path_negative


\* A frame that goes on by lookup keeps its type.
LEMMA RelayKeepsInv ==
    ASSUME ForwardInv, NEW f \in frames, f.type # "Traffic", NEW x,
           Relayed(f, x) \/ frames' = frames \ {f},
           UNCHANGED <<scene, own_coord, coord_table, moves, ids>>
    PROVE  ForwardInv'
<1>1. f \in FrameType /\ f.to \in Member /\ ids' \in Nat
  BY DEF ForwardInv, FrameType
<1>2. ASSUME f.to # x, NEW h \in lookup(f.to, x),
             frames' = (frames \ {f}) \cup {[f EXCEPT !.from = f.to, !.to = h]}
      PROVE  ForwardInv'
  <2> DEFINE g == [f EXCEPT !.from = f.to, !.to = h]
             new == {g}
  <2>1. h \in Member
    BY <1>1, <1>2, HopsAreMembers, Zenon
  <2>2. g \in FrameType
    BY <1>1, <2>1, Zenon DEF FrameType
  <2>3. g.type = f.type
    BY <1>1, Zenon DEF FrameType
  <2>4. frames' \subseteq frames \cup new
    BY <1>2, Zenon
  <2> HIDE DEF g
  <2>5. new \in SUBSET FrameType /\ \A e \in new : e.type # "Traffic"
    BY <2>2, <2>3, Zenon
  <2> HIDE DEF new
  <2> QED BY <1>1, <2>4, <2>5, FramesChange, Zenon
<1>3. ASSUME frames' = frames \ {f} PROVE ForwardInv'
  BY <1>1, <1>3, FramesChange, Zenon
<1> QED BY <1>2, <1>3, Zenon DEF Relayed

\* Lookups, as sent and as passed on, are PathLookup frames to members.
LEMMA LookupFrames ==
    ASSUME NEW n \in Member, NEW id \in Nat, NEW H \in SUBSET Member
    PROVE  {LookupFrame(n, p, id) : p \in H} \in
              SUBSET {f \in FrameType : f.type = "PathLookup"}
<1>1. SUFFICES ASSUME NEW p \in Member
               PROVE  LookupFrame(n, p, id) \in FrameType /\ LookupFrame(n, p, id).type = "PathLookup"
  BY Zenon
<1> DEFINE f == Frame("PathLookup", n, p)
           g == [f EXCEPT !.id = id]
<1>2. f \in FrameType /\ f.type = "PathLookup"
  BY NewFrame
<1>3. LookupFrame(n, p, id) = g
  BY Zenon DEF LookupFrame
<1> HIDE DEF f
<1>4. g \in FrameType
  BY <1>2, Zenon DEF FrameType
<1>5. g.type = "PathLookup"
  BY <1>2, Zenon DEF FrameType
<1> HIDE DEF g
<1> QED BY <1>3, <1>4, <1>5, Zenon

LEMMA LookupKeepsInv ==
    ASSUME ForwardInv, NEW f \in frames, handle_path_lookup(f)
    PROVE  ForwardInv'
<1>1. /\ f \in FrameType /\ f.to \in Member /\ f.from \in Member /\ f.id \in Nat
      /\ UNCHANGED <<scene, own_coord, coord_table, moves, ids>> /\ ids' \in Nat
  BY Zenon DEF ForwardInv, FrameType, handle_path_lookup
<1>2. ASSUME \A g \in frames' \ frames : g \in FrameType /\ g.type # "Traffic"
      PROVE  ForwardInv'
  BY <1>1, <1>2, FramesChange, Zenon
<1>3. CASE frames' = frames \ {f}
  BY <1>2, <1>3, Zenon
<1>4. CASE frames' = (frames \ {f}) \cup {Frame("PathNotify", f.to, f.from)}
  <2> DEFINE g == Frame("PathNotify", f.to, f.from)
  <2>1. g \in FrameType /\ g.type = "PathNotify"
    BY <1>1, NewFrame
  <2> HIDE DEF g
  <2> QED BY <1>2, <1>4, <2>1, Zenon DEF g
<1>5. ASSUME NEW H \in LookupHops(f.to, f.from),
             frames' = (frames \ {f}) \cup {LookupFrame(f.to, p, f.id) : p \in H}
      PROVE  ForwardInv'
  <2> DEFINE new == {LookupFrame(f.to, p, f.id) : p \in H}
  <2>1. H \in SUBSET Member
    BY <1>1, <1>5, HopsAreMembers, Zenon
  <2>2. new \in SUBSET {g \in FrameType : g.type = "PathLookup"}
    BY <1>1, <2>1, LookupFrames, Zenon
  <2>3. frames' = (frames \ {f}) \cup new
    BY <1>5, Zenon
  <2> HIDE DEF new
  <2> QED BY <1>2, <2>2, <2>3, Zenon
<1> QED BY <1>3, <1>4, <1>5, Zenon DEF handle_path_lookup

LEMMA NextForwardInv == ForwardInv /\ [ForwardNext]_forward_vars => ForwardInv'
<1> SUFFICES ASSUME ForwardInv, [ForwardNext]_forward_vars
             PROVE  ForwardInv'
  BY Zenon
<1> DEFINE Still == UNCHANGED <<scene, own_coord, coord_table, moves>>
<1>0. /\ scene.src \in Member /\ ids \in Nat /\ moves \in Nat
      /\ \A n \in Member : PeersOf(n) \subseteq Member
  BY SceneAssumption, HopsAreMembers, Zenon DEF ForwardInv
<1>1. ASSUME Still, ids' \in Nat,
             \A g \in frames' \ frames :
                /\ g \in FrameType
                /\ g.type = "Traffic" => g.trail = {} /\ g.hops <= MAX_FORWARD_HOPS
      PROVE  ForwardInv'
  BY <1>1, FramesChange, Zenon
<1>2. ASSUME Still, ids' \in Nat, frames' = frames PROVE ForwardInv'
  BY <1>1, <1>2, Zenon
<1>3. CASE send_traffic_to
  <2>1. PICK h \in lookup(scene.src, scene.dst) :
           frames' = frames \cup {Frame("Traffic", scene.src, h)}
    BY <1>3, Zenon DEF send_traffic_to
  <2>2. h \in Member
    BY <1>0, <2>1, HopsAreMembers, Zenon
  <2> DEFINE g == Frame("Traffic", scene.src, h)
  <2>3. g \in FrameType /\ g.trail = {} /\ g.hops = 0 /\ MAX_FORWARD_HOPS \in Nat
    BY <1>0, <2>2, NewFrame, SceneAssumption
  <2>4. Still /\ ids' \in Nat /\ frames' = frames \cup {g}
    BY <1>0, <1>3, <2>1, Zenon DEF send_traffic_to
  <2> HIDE DEF g
  <2> QED BY <1>1, <2>3, <2>4
<1>4. CASE send_lookup
  <2> DEFINE new == {LookupFrame(scene.src, p, ids + 1) : p \in PeersOf(scene.src)}
  <2>1. new \in SUBSET {g \in FrameType : g.type = "PathLookup"}
    BY <1>0, LookupFrames
  <2>2. Still /\ ids' \in Nat /\ frames' = frames \cup new
    BY <1>0, <1>4 DEF send_lookup
  <2> HIDE DEF new
  <2> QED BY <1>1, <2>1, <2>2, Zenon
<1>5. CASE ConvergenceTurns
  BY <1>0, <1>2, <1>5, Zenon DEF ConvergenceTurns
<1>6. ASSUME NEW f \in frames, Handle(f) PROVE ForwardInv'
  <2>1. CASE handle_path_notify(f)
    BY <2>1, RelayKeepsInv, Zenon DEF handle_path_notify
  <2>2. CASE handle_hole_punch(f)
    BY <2>2, RelayKeepsInv, Zenon DEF handle_hole_punch
  <2> QED BY <1>6, <2>1, <2>2, TrafficKeepsInv, NegativeKeepsInv, LookupKeepsInv, Zenon DEF Handle
<1>7. ASSUME NEW n \in Member, cleanup_stale_lookups(n) PROVE ForwardInv'
  BY <1>0, <1>2, <1>7, Zenon DEF cleanup_stale_lookups
<1>8. ASSUME NEW n \in Member, send_hole_punch(n) PROVE ForwardInv'
  <2> DEFINE g == Frame("HolePunch", scene.src, n)
  <2>1. g \in FrameType /\ g.type = "HolePunch"
    BY <1>0, NewFrame
  <2>2. Still /\ ids' \in Nat /\ frames' = frames \cup {g}
    BY <1>0, <1>8, Zenon DEF send_hole_punch
  <2> HIDE DEF g
  <2> QED BY <1>1, <2>1, <2>2, Zenon
<1>9. ASSUME NEW n \in Member, NEW d \in 1 .. MaxDist, update_own_coord(n, d) PROVE ForwardInv'
  BY <1>9 DEF update_own_coord, ForwardInv, HopsBounded, Types
<1>10. ASSUME NEW n \in Member, NEW p \in Member, Forget(n, p) PROVE ForwardInv'
  BY <1>0, <1>2, <1>10, Zenon DEF Forget
<1>11. ASSUME NEW n \in Member, NEW p \in Member, handle_coord_announce(n, p) PROVE ForwardInv'
  BY <1>11, Zenon DEF handle_coord_announce, ForwardInv, TrueCoords, HopsBounded, Types
<1>12. CASE UNCHANGED forward_vars
  BY <1>0, <1>2, <1>12, Zenon DEF forward_vars, own_vars
<1> QED BY <1>3, <1>4, <1>5, <1>6, <1>7, <1>8, <1>9, <1>10, <1>11, <1>12, Zenon DEF ForwardNext

LEMMA ForwardInvHolds == ForwardSpec => []ForwardInv
BY InitForwardInv, NextForwardInv, PTL DEF ForwardSpec

\* "a packet cannot cycle through greedy hops" (greedy_next_hop): while the
\* coordinates on file are the true ones, an unbroken run of greedy hops meets
\* no node twice, on every mesh, with any number of packets and retries.
THEOREM GreedyIsLoopFree == ForwardSpec => []GreedyNeverReturns
<1>1. ForwardInv => GreedyNeverReturns
  <2> SUFFICES ASSUME ForwardInv, moves = 0, NEW f \in Types({"Traffic"}), f.to \in f.trail
               PROVE  FALSE
    BY Zenon DEF GreedyNeverReturns
  <2>1. scene.dist[f.to] \in Nat /\ scene.dist[f.to] < scene.dist[f.to]
    BY SceneAssumption, Zenon DEF ForwardInv, Descends, Types, FrameType
  <2> QED BY <2>1
<1> QED BY <1>1, ForwardInvHolds, PTL

\* No packet is passed on more often than MAX_FORWARD_HOPS (handle_traffic),
\* whatever filters and coordinates say and however they change meanwhile.
THEOREM HopLimitHolds == ForwardSpec => []HopsBounded
<1>1. ForwardInv => HopsBounded
  BY Zenon DEF ForwardInv
<1> QED BY <1>1, ForwardInvHolds, PTL


-----------------------------------------------------------------------------
(* The gossip of filters.                                                  *)

\* A mesh all of whose links are edges of its tree.
PlainTree(m) ==
    LET D == DOMAIN m.parent
    IN  /\ D \subseteq Member /\ m.parent \in [D -> D]
        /\ \A n, p \in Member : {n, p} \in m.links =>
              {n, p} \subseteq D /\ (m.parent[n] = p \/ m.parent[p] = n)

FilterType == [Member -> [Member -> SUBSET Member]]

\* What a node holds of its child, and what is under way to it, names only
\* nodes of the child's subtree.
GossipInv ==
    /\ mesh \in Meshes
    /\ cuckoo \in FilterType /\ gossip \in FilterType
    /\ \A c \in DOMAIN mesh.parent :
          LET n == mesh.parent[c]
          IN  n # c => cuckoo[n][c] \subseteq Subtree(c) /\ gossip[c][n] \subseteq Subtree(c)

\* A node is in its own subtree, and a child's subtree is part of its parent's.
LEMMA SubtreeGrows ==
    ASSUME PlainTree(mesh), NEW c \in DOMAIN mesh.parent
    PROVE  c \in Subtree(c) /\ Subtree(c) \subseteq Subtree(mesh.parent[c])
<1>1. c \in Subtree(c)
  BY Zenon DEF Subtree
<1>2. ASSUME NEW m \in Subtree(c), NEW S \in SUBSET DOMAIN mesh.parent, mesh.parent[c] \in S,
             \A x \in DOMAIN mesh.parent : mesh.parent[x] \in S => x \in S
      PROVE  m \in S
  BY <1>2, Zenon DEF Subtree
<1> QED BY <1>1, <1>2, Zenon DEF Subtree

LEMMA InitGossipInv ==
    ASSUME \A m \in Meshes : PlainTree(m)
    PROVE  GossipInit => GossipInv
BY DEF GossipInit, GossipInv, FilterType, Empty, PlainTree

\* What a node merges for its parent is in the node's subtree: every other peer
\* is a child.
LEMMA MergedInSubtree ==
    ASSUME GossipInv, PlainTree(mesh), NEW n \in DOMAIN mesh.parent, mesh.parent[n] # n
    PROVE  merged(n) \subseteq Subtree(n)
<1>1. ASSUME NEW p \in PeersOf(n) \ {mesh.parent[n]} PROVE cuckoo[n][p] \subseteq Subtree(n)
  <2>1. p \in DOMAIN mesh.parent /\ mesh.parent[p] = n /\ p # n
    BY <1>1, Zenon DEF PeersOf, Linked, PlainTree
  <2>2. cuckoo[n][p] \subseteq Subtree(p)
    BY <2>1, Zenon DEF GossipInv
  <2> QED BY <2>1, <2>2, SubtreeGrows, Zenon
<1>2. n \in Subtree(n)
  BY SubtreeGrows, Zenon
<1> QED BY <1>1, <1>2, Zenon DEF merged

LEMMA NextGossipInv ==
    ASSUME \A m \in Meshes : PlainTree(m)
    PROVE  GossipInv /\ [GossipNext]_gossip_vars => GossipInv'
<1> SUFFICES ASSUME GossipInv, [GossipNext]_gossip_vars
             PROVE  GossipInv'
  BY Zenon
<1>0. mesh \in Meshes /\ PlainTree(mesh) /\ mesh' = mesh
  BY Zenon DEF GossipInv, GossipNext, cuckoo_do_maintenance, handle_cuckoo, remove_peer, gossip_vars
<1>1. \A c : Subtree(c)' = Subtree(c)
  BY <1>0, Zenon DEF Subtree
<1>2. \A c \in DOMAIN mesh.parent : c \in Member /\ mesh.parent[c] \in Member
  BY <1>0, Zenon DEF PlainTree
<1>3. ASSUME NEW n \in Member, cuckoo_do_maintenance(n) PROVE GossipInv'
  <2>1. \A p \in Member : PeersOf(p) \subseteq Member
    BY Zenon DEF PeersOf, Linked
  <2>2. ASSUME NEW p \in PeersOf(n)
        PROVE  n \in DOMAIN mesh.parent /\ merged(n) \subseteq Member /\ full_merged(n) \subseteq Member
    <3>1. n \in DOMAIN mesh.parent
      BY <1>0, <2>2, Zenon DEF PlainTree, PeersOf, Linked
    <3>2. \A q \in Member : cuckoo[n][q] \subseteq Member
      BY Zenon DEF GossipInv, FilterType
    <3>3. merged(n) \subseteq Member
      BY <2>1, <3>2, Zenon DEF merged
    <3> QED BY <1>2, <3>1, <3>2, <3>3, Zenon DEF full_merged
  <2>3. gossip' \in FilterType /\ UNCHANGED cuckoo
    <3> DEFINE sent == [p \in Member |-> IF p \notin PeersOf(n) THEN {}
                            ELSE IF p = mesh.parent[n] THEN merged(n)
                            ELSE full_merged(n)]
    <3>1. sent \in [Member -> SUBSET Member]
      BY <2>2, Zenon
    <3>2. gossip' = [gossip EXCEPT ![n] = sent] /\ UNCHANGED cuckoo
      BY <1>3, Zenon DEF cuckoo_do_maintenance
    <3> HIDE DEF sent
    <3> QED BY <3>1, <3>2, Zenon DEF GossipInv, FilterType
  <2>4. ASSUME NEW c \in DOMAIN mesh.parent, mesh.parent[c] # c
        PROVE  gossip'[c][mesh.parent[c]] \subseteq Subtree(c)
    <3>1. CASE c # n
      <4>1. gossip'[c] = gossip[c]
        BY <1>2, <1>3, <3>1, Zenon DEF cuckoo_do_maintenance, GossipInv, FilterType
      <4> QED BY <2>4, <4>1, Zenon DEF GossipInv
    <3>2. CASE c = n
      <4>1. gossip'[c][mesh.parent[c]] \in {{}, merged(n)}
        BY <1>2, <1>3, <3>2, Zenon DEF cuckoo_do_maintenance, GossipInv, FilterType
      <4>2. merged(n) \subseteq Subtree(n)
        BY <1>0, <2>4, <3>2, MergedInSubtree, Zenon
      <4> QED BY <3>2, <4>1, <4>2, Zenon
    <3> QED BY <3>1, <3>2, Zenon
  <2> QED BY <1>0, <1>1, <2>3, <2>4, Zenon DEF GossipInv
<1>4. ASSUME NEW n \in Member, NEW p \in Member, handle_cuckoo(n, p) PROVE GossipInv'
  <2>1. cuckoo' \in FilterType /\ gossip' \in FilterType
    BY <1>4 DEF handle_cuckoo, GossipInv, FilterType
  <2>2. ASSUME NEW x \in Member, NEW y \in Member
        PROVE  /\ gossip'[y][x] \subseteq gossip[y][x]
               /\ cuckoo'[x][y] \in {cuckoo[x][y], gossip[y][x]}
    BY <1>4, Zenon DEF handle_cuckoo, GossipInv, FilterType
  <2> QED BY <1>0, <1>1, <1>2, <2>1, <2>2, Zenon DEF GossipInv
<1>5. ASSUME NEW n \in Member, remove_peer(n) PROVE GossipInv'
  <2>1. cuckoo' \in FilterType /\ gossip' \in FilterType
    BY <1>5, Zenon DEF remove_peer, GossipInv, FilterType
  <2>2. ASSUME NEW x \in Member, NEW y \in Member
        PROVE  gossip'[y][x] \in {{}, gossip[y][x]} /\ cuckoo'[x][y] \in {{}, cuckoo[x][y]}
    BY <1>5, Zenon DEF remove_peer, GossipInv, FilterType
  <2> QED BY <1>0, <1>1, <1>2, <2>1, <2>2 DEF GossipInv
<1>6. CASE UNCHANGED gossip_vars
  BY <1>1, <1>6, Zenon DEF GossipInv, gossip_vars
<1> QED BY <1>3, <1>4, <1>5, <1>6, Zenon DEF GossipNext

\* What a node holds of its child never names a node outside the child's
\* subtree (merged in cuckoo_do_maintenance), on every mesh whose links are the
\* edges of its tree, with filters lost and replaced in any order.
THEOREM ChildFiltersAreHonest ==
    ASSUME \A m \in Meshes : PlainTree(m)
    PROVE  GossipSpec => []ChildFiltersHonest
<1>1. GossipInv => ChildFiltersHonest
  BY Zenon DEF GossipInv, ChildFiltersHonest, PeersOf, Linked, PlainTree
<1>2. GossipInv /\ [GossipNext]_gossip_vars => GossipInv'
  BY NextGossipInv, Zenon
<1>3. GossipInit => GossipInv
  BY InitGossipInv, Zenon
<1> QED BY <1>1, <1>2, <1>3, PTL DEF GossipSpec

\* A plain tree with a root that everybody is under, whose edges are links, and whose leaver is a
\* leaf of it.
RootedTree(m) ==
    LET D == DOMAIN m.parent
    IN  /\ PlainTree(m)
        /\ \A n \in D : {n, m.parent[n]} \in m.links <=> m.parent[n] # n
        /\ \E r \in D : /\ m.parent[r] = r
                        /\ \A S \in SUBSET D : r \in S /\ (\A x \in D : m.parent[x] \in S => x \in S) => S = D
        /\ m.leaver \in D /\ \A n \in D : m.parent[n] # m.leaver

\* A filter, or a frame with one, names all of S and not the leaver.
Names(f, S) == S \subseteq f /\ mesh.leaver \notin f
OnItsWay(f, S) == f = {} \/ Names(f, S)

\* The leaver is forgotten, a parent knows the subtree of each child, and a child knows of its
\* parent the rest of the mesh; what is under way says so too.
GossipSettled ==
    /\ Linked(mesh.leaver) \subseteq left
    /\ \A n, p \in Member : mesh.leaver \notin gossip[p][n]
    /\ \A n, p \in Member : n # mesh.leaver => mesh.leaver \notin cuckoo[n][p]
    /\ \A c \in Stay :
          LET n == mesh.parent[c]
          IN  n # c => /\ Names(cuckoo[n][c], Subtree(c) \ {mesh.leaver})
                       /\ OnItsWay(gossip[c][n], Subtree(c) \ {mesh.leaver})
                       /\ Names(cuckoo[c][n], Stay \ Subtree(c))
                       /\ OnItsWay(gossip[n][c], Stay \ Subtree(c))

\* Below a node are the node and what is below its children.
LEMMA SubtreeSplits ==
    ASSUME PlainTree(mesh), NEW n \in DOMAIN mesh.parent, NEW m \in Subtree(n), m # n
    PROVE  \E c \in DOMAIN mesh.parent : c # n /\ mesh.parent[c] = n /\ m \in Subtree(c)
<1> DEFINE D == DOMAIN mesh.parent
           Under == {x \in D : \E c \in D : c # n /\ mesh.parent[c] = n /\ x \in Subtree(c)}
           S == {n} \cup Under
<1>1. S \in SUBSET D /\ n \in S
  OBVIOUS
<1>2. ASSUME NEW x \in D, mesh.parent[x] \in S PROVE x \in S
  <2>1. CASE mesh.parent[x] = n
    <3>1. x \in Subtree(x)
      BY SubtreeGrows, Zenon
    <3> QED BY <2>1, <3>1, Zenon
  <2>2. CASE mesh.parent[x] \in Under
    <3>1. PICK c \in D : c # n /\ mesh.parent[c] = n /\ mesh.parent[x] \in Subtree(c)
      BY <2>2, Zenon
    <3>2. x \in Subtree(c)
      BY <3>1, Zenon DEF Subtree
    <3> QED BY <3>1, <3>2, Zenon
  <2> QED BY <1>2, <2>1, <2>2, Zenon
<1>3. m \in S
  <2> HIDE DEF S
  <2> QED BY <1>1, <1>2, Zenon DEF Subtree
<1> QED BY <1>3, Zenon

\* Everybody is below the root, and no two nodes are each other's parent.
LEMMA RootFacts ==
    ASSUME RootedTree(mesh), NEW n \in DOMAIN mesh.parent
    PROVE  /\ mesh.parent[n] = n => Subtree(n) = DOMAIN mesh.parent
           /\ mesh.parent[n] # n => mesh.parent[mesh.parent[n]] # n
<1> DEFINE D == DOMAIN mesh.parent
<1>0. PlainTree(mesh) /\ mesh.parent \in [D -> D]
  BY Zenon DEF RootedTree, PlainTree
<1>1. PICK r \in D : /\ mesh.parent[r] = r
                     /\ \A S \in SUBSET D : r \in S /\ (\A x \in D : mesh.parent[x] \in S => x \in S) => S = D
  BY Zenon DEF RootedTree
<1>2. ASSUME mesh.parent[n] = n, n # r PROVE FALSE
  <2> DEFINE S == D \ {n}
  <2>1. S \in SUBSET D /\ r \in S /\ \A x \in D : mesh.parent[x] \in S => x \in S
    BY <1>2, Zenon
  <2>2. n \notin S /\ n \in D
    BY Zenon
  <2> HIDE DEF S, D
  <2>3. S = D
    BY ONLY <1>1, <2>1, Zenon
  <2> QED BY <2>2, <2>3, Zenon
<1>3. Subtree(r) = D
  <2>1. ASSUME NEW m \in D, NEW S \in SUBSET D, r \in S, \A x \in D : mesh.parent[x] \in S => x \in S
        PROVE  m \in S
    BY <1>1, <2>1, Zenon
  <2> QED BY <2>1, Zenon DEF Subtree
<1>4. ASSUME mesh.parent[n] # n, mesh.parent[mesh.parent[n]] = n PROVE FALSE
  <2> DEFINE S == D \ {n, mesh.parent[n]}
  <2>1. S \in SUBSET D /\ r \in S /\ \A x \in D : mesh.parent[x] \in S => x \in S
    BY <1>0, <1>1, <1>4, Zenon
  <2>2. n \notin S /\ n \in D
    BY Zenon
  <2> HIDE DEF S, D
  <2>3. S = D
    BY ONLY <1>1, <2>1, Zenon
  <2> QED BY <2>2, <2>3, Zenon
<1> QED BY <1>2, <1>3, <1>4, Zenon

\* The peers of a node that stays, once everybody has noticed: its parent and the children that stay.
LEMMA PeersSettled ==
    ASSUME RootedTree(mesh), Linked(mesh.leaver) \subseteq left, NEW n \in Member
    PROVE  /\ n = mesh.leaver => PeersOf(n) = {}
           /\ n \in Stay => PeersOf(n) = {p \in Stay : p # n /\ (mesh.parent[n] = p \/ mesh.parent[p] = n)}
           /\ n \notin DOMAIN mesh.parent => PeersOf(n) = {}
<1> DEFINE D == DOMAIN mesh.parent
<1>0. D \subseteq Member /\ mesh.parent \in [D -> D] /\ mesh.leaver \in D
  BY Zenon DEF RootedTree, PlainTree
<1>1. \A a, b \in Member : {a, b} \in mesh.links =>
         a \in D /\ b \in D /\ (mesh.parent[a] = b \/ mesh.parent[b] = a)
  BY Zenon DEF RootedTree, PlainTree
<1>2. \A a \in D : {a, mesh.parent[a]} \in mesh.links <=> mesh.parent[a] # a
  BY Zenon DEF RootedTree
<1>3. \A a, b \in Member : {a, b} \in mesh.links <=>
         a \in D /\ b \in D /\ a # b /\ (mesh.parent[a] = b \/ mesh.parent[b] = a)
  <2> SUFFICES ASSUME NEW a \in Member, NEW b \in Member
               PROVE  {a, b} \in mesh.links <=>
                        a \in D /\ b \in D /\ a # b /\ (mesh.parent[a] = b \/ mesh.parent[b] = a)
    BY Zenon
  <2>1. {a, b} = {b, a}
    BY Zenon
  <2> QED BY <1>1, <1>2, <2>1, Zenon
<1>4. mesh.parent[mesh.leaver] # mesh.leaver /\ mesh.parent[mesh.leaver] \in left
  <2>1. mesh.parent[mesh.leaver] # mesh.leaver
    BY <1>0 DEF RootedTree
  <2>2. {mesh.leaver, mesh.parent[mesh.leaver]} \in mesh.links
    BY <1>0, <1>2, <2>1, Zenon
  <2>3. mesh.parent[mesh.leaver] \in Linked(mesh.leaver)
    BY <1>0, <2>2, Zenon DEF Linked
  <2> QED BY <2>1, <2>3, Zenon
<1>5. n = mesh.leaver => PeersOf(n) = {}
  BY <1>4, Zenon DEF PeersOf, Gone
<1>6. n \notin D => PeersOf(n) = {}
  BY <1>3, Zenon DEF PeersOf, Linked
<1>7. ASSUME n \in Stay
      PROVE  PeersOf(n) = {p \in Stay : p # n /\ (mesh.parent[n] = p \/ mesh.parent[p] = n)}
  <2>1. n \in D /\ n # mesh.leaver /\ PeersOf(n) = {p \in Linked(n) : ~(p = mesh.leaver /\ n \in left)}
    BY <1>7, Zenon DEF Stay, PeersOf
  <2>2. mesh.leaver \in Linked(n) => n \in left
    <3>1. {n, mesh.leaver} = {mesh.leaver, n}
      BY Zenon
    <3> QED BY <3>1, Zenon DEF Linked
  <2>3. Linked(n) = {p \in D : p # n /\ (mesh.parent[n] = p \/ mesh.parent[p] = n)}
    BY <1>0, <1>3, <2>1, Zenon DEF Linked
  <2> QED BY <2>1, <2>2, <2>3, Zenon DEF Stay
<1> QED BY <1>5, <1>6, <1>7, Zenon

\* What a settled node sends names, to its parent, its own subtree and, to a child, everybody.
LEMMA MergedSettled ==
    ASSUME RootedTree(mesh), GossipSettled, NEW n \in Stay
    PROVE  /\ Names(merged(n), Subtree(n) \ {mesh.leaver})
           /\ Names(full_merged(n), Stay)
<1> DEFINE D == DOMAIN mesh.parent
<1>0. PlainTree(mesh) /\ n \in D /\ n # mesh.leaver /\ D \subseteq Member /\ mesh.parent \in [D -> D]
  BY Zenon DEF Stay, RootedTree, PlainTree
<1>1. PeersOf(n) = {p \in Stay : p # n /\ (mesh.parent[n] = p \/ mesh.parent[p] = n)}
  BY <1>0, PeersSettled, Zenon DEF GossipSettled
<1>2. ASSUME NEW p \in Member PROVE mesh.leaver \notin cuckoo[n][p]
  BY <1>0, Zenon DEF GossipSettled
<1>3. ASSUME NEW m \in Subtree(n) \ {mesh.leaver} PROVE m \in merged(n)
  <2>1. CASE m = n
    BY <2>1, Zenon DEF merged
  <2>2. CASE m # n
    <3>1. PICK c \in D : c # n /\ mesh.parent[c] = n /\ m \in Subtree(c)
      BY <1>0, <2>2, SubtreeSplits, Zenon
    <3>2. c # mesh.leaver
      <4> SUFFICES ASSUME c = mesh.leaver PROVE FALSE
        BY Zenon
      <4>1. m # c
        BY <1>3, Zenon
      <4>2. \E e \in D : mesh.parent[e] = c
        BY <1>0, <3>1, <4>1, SubtreeSplits, Zenon
      <4> QED BY <4>2, Zenon DEF RootedTree
    <3>3. c \in Stay
      BY <3>2, Zenon DEF Stay
    <3>4. c \in PeersOf(n) \ {mesh.parent[n]}
      BY <1>0, <1>1, <3>1, <3>3, RootFacts, Zenon
    <3>5. m \in cuckoo[n][c]
      BY <3>1, <3>3, Zenon DEF GossipSettled, Names
    <3> QED BY <3>4, <3>5, Zenon DEF merged
  <2> QED BY <2>1, <2>2, Zenon
<1>4. mesh.leaver \notin merged(n)
  <2>1. \A p \in PeersOf(n) : p \in Member
    BY <1>0, <1>1, Zenon DEF Stay
  <2> QED BY <1>0, <1>2, <2>1, Zenon DEF merged
<1>5. mesh.leaver \notin full_merged(n)
  <2>1. mesh.parent[n] \in Member
    BY <1>0
  <2> QED BY <1>2, <1>4, <2>1, Zenon DEF full_merged
<1>6. ASSUME NEW m \in Stay PROVE m \in full_merged(n)
  <2>1. CASE m \in Subtree(n)
    BY <1>3, <2>1, Zenon DEF full_merged, Stay
  <2>2. CASE m \notin Subtree(n)
    <3>1. mesh.parent[n] # n
      BY <1>0, <2>2, RootFacts, Zenon DEF Stay
    <3>2. m \in cuckoo[n][mesh.parent[n]]
      BY <2>2, <3>1, Zenon DEF GossipSettled, Names
    <3> QED BY <3>1, <3>2, Zenon DEF full_merged, Alone
  <2> QED BY <2>1, <2>2, Zenon
<1> QED BY <1>3, <1>4, <1>5, <1>6, Zenon DEF Names

\* The four things that are said of a child and its parent, of given filters and frames.
Pair(c, up, down, rising, falling) ==
    /\ Names(up, Subtree(c) \ {mesh.leaver}) /\ OnItsWay(rising, Subtree(c) \ {mesh.leaver})
    /\ Names(down, Stay \ Subtree(c)) /\ OnItsWay(falling, Stay \ Subtree(c))

LEMMA MaintenanceSettled ==
    ASSUME RootedTree(mesh), GossipInv, GossipSettled, NEW n \in Member, cuckoo_do_maintenance(n)
    PROVE  GossipSettled'
<1> DEFINE D == DOMAIN mesh.parent
           sent == [p \in Member |-> IF p \notin PeersOf(n) THEN {}
                        ELSE IF p = mesh.parent[n] THEN merged(n) ELSE full_merged(n)]
<1>0. gossip' = [gossip EXCEPT ![n] = sent] /\ UNCHANGED <<mesh, cuckoo, left>>
  BY Zenon DEF cuckoo_do_maintenance
<1>1. gossip \in [Member -> [Member -> SUBSET Member]] /\ D \subseteq Member /\ mesh.parent \in [D -> D]
      /\ mesh.leaver \in D
  BY Zenon DEF GossipInv, FilterType, RootedTree, PlainTree
<1>2. ASSUME NEW p \in Member
      PROVE  \/ sent[p] = {}
             \/ n \in Stay /\ p \in Stay /\ sent[p] = (IF p = mesh.parent[n] THEN merged(n) ELSE full_merged(n))
  <2>1. sent[p] # {} => p \in PeersOf(n)
    BY Zenon
  <2>2. p \in PeersOf(n) => n \in Stay
    BY PeersSettled, Zenon DEF GossipSettled, Stay
  <2>3. p \in PeersOf(n) => p \in Stay
    BY <2>2, PeersSettled DEF GossipSettled
  <2> QED BY <2>1, <2>2, <2>3, Zenon
<1> HIDE DEF sent
<1>3. ASSUME NEW p \in Member, NEW q \in Member
      PROVE  gossip'[p][q] = IF p = n THEN sent[q] ELSE gossip[p][q]
  BY <1>0, <1>1, Zenon
<1>4. ASSUME NEW p \in Member, NEW q \in Member PROVE mesh.leaver \notin gossip'[q][p]
  <2>1. mesh.leaver \notin sent[p]
    BY <1>2, MergedSettled, Zenon DEF Names
  <2> QED BY <1>3, <2>1, Zenon DEF GossipSettled
<1>5. ASSUME NEW c \in Stay, mesh.parent[c] # c
      PROVE  LET p == mesh.parent[c] IN Pair(c, cuckoo[p][c], cuckoo[c][p], gossip'[c][p], gossip'[p][c])
  <2> DEFINE p == mesh.parent[c]
  <2>1. c \in D /\ c \in Member /\ p \in Member /\ p \in D
    BY <1>1, Zenon DEF Stay
  <2>2. Pair(c, cuckoo[p][c], cuckoo[c][p], gossip[c][p], gossip[p][c])
    BY <1>5 DEF GossipSettled, Pair
  <2>3. OnItsWay(gossip'[c][p], Subtree(c) \ {mesh.leaver})
    <3>1. CASE c = n
      <4>1. sent[p] = {} \/ sent[p] = merged(c)
        BY <1>2, <2>1, <3>1, Zenon
      <4>2. Names(merged(c), Subtree(c) \ {mesh.leaver})
        BY MergedSettled, Zenon
      <4> QED BY <1>3, <2>1, <3>1, <4>1, <4>2, Zenon DEF OnItsWay
    <3>2. CASE c # n
      BY <1>3, <2>1, <2>2, <3>2, Zenon DEF Pair
    <3> QED BY <3>1, <3>2, Zenon
  <2>4. OnItsWay(gossip'[p][c], Stay \ Subtree(c))
    <3>1. CASE p = n
      <4>1. c # mesh.parent[n]
        BY <1>5, <2>1, <3>1, RootFacts, Zenon
      <4>2. sent[c] = {} \/ (n \in Stay /\ sent[c] = full_merged(n))
        BY <1>2, <2>1, <4>1, Zenon
      <4>3. n \in Stay => Names(full_merged(n), Stay)
        BY MergedSettled, Zenon
      <4> QED BY <1>3, <2>1, <3>1, <4>2, <4>3 DEF OnItsWay, Names
    <3>2. CASE p # n
      BY <1>3, <2>1, <2>2, <3>2, Zenon DEF Pair
    <3> QED BY <3>1, <3>2
  <2> QED BY <2>2, <2>3, <2>4, Zenon DEF Pair
<1>6. Linked(mesh.leaver)' \subseteq left' /\ Stay' = Stay /\ (\A c : Subtree(c)' = Subtree(c))
  BY <1>0, Zenon DEF GossipSettled, Linked, Stay, Subtree
<1>7. \A p, q \in Member : p # mesh.leaver => mesh.leaver \notin cuckoo[p][q]
  BY Zenon DEF GossipSettled
<1> QED BY <1>0, <1>4, <1>5, <1>6, <1>7, Zenon DEF GossipSettled, Pair, Names, OnItsWay

LEMMA HandleSettled ==
    ASSUME RootedTree(mesh), GossipInv, GossipSettled, NEW n \in Member, NEW p \in Member, handle_cuckoo(n, p)
    PROVE  GossipSettled'
<1> DEFINE D == DOMAIN mesh.parent
<1>0. /\ gossip[p][n] # {} /\ gossip' = [gossip EXCEPT ![p][n] = {}] /\ UNCHANGED <<mesh, left>>
      /\ cuckoo' = cuckoo \/ cuckoo' = [cuckoo EXCEPT ![n][p] = gossip[p][n]]
  BY Zenon DEF handle_cuckoo
<1>1. /\ gossip \in [Member -> [Member -> SUBSET Member]] /\ cuckoo \in [Member -> [Member -> SUBSET Member]]
      /\ D \subseteq Member /\ mesh.parent \in [D -> D]
  BY Zenon DEF GossipInv, FilterType, RootedTree, PlainTree
<1>2. ASSUME NEW x \in Member, NEW y \in Member
      PROVE  /\ gossip'[y][x] \in {gossip[y][x], {}}
             /\ cuckoo'[x][y] = cuckoo[x][y] \/ (gossip[y][x] # {} /\ cuckoo'[x][y] = gossip[y][x])
  BY <1>0, <1>1
<1>3. ASSUME NEW x \in Member, NEW y \in Member
      PROVE  /\ mesh.leaver \notin gossip'[y][x]
             /\ x # mesh.leaver => mesh.leaver \notin cuckoo'[x][y]
  BY <1>2 DEF GossipSettled
<1>4. ASSUME NEW c \in Stay, mesh.parent[c] # c
      PROVE  LET q == mesh.parent[c] IN Pair(c, cuckoo'[q][c], cuckoo'[c][q], gossip'[c][q], gossip'[q][c])
  <2> DEFINE q == mesh.parent[c]
  <2>1. c \in Member /\ q \in Member
    BY <1>1, Zenon DEF Stay
  <2>2. Pair(c, cuckoo[q][c], cuckoo[c][q], gossip[c][q], gossip[q][c])
    BY <1>4 DEF GossipSettled, Pair
  <2> HIDE DEF q
  <2> QED BY <1>2, <2>1, <2>2, Zenon DEF Pair, OnItsWay, q
<1>5. Linked(mesh.leaver)' \subseteq left' /\ Stay' = Stay /\ (\A c : Subtree(c)' = Subtree(c))
  BY <1>0, Zenon DEF GossipSettled, Linked, Stay, Subtree
<1> QED BY <1>0, <1>3, <1>4, <1>5, Zenon DEF GossipSettled, Pair, Names, OnItsWay

\* Every node that stays has a claimer for every other, and none for the leaver.
LEMMA SettledRoutable ==
    ASSUME RootedTree(mesh), GossipSettled
    PROVE  Routable
<1> DEFINE D == DOMAIN mesh.parent
<1>0. PlainTree(mesh) /\ D \subseteq Member /\ mesh.parent \in [D -> D]
  BY Zenon DEF RootedTree, PlainTree
<1> SUFFICES ASSUME NEW n \in Stay
             PROVE  (\A m \in Stay \ {n} : Claimed(n, m)) /\ ~Claimed(n, mesh.leaver)
  BY Zenon DEF Routable
<1>1. n \in D /\ n \in Member /\ n # mesh.leaver
  BY <1>0, Zenon DEF Stay
<1>2. PeersOf(n) = {p \in Stay : p # n /\ (mesh.parent[n] = p \/ mesh.parent[p] = n)}
  BY <1>1, PeersSettled DEF GossipSettled
<1>3. ~Claimed(n, mesh.leaver)
  <2>1. \A p \in PeersOf(n) : p \in Member
    BY <1>0, <1>2, Zenon DEF Stay
  <2> QED BY <1>1, <2>1, Zenon DEF Claimed, GossipSettled
<1>4. ASSUME NEW m \in Stay \ {n} PROVE Claimed(n, m)
  <2>1. CASE m \in Subtree(n)
    <3>1. PICK c \in D : c # n /\ mesh.parent[c] = n /\ m \in Subtree(c)
      BY <1>0, <1>1, <1>4, <2>1, SubtreeSplits, Zenon
    <3>2. c # mesh.leaver
      <4> SUFFICES ASSUME c = mesh.leaver PROVE FALSE
        BY Zenon
      <4>1. m # c
        BY <1>4, Zenon DEF Stay
      <4>2. \E e \in D : mesh.parent[e] = c
        BY <1>0, <3>1, <4>1, SubtreeSplits
      <4> QED BY <4>2, Zenon DEF RootedTree
    <3>3. c \in Stay /\ c \in PeersOf(n)
      BY <1>2, <3>1, <3>2, Zenon DEF Stay
    <3>4. m \in cuckoo[n][c]
      BY <1>4, <3>1, <3>3, Zenon DEF GossipSettled, Names, Stay
    <3> QED BY <3>3, <3>4, Zenon DEF Claimed
  <2>2. CASE m \notin Subtree(n)
    <3>1. mesh.parent[n] # n
      BY <1>1, <1>4, <2>2, RootFacts, Zenon DEF Stay
    <3>2. m \in cuckoo[n][mesh.parent[n]]
      BY <1>4, <2>2, <3>1, Zenon DEF GossipSettled, Names
    <3>3. mesh.parent[n] \in Stay
      BY <1>0, <1>1 DEF Stay, RootedTree
    <3> QED BY <1>2, <3>1, <3>2, <3>3, Zenon DEF Claimed
  <2> QED BY <2>1, <2>2, Zenon
<1> QED BY <1>3, <1>4, Zenon

\* Once the filters of a mesh have settled after a node left, they stay so: whatever ticks and
\* frames are still to come, every node has a claimer for every other, and the tag of the one that
\* left does not come back (cuckoo_do_maintenance and handle_cuckoo replace whole filters).
THEOREM GossipStaysSettled ==
    ASSUME \A m \in Meshes : PlainTree(m)
    PROVE  GossipSpec => [](RootedTree(mesh) /\ GossipSettled => []Routable)
<1> DEFINE Q == RootedTree(mesh) /\ GossipSettled
<1>1. GossipInv /\ [GossipNext]_gossip_vars => GossipInv'
  BY NextGossipInv, Zenon
<1>2. GossipInit => GossipInv
  BY InitGossipInv, Zenon
<1>3. GossipInv /\ Q /\ [GossipNext]_gossip_vars => Q'
  <2> SUFFICES ASSUME GossipInv, RootedTree(mesh), GossipSettled, [GossipNext]_gossip_vars
               PROVE  RootedTree(mesh)' /\ GossipSettled'
    BY Zenon
  <2>1. ASSUME NEW n \in Member, cuckoo_do_maintenance(n) PROVE GossipSettled'
    BY <2>1, MaintenanceSettled, Zenon
  <2>2. ASSUME NEW n \in Member, NEW p \in Member, handle_cuckoo(n, p) PROVE GossipSettled'
    BY <2>2, HandleSettled, Zenon
  <2>3. ASSUME NEW n \in Member, remove_peer(n) PROVE FALSE
    BY <2>3, Zenon DEF remove_peer, GossipSettled
  <2>4. CASE UNCHANGED gossip_vars
    BY <2>4 DEF gossip_vars, GossipSettled, Linked, Stay, Subtree, Names, OnItsWay
  <2>5. mesh' = mesh
    BY Zenon DEF GossipNext, cuckoo_do_maintenance, handle_cuckoo, remove_peer, gossip_vars
  <2>6. RootedTree(mesh)'
    BY <2>5, Zenon DEF RootedTree, PlainTree
  <2> QED BY <2>1, <2>2, <2>3, <2>4, <2>6, Zenon DEF GossipNext
<1>4. GossipInv /\ Q => Routable
  BY SettledRoutable, Zenon
<1> QED BY <1>1, <1>2, <1>3, <1>4, PTL DEF GossipSpec

-----------------------------------------------------------------------------
(* Floods.                                                                 *)

\* A set of naturals that is not empty has a least element.
LEMMA LeastNat ==
    ASSUME NEW T \in SUBSET Nat, T # {}
    PROVE  \E x \in T : \A y \in T : x <= y
<1>1. PICK x \in T : \A y \in T : ~(<<y, x>> \in OpToRel(<, Nat))
  BY WFMin, NatLessThanWellFounded, Zenon
<1>2. \A y \in T : ~(y < x)
  BY <1>1, Zenon DEF OpToRel
<1> QED BY <1>2

EntryType == [subject : Station \X Station, seq : Nat, life : Nat]
AirType == [to : Station, from : Station, subject : Station \X Station, seq : Nat, life : Nat]
PassType == [by : Station, subject : Station \X Station, seq : Nat, life : Nat]

FloodType ==
    /\ plan \in Plans
    /\ own_seq \in [Station -> Nat]
    /\ life \in [Station -> Nat]
    /\ air \subseteq AirType
    /\ passed_on \subseteq PassType
    /\ \A f \in air : f.subject \in plan.subjects

\* A table has one entry on a subject, and only on subjects of the plan.
Tidy(t) ==
    /\ t \subseteq EntryType
    /\ \A e \in t : e.subject \in plan.subjects
    /\ \A e, x \in t : e.subject = x.subject => e = x

\* While the tables have room, what a node has passed on, or something newer, is on file.
OnFile ==
    /\ table \in [Station -> SUBSET EntryType]
    /\ \A n \in Station : Tidy(table[n])
    /\ \A p \in passed_on :
          /\ p.subject[1] # p.by
          /\ \E e \in table[p.by] : e.subject = p.subject /\ e.seq >= p.seq

\* n has passed on what m carries.
PassedOn(n, m) == [by |-> n, subject |-> m.subject, seq |-> m.seq, life |-> m.life] \in passed_on

\* On a tree an announce comes down from the node above, which has sent it once, and is
\* passed on at every node after the one above.
Downward(U) ==
    /\ plan.restarts = {}
    /\ \A s \in plan.subjects : Leads(plan, s[1], U[s[1]])
    /\ \A f \in air :
          /\ f.to # f.subject[1] /\ f.from = U[f.subject[1]][f.to]
          /\ f.seq <= own_seq[f.subject[1]]
          /\ ~PassedOn(f.to, f)
          /\ f.from = f.subject[1] \/ PassedOn(f.from, f)
    /\ \A p \in passed_on :
          /\ p.by # p.subject[1]
          /\ p.seq <= own_seq[p.subject[1]]
          /\ U[p.subject[1]][p.by] = p.subject[1] \/ PassedOn(U[p.subject[1]][p.by], p)

\* The inductive invariants.
RoomInv == FloodType /\ Roomy(plan) /\ OnFile /\ ~repeats
TreeInv(U) == FloodType /\ Downward(U) /\ ~repeats

\* A table with room for every subject records an announce as it comes.
LEMMA RoomRecords ==
    ASSUME plan \in Plans, Roomy(plan), NEW n, NEW t, Tidy(t), NEW e, e.subject \in plan.subjects
    PROVE  record(n, t, e) = {put(t, e)}
<1> DEFINE About(a) == {x \in t : x.subject[2] = a}
           full == Cardinality(t) >= plan.cap /\ About(e.subject[2]) = {}
<1>1. IsFiniteSet(plan.subjects) /\ plan.cap \in Nat
  BY FloodAssumption, Zenon
<1>2. ~full
  <2> SUFFICES ASSUME full PROVE FALSE
    BY Zenon
  <2> DEFINE S == plan.subjects \ {e.subject}
             g == [x \in t |-> x.subject]
  <2>1. IsFiniteSet(S) /\ Cardinality(S) = Cardinality(plan.subjects) - 1
    BY <1>1, FS_RemoveElement, Zenon
  <2>2. g \in [t -> S]
    BY Zenon DEF Tidy
  <2>3. \A x, y \in t : g[x] = g[y] => x = y
    BY Zenon DEF Tidy
  <2> HIDE DEF g, S
  <2>4. g \in Injection(t, S)
    BY <2>2, <2>3, Zenon DEF Injection, IsInjective
  <2>5. IsFiniteSet(t) /\ Cardinality(t) <= Cardinality(S)
    BY <2>1, <2>4, FS_Injection, Zenon
  <2>6. Cardinality(t) \in Nat /\ Cardinality(plan.subjects) \in Nat
    BY <1>1, <2>5, FS_CardinalityType, Zenon
  <2> QED BY <1>1, <2>1, <2>5, <2>6 DEF Roomy
<1> QED BY <1>2, Zenon DEF record

\* Recording keeps a table tidy, and keeps every entry on another subject.
LEMMA PutTidy ==
    ASSUME NEW t, Tidy(t), NEW e \in EntryType, e.subject \in plan.subjects
    PROVE  /\ Tidy(put(t, e))
           /\ e \in put(t, e)
           /\ \A x \in t : x.subject # e.subject => x \in put(t, e)
BY Zenon DEF Tidy, put


\* The tables after i of the entries, by the equations of recorded.
TablesOf(o, entries, i, before) ==
    IF i = 0 THEN {table[o]} ELSE UNION {record(o, t, entries[i]) : t \in before}

TablesTo(o, entries, m, g) == g = [i \in 0 .. m |-> TablesOf(o, entries, i, g[i - 1])]

LEMMA FirstTables ==
    ASSUME NEW o, NEW entries, NEW a, NEW b
    PROVE  TablesOf(o, entries, 0, a) = TablesOf(o, entries, 0, b)
BY Zenon DEF TablesOf

LEMMA TablesDefined ==
    ASSUME NEW o, NEW entries, NEW m \in Nat
    PROVE  \E g : TablesTo(o, entries, m, g)
<1> DEFINE T == {k \in Nat : ~\E g : TablesTo(o, entries, k, g)}
<1> SUFFICES ASSUME T # {} PROVE FALSE
  BY Zenon
<1>1. PICK k \in T : \A y \in T : k <= y
  <2>1. T \in SUBSET Nat
    BY Zenon
  <2> HIDE DEF T
  <2> QED BY <2>1, LeastNat, Zenon
<1>2. k \in Nat
  BY <1>1, Zenon
<1>3. k # 0
  <2> SUFFICES ASSUME k = 0 PROVE FALSE
    BY Zenon
  <2> DEFINE g == [i \in 0 .. 0 |-> TablesOf(o, entries, i, 0)]
  <2>1. \A i \in 0 .. 0 : TablesOf(o, entries, i, 0) = TablesOf(o, entries, i, g[i - 1])
    <3>1. \A i \in 0 .. 0 : i = 0
      OBVIOUS
    <3> HIDE DEF g
    <3> QED BY <3>1, FirstTables
  <2>2. g = [i \in 0 .. 0 |-> TablesOf(o, entries, i, g[i - 1])]
    BY <2>1, Zenon
  <2>3. TablesTo(o, entries, 0, g)
    BY <2>2, Zenon DEF TablesTo
  <2> QED BY <1>1, <2>3, Zenon
<1>4. k - 1 \in Nat /\ k - 1 \notin T
  BY <1>1, <1>2, <1>3
<1>5. PICK g : TablesTo(o, entries, k - 1, g)
  BY <1>4, Zenon
<1>6. g = [i \in 0 .. k - 1 |-> TablesOf(o, entries, i, g[i - 1])]
  BY <1>5, Zenon DEF TablesTo
<1> DEFINE h == [i \in 0 .. k |-> IF i = k THEN TablesOf(o, entries, k, g[k - 1]) ELSE g[i]]
<1>7. ASSUME NEW i \in 0 .. k PROVE h[i] = TablesOf(o, entries, i, h[i - 1])
  <2>1. CASE i = k
    <3>1. h[k] = TablesOf(o, entries, k, g[k - 1]) /\ h[k - 1] = g[k - 1]
      BY <1>2, <1>3
    <3> QED BY <2>1, <3>1, Zenon
  <2>2. CASE i # k
    <3>1. i \in 0 .. k - 1 /\ h[i] = g[i]
      BY <1>2, <2>2
    <3>2. g[i] = TablesOf(o, entries, i, g[i - 1])
      BY <1>6, <3>1, Zenon
    <3>3. i # 0 => i - 1 \in 0 .. k /\ i - 1 # k
      BY <1>2, <3>1
    <3>4. i # 0 => h[i - 1] = g[i - 1]
      BY <3>3, Zenon
    <3> HIDE DEF h
    <3>5. i = 0 => TablesOf(o, entries, i, g[i - 1]) = TablesOf(o, entries, i, h[i - 1])
      BY FirstTables, Zenon
    <3> QED BY <3>1, <3>2, <3>4, <3>5, Zenon
  <2> QED BY <2>1, <2>2
<1>8. TablesTo(o, entries, k, h)
  <2>1. h = [i \in 0 .. k |-> h[i]]
    BY Zenon
  <2> HIDE DEF h
  <2>2. h = [i \in 0 .. k |-> TablesOf(o, entries, i, h[i - 1])]
    BY <1>7, <2>1, Zenon
  <2> QED BY <2>2, Zenon DEF TablesTo
<1> QED BY <1>1, <1>8, Zenon

\* A node that records its own entries keeps those of the other origins.
KeepsOthers(o, t) == Tidy(t) /\ \A x \in table[o] : x.subject[1] # o => x \in t

LEMMA RecordedKeeps ==
    ASSUME plan \in Plans, Roomy(plan), NEW o, Tidy(table[o]), NEW entries, Len(entries) \in Nat,
           \A i \in 1 .. Len(entries) :
               entries[i] \in EntryType /\ entries[i].subject \in plan.subjects
               /\ entries[i].subject[1] = o
    PROVE  \A t \in recorded(o, entries) : KeepsOthers(o, t)
<1> DEFINE m == Len(entries)
           g == CHOOSE f : TablesTo(o, entries, m, f)
<1>1. TablesTo(o, entries, m, g)
  BY TablesDefined, Zenon
<1>2. recorded(o, entries) = g[m]
  BY Zenon DEF recorded, TablesTo, TablesOf
<1>3. m \in Nat
  BY Zenon
<1> HIDE DEF g, m
<1>4. \A i \in 0 .. m : g[i] = TablesOf(o, entries, i, g[i - 1])
  <2>1. g = [i \in 0 .. m |-> TablesOf(o, entries, i, g[i - 1])]
    BY <1>1, Zenon DEF TablesTo
  <2> QED BY <2>1, Zenon
<1> DEFINE T == {k \in Nat : k <= m /\ \E t \in g[k] : ~KeepsOthers(o, t)}
<1>5. T = {}
  <2> SUFFICES ASSUME T # {} PROVE FALSE
    BY Zenon
  <2>1. PICK k \in T : \A y \in T : k <= y
    <3>1. T \in SUBSET Nat
      BY Zenon
    <3> HIDE DEF T
    <3> QED BY <3>1, LeastNat, Zenon
  <2>2. k \in 0 .. m /\ k \in Nat
    BY <1>3, <2>1
  <2>3. PICK t \in g[k] : ~KeepsOthers(o, t)
    BY <2>1, Zenon
  <2>4. k # 0
    <3> SUFFICES ASSUME k = 0 PROVE FALSE
      OBVIOUS
    <3>1. t = table[o]
      BY <1>4, <2>2, <2>3, Zenon DEF TablesOf
    <3> QED BY <2>3, <3>1, Zenon DEF KeepsOthers
  <2>5. k - 1 \in Nat /\ k - 1 <= m /\ k - 1 \notin T /\ k \in 1 .. m
    BY <1>3, <2>1, <2>2, <2>4
  <2>6. PICK b \in g[k - 1] : t \in record(o, b, entries[k])
    <3>1. g[k] = UNION {record(o, b, entries[k]) : b \in g[k - 1]}
      BY <1>4, <2>2, <2>4, Zenon DEF TablesOf
    <3> QED BY <2>3, <3>1, Zenon
  <2>7. KeepsOthers(o, b)
    BY <2>5, <2>6, Zenon
  <2>8. /\ entries[k] \in EntryType /\ entries[k].subject \in plan.subjects
        /\ entries[k].subject[1] = o
    BY <2>5, Zenon DEF m
  <2>9. t = put(b, entries[k])
    BY <2>6, <2>7, <2>8, RoomRecords DEF KeepsOthers
  <2>10. KeepsOthers(o, t)
    BY <2>7, <2>8, <2>9, PutTidy, Zenon DEF KeepsOthers
  <2> QED BY <2>3, <2>10, Zenon
<1>6. m \in Nat /\ m <= m
  BY <1>3
<1> QED BY <1>2, <1>5, <1>6, Zenon


\* What a broadcast sends: announces of the origin itself under new numbers.
Fresh(f, o, k) ==
    /\ f \in AirType
    /\ f.from = o /\ f.to \in Neighbours(o)
    /\ f.subject \in plan.subjects /\ f.subject[1] = o
    /\ f.seq \in own_seq[o] + 1 .. own_seq[o] + k
    /\ f.life = life[o]

LEMMA SendFields ==
    ASSUME NEW n \in Station, NEW e \in EntryType, NEW targets \in SUBSET Station,
           NEW f \in Send(n, e, targets)
    PROVE  /\ f \in AirType /\ f.from = n /\ f.to \in targets
           /\ f.subject = e.subject /\ f.seq = e.seq /\ f.life = e.life
BY DEF Send, AirType, EntryType

LEMMA AnnounceStep ==
    ASSUME FloodType, NEW o \in Station, NEW entries, NEW tables, Len(entries) \in Nat,
           \A i \in 1 .. Len(entries) :
               /\ entries[i] \in EntryType /\ entries[i].subject \in plan.subjects
               /\ entries[i].subject[1] = o
               /\ entries[i].seq \in own_seq[o] + 1 .. own_seq[o] + Len(entries)
               /\ entries[i].life = life[o],
           Announce(o, entries, tables)
    PROVE  /\ own_seq' = [own_seq EXCEPT ![o] = own_seq[o] + Len(entries)]
           /\ \E t \in tables : table' = [table EXCEPT ![o] = t]
           /\ air \subseteq air' /\ \A f \in air' \ air : Fresh(f, o, Len(entries))
           /\ UNCHANGED <<plan, life, passed_on, repeats>>
<1>1. air' = air \cup UNION {Send(o, entries[i], Neighbours(o)) : i \in 1 .. Len(entries)}
  BY Zenon DEF Announce
<1>2. ASSUME NEW f \in air' \ air PROVE Fresh(f, o, Len(entries))
  <2>1. PICK i \in 1 .. Len(entries) : f \in Send(o, entries[i], Neighbours(o))
    BY <1>1, <1>2, Zenon
  <2>2. Neighbours(o) \in SUBSET Station
    BY Zenon DEF Neighbours
  <2>3. /\ f \in AirType /\ f.from = o /\ f.to \in Neighbours(o)
        /\ f.subject = entries[i].subject /\ f.seq = entries[i].seq /\ f.life = entries[i].life
    BY <2>1, <2>2, SendFields
  <2> QED BY <2>3, Zenon DEF Fresh
<1> QED BY <1>1, <1>2, Zenon DEF Announce

\* What a broadcast does, and what it leaves in the table while that has room.
LEMMA BroadcastStep ==
    ASSUME FloodType, NEW o \in Station, o \in Origins, Broadcast(o)
    PROVE  \E k \in Nat :
              /\ own_seq' = [own_seq EXCEPT ![o] = own_seq[o] + k]
              /\ \E t : /\ table' = [table EXCEPT ![o] = t]
                        /\ Roomy(plan) /\ Tidy(table[o]) => KeepsOthers(o, t)
              /\ air \subseteq air' /\ \A f \in air' \ air : Fresh(f, o, k)
              /\ UNCHANGED <<plan, life, passed_on, repeats>>
<1>1. own_seq[o] \in Nat /\ life[o] \in Nat /\ plan \in Plans
  BY Zenon DEF FloodType
<1>2. PICK s \in plan.subjects : o = s[1]
  BY Zenon DEF Origins
<1>3. ASSUME plan.kind \in {"onion key", "capabilities"}, AnnounceSelf(o)
      PROVE  \E k \in Nat :
              /\ own_seq' = [own_seq EXCEPT ![o] = own_seq[o] + k]
              /\ \E t : /\ table' = [table EXCEPT ![o] = t]
                        /\ Roomy(plan) /\ Tidy(table[o]) => KeepsOthers(o, t)
              /\ air \subseteq air' /\ \A f \in air' \ air : Fresh(f, o, k)
              /\ UNCHANGED <<plan, life, passed_on, repeats>>
  <2> DEFINE e == Entry(<<o, o>>, own_seq[o] + 1, life[o])
             entries == <<e>>
  <2>1. <<o, o>> \in plan.subjects
    BY <1>1, <1>2, <1>3, FloodAssumption
  <2>2. /\ e \in EntryType /\ e.subject = <<o, o>> /\ e.subject[1] = o
        /\ e.seq = own_seq[o] + 1 /\ e.life = life[o]
    <3>1. own_seq[o] + 1 \in Nat /\ life[o] \in Nat /\ <<o, o>> \in Station \X Station
      BY <1>1
    <3>2. e = [subject |-> <<o, o>>, seq |-> own_seq[o] + 1, life |-> life[o]]
      BY Zenon DEF Entry
    <3> QED BY <1>1, <3>1, <3>2 DEF EntryType
  <2>3. Announce(o, entries, {put(table[o], e)})
    BY <1>3, Zenon DEF AnnounceSelf
  <2> HIDE DEF e
  <2>4. Len(entries) = 1 /\ entries[1] = e
    BY Zenon
  <2> HIDE DEF entries
  <2>5. \A i \in 1 .. Len(entries) :
               /\ entries[i] \in EntryType /\ entries[i].subject \in plan.subjects
               /\ entries[i].subject[1] = o
               /\ entries[i].seq \in own_seq[o] + 1 .. own_seq[o] + Len(entries)
               /\ entries[i].life = life[o]
    <3>1. \A i \in 1 .. Len(entries) : i = 1
      BY <2>4
    <3>2. own_seq[o] + 1 \in own_seq[o] + 1 .. own_seq[o] + 1
      BY <1>1
    <3> QED BY <2>1, <2>2, <2>4, <3>1, <3>2, Zenon
  <2>6. /\ own_seq' = [own_seq EXCEPT ![o] = own_seq[o] + Len(entries)]
        /\ \E t \in {put(table[o], e)} : table' = [table EXCEPT ![o] = t]
        /\ air \subseteq air' /\ \A f \in air' \ air : Fresh(f, o, Len(entries))
        /\ UNCHANGED <<plan, life, passed_on, repeats>>
    <3>1. PICK ts : ts = {put(table[o], e)}
      BY Zenon
    <3>2. Announce(o, entries, ts) /\ Len(entries) \in Nat
      BY <2>3, <2>4, <3>1
    <3>3. /\ own_seq' = [own_seq EXCEPT ![o] = own_seq[o] + Len(entries)]
          /\ \E t \in ts : table' = [table EXCEPT ![o] = t]
          /\ air \subseteq air' /\ \A f \in air' \ air : Fresh(f, o, Len(entries))
          /\ UNCHANGED <<plan, life, passed_on, repeats>>
      BY <2>5, <3>2, AnnounceStep, Zenon
    <3> QED BY <3>1, <3>3, Zenon
  <2>7. Tidy(table[o]) => KeepsOthers(o, put(table[o], e))
    BY <2>1, <2>2, PutTidy, Zenon DEF KeepsOthers
  <2>8. Len(entries) \in Nat
    BY <2>4
  <2> QED BY <2>6, <2>7, <2>8, Zenon
<1>4. ASSUME plan.kind = "reputation", broadcast_reputation(o)
      PROVE  \E k \in Nat :
              /\ own_seq' = [own_seq EXCEPT ![o] = own_seq[o] + k]
              /\ \E t : /\ table' = [table EXCEPT ![o] = t]
                        /\ Roomy(plan) /\ Tidy(table[o]) => KeepsOthers(o, t)
              /\ air \subseteq air' /\ \A f \in air' \ air : Fresh(f, o, k)
              /\ UNCHANGED <<plan, life, passed_on, repeats>>
  <2>1. PICK order \in Injection(1 .. Cardinality(Neighbours(o)), Neighbours(o)) :
            Announce(o, Reports(o, order), recorded(o, Reports(o, order)))
    BY <1>4, Zenon DEF broadcast_reputation
  <2> DEFINE entries == Reports(o, order)
             c == Cardinality(Neighbours(o))
  <2>2. c \in Nat
    <3>1. IsFiniteSet(Neighbours(o))
      BY FloodAssumption, FS_Subset, Zenon DEF Neighbours
    <3> QED BY <3>1, FS_CardinalityType, Zenon
  <2>3. order \in [1 .. c -> Neighbours(o)]
    BY <2>1, Zenon DEF Injection, IsInjective
  <2> HIDE DEF c
  <2>4. Len(order) = c /\ \A i \in 1 .. c : order[i] \in Neighbours(o)
    BY <2>2, <2>3
  <2>5. Len(entries) = c
        /\ \A i \in 1 .. c : entries[i] = Entry(<<o, order[i]>>, own_seq[o] + i, life[o])
    BY <2>2, <2>4 DEF Reports
  <2> HIDE DEF entries
  <2>6. ASSUME NEW i \in 1 .. Len(entries)
        PROVE  /\ entries[i] \in EntryType /\ entries[i].subject \in plan.subjects
               /\ entries[i].subject[1] = o
               /\ entries[i].seq \in own_seq[o] + 1 .. own_seq[o] + Len(entries)
               /\ entries[i].life = life[o]
    <3>1. order[i] \in Station /\ {o, order[i]} \in plan.links
      BY <2>4, <2>5, Zenon DEF Neighbours
    <3>2. <<o, order[i]>> \in plan.subjects
      BY <1>1, <1>2, <1>4, <3>1, FloodAssumption, Zenon
    <3>3. own_seq[o] + i \in own_seq[o] + 1 .. own_seq[o] + Len(entries) /\ own_seq[o] + i \in Nat
      BY <1>1, <2>2, <2>5
    <3>4. entries[i] = [subject |-> <<o, order[i]>>, seq |-> own_seq[o] + i, life |-> life[o]]
      BY <2>5, Zenon DEF Entry
    <3> QED BY <1>1, <3>1, <3>2, <3>3, <3>4 DEF EntryType
  <2>7. Announce(o, entries, recorded(o, entries))
    BY <2>1 DEF entries
  <2>8. /\ own_seq' = [own_seq EXCEPT ![o] = own_seq[o] + Len(entries)]
        /\ \E t \in recorded(o, entries) : table' = [table EXCEPT ![o] = t]
        /\ air \subseteq air' /\ \A f \in air' \ air : Fresh(f, o, Len(entries))
        /\ UNCHANGED <<plan, life, passed_on, repeats>>
    BY <2>2, <2>5, <2>6, <2>7, AnnounceStep, Zenon
  <2>9. Roomy(plan) /\ Tidy(table[o]) => \A t \in recorded(o, entries) : KeepsOthers(o, t)
    BY <1>1, <2>2, <2>5, <2>6, RecordedKeeps, Zenon
  <2>10. Len(entries) \in Nat
    BY <2>2, <2>5, Zenon
  <2> QED BY <2>8, <2>9, <2>10, Zenon
<1> QED BY <1>3, <1>4, Zenon DEF Broadcast, broadcast_onion_key_announce, broadcast_capabilities,
                         broadcast_reputation


LEMMA BroadcastType ==
    ASSUME FloodType, NEW o \in Station, NEW k \in Nat,
           own_seq' = [own_seq EXCEPT ![o] = own_seq[o] + k],
           \A f \in air' \ air : Fresh(f, o, k),
           UNCHANGED <<plan, life, passed_on, repeats>>
    PROVE  FloodType'
<1>1. own_seq' \in [Station -> Nat]
  BY DEF FloodType
<1>2. air' \subseteq AirType /\ \A f \in air' : f.subject \in plan.subjects
  BY Zenon DEF FloodType, Fresh
<1> QED BY <1>1, <1>2, Zenon DEF FloodType

LEMMA AcceptStep ==
    ASSUME FloodType, NEW f \in air, Accept(f)
    PROVE  /\ FloodType'
           /\ f \in AirType /\ f.subject \in plan.subjects
           /\ \A g \in air' : \/ g \in air \ {f}
                              \/ /\ g \in AirType /\ g.from = f.to /\ g.to \in Neighbours(f.to) \ {f.from}
                                 /\ g.subject = f.subject /\ g.seq = f.seq /\ g.life = f.life
           /\ Entry(f.subject, f.seq, f.life) \in EntryType
           /\ Entry(f.subject, f.seq, f.life).subject = f.subject
           /\ Entry(f.subject, f.seq, f.life).seq = f.seq
           /\ passed_on' = passed_on \cup
                 {[by |-> f.to, subject |-> f.subject, seq |-> f.seq, life |-> f.life]}
<1> DEFINE n == f.to
           e == Entry(f.subject, f.seq, f.life)
           pass == [by |-> n, subject |-> f.subject, seq |-> f.seq, life |-> f.life]
<1>1. f \in AirType /\ f.subject \in plan.subjects /\ n \in Station
  BY Zenon DEF FloodType, AirType
<1>2. e \in EntryType /\ e.subject = f.subject /\ e.seq = f.seq /\ e.life = f.life
  BY <1>1, Zenon DEF Entry, EntryType, AirType
<1>3. pass \in PassType
  BY <1>1, Zenon DEF PassType, AirType
<1>4. /\ \E t \in record(n, table[n], e) : table' = [table EXCEPT ![n] = t]
      /\ air' = (air \ {f}) \cup Send(n, e, Neighbours(n) \ {f.from})
      /\ passed_on' = passed_on \cup {pass}
      /\ UNCHANGED <<plan, own_seq, life>>
  BY DEF Accept
<1> HIDE DEF e
<1>5. ASSUME NEW g \in air'
      PROVE  \/ g \in air \ {f}
             \/ /\ g \in AirType /\ g.from = n /\ g.to \in Neighbours(n) \ {f.from}
                /\ g.subject = f.subject /\ g.seq = f.seq /\ g.life = f.life
  <2>1. CASE g \in Send(n, e, Neighbours(n) \ {f.from})
    <3>1. Neighbours(n) \ {f.from} \in SUBSET Station
      BY Zenon DEF Neighbours
    <3>2. /\ g \in AirType /\ g.from = n /\ g.to \in Neighbours(n) \ {f.from}
          /\ g.subject = e.subject /\ g.seq = e.seq /\ g.life = e.life
      BY <1>1, <1>2, <2>1, <3>1, SendFields
    <3> QED BY <1>2, <3>2, Zenon
  <2> QED BY <1>4, <1>5, <2>1, Zenon
<1>6. FloodType'
  BY <1>1, <1>3, <1>4, <1>5, Zenon DEF FloodType
<1> QED BY <1>1, <1>2, <1>4, <1>5, <1>6, Zenon DEF e


LEMMA DropType ==
    ASSUME FloodType, NEW f, Drop(f)
    PROVE  FloodType'
BY Zenon DEF FloodType, Drop

LEMMA RestartType ==
    ASSUME FloodType, NEW o \in Station, Restart(o)
    PROVE  FloodType'
<1>1. /\ life' = [life EXCEPT ![o] = 1] /\ own_seq' = [own_seq EXCEPT ![o] = 0]
      /\ air' \subseteq air /\ passed_on' \subseteq passed_on
      /\ plan' = plan
  BY Zenon DEF Restart
<1>2. life' \in [Station -> Nat] /\ own_seq' \in [Station -> Nat]
  BY <1>1 DEF FloodType
<1> QED BY <1>1, <1>2, Zenon DEF FloodType

\* A step that leaves every table but n's alone, and in n's keeps what is on file.
LEMMA RoomKept ==
    ASSUME RoomInv, FloodType', plan' = plan, NEW n \in Station, NEW t,
           table' = [table EXCEPT ![n] = t], Tidy(t),
           \A p \in passed_on' :
              \/ p \in passed_on /\ p.by # n
              \/ /\ p.by = n /\ p.subject[1] # n
                 /\ \E e \in t : e.subject = p.subject /\ e.seq >= p.seq,
           ~repeats'
    PROVE  RoomInv'
<1>1. \A m \in Station \ {n} : table'[m] = table[m]
  BY Zenon DEF RoomInv, OnFile
<1>2. table'[n] = t /\ table' \in [Station -> SUBSET EntryType]
  BY Zenon DEF RoomInv, OnFile, Tidy
<1>3. \A m \in Station : Tidy(table[m])'
  <2>1. \A m \in Station : Tidy(table'[m])
    BY <1>1, <1>2, Zenon DEF RoomInv, OnFile
  <2> QED BY <2>1, Zenon DEF Tidy
<1>4. ASSUME NEW p \in passed_on'
      PROVE  /\ p.subject[1] # p.by
             /\ \E e \in table'[p.by] : e.subject = p.subject /\ e.seq >= p.seq
  <2>1. CASE p \in passed_on /\ p.by # n
    <3>1. p.by \in Station
      BY <2>1, Zenon DEF RoomInv, FloodType, PassType
    <3> QED BY <1>1, <2>1, <3>1, Zenon DEF RoomInv, OnFile
  <2>2. CASE p.by = n
    BY <1>2, <2>2, Zenon
  <2> QED BY <2>1, <2>2, Zenon
<1>5. Roomy(plan)'
  BY Zenon DEF RoomInv, Roomy
<1> QED BY <1>2, <1>3, <1>4, <1>5, Zenon DEF RoomInv, OnFile

LEMMA RoomBroadcast ==
    ASSUME RoomInv, NEW o \in Station, o \in Origins, Broadcast(o)
    PROVE  RoomInv'
<1>0. FloodType /\ Roomy(plan) /\ Tidy(table[o])
  BY Zenon DEF RoomInv, OnFile
<1>1. PICK k \in Nat :
          /\ own_seq' = [own_seq EXCEPT ![o] = own_seq[o] + k]
          /\ \E t : /\ table' = [table EXCEPT ![o] = t]
                    /\ Roomy(plan) /\ Tidy(table[o]) => KeepsOthers(o, t)
          /\ air \subseteq air' /\ \A f \in air' \ air : Fresh(f, o, k)
          /\ UNCHANGED <<plan, life, passed_on, repeats>>
  BY <1>0, BroadcastStep, Zenon
<1>2. PICK t : table' = [table EXCEPT ![o] = t] /\ KeepsOthers(o, t)
  BY <1>0, <1>1, Zenon
<1>3. Tidy(t)
  BY <1>2, Zenon DEF KeepsOthers
<1>4. FloodType'
  BY <1>0, <1>1, BroadcastType
<1>5. ASSUME NEW p \in passed_on'
      PROVE  \/ p \in passed_on /\ p.by # o
             \/ /\ p.by = o /\ p.subject[1] # o
                /\ \E e \in t : e.subject = p.subject /\ e.seq >= p.seq
  <2>1. p \in passed_on
    BY <1>1, Zenon
  <2>2. CASE p.by = o
    <3>1. PICK e \in table[o] : e.subject = p.subject /\ e.seq >= p.seq
      BY <2>1, <2>2 DEF RoomInv, OnFile
    <3>2. p.subject[1] # o
      BY <2>1, <2>2, Zenon DEF RoomInv, OnFile
    <3>3. e \in t
      BY <1>2, <3>1, <3>2, Zenon DEF KeepsOthers
    <3> QED BY <2>2, <3>1, <3>2, <3>3, Zenon
  <2> QED BY <2>1, <2>2, Zenon
<1>6. ~repeats' /\ plan' = plan
  BY <1>1 DEF RoomInv
<1> QED BY <1>2, <1>3, <1>4, <1>5, <1>6, RoomKept, Zenon

LEMMA RoomAccept ==
    ASSUME RoomInv, NEW f \in air, Accept(f)
    PROVE  RoomInv'
<1> DEFINE n == f.to
           e == Entry(f.subject, f.seq, f.life)
           pass == [by |-> n, subject |-> f.subject, seq |-> f.seq, life |-> f.life]
           t == put(table[n], e)
<1>0. FloodType /\ Roomy(plan) /\ plan \in Plans
  BY DEF RoomInv, FloodType
<1>1. /\ FloodType' /\ f \in AirType /\ f.subject \in plan.subjects
      /\ e \in EntryType /\ e.subject = f.subject /\ e.seq = f.seq
      /\ passed_on' = passed_on \cup {pass}
  BY <1>0, AcceptStep, Zenon
<1>2. n \in Station /\ f.seq \in Nat
  BY <1>1, Zenon DEF AirType
<1>3. Tidy(table[n])
  BY <1>2, Zenon DEF RoomInv, OnFile
<1>4. /\ f.subject[1] # n
      /\ \A x \in table[n] : x.subject = f.subject => f.seq > x.seq
      /\ \E r \in record(n, table[n], e) : table' = [table EXCEPT ![n] = r]
      /\ repeats' = (repeats \/ pass \in passed_on)
      /\ plan' = plan
  BY Zenon DEF Accept, is_newer, On
<1>5. pass.by = n /\ pass.subject = f.subject /\ pass.seq = f.seq
  BY Zenon
<1> HIDE DEF e, pass
<1>6. table' = [table EXCEPT ![n] = t]
  <2>1. record(n, table[n], e) = {put(table[n], e)}
    <3>1. e.subject \in plan.subjects /\ plan \in Plans /\ Roomy(plan)
      BY <1>0, <1>1
    <3> QED BY ONLY <1>3, <3>1, RoomRecords, Zenon
  <2>2. PICK r \in record(n, table[n], e) : table' = [table EXCEPT ![n] = r]
    BY <1>4, Zenon
  <2>3. r = t
    BY <2>1, <2>2, Zenon
  <2> QED BY <2>2, <2>3
<1>7. Tidy(t) /\ e \in t /\ \A x \in table[n] : x.subject # e.subject => x \in t
  BY <1>1, <1>3, PutTidy, Zenon
<1> HIDE DEF t
<1>8. pass \notin passed_on
  <2> SUFFICES ASSUME pass \in passed_on PROVE FALSE
    BY Zenon
  <2>1. PICK x \in table[n] : x.subject = f.subject /\ x.seq >= f.seq
    BY <1>5, Zenon DEF RoomInv, OnFile
  <2>2. x.seq \in Nat /\ f.seq > x.seq
    BY <1>3, <1>4, <2>1 DEF Tidy, EntryType
  <2> QED BY <1>2, <2>1, <2>2
<1>9. ASSUME NEW p \in passed_on'
      PROVE  \/ p \in passed_on /\ p.by # n
             \/ /\ p.by = n /\ p.subject[1] # n
                /\ \E x \in t : x.subject = p.subject /\ x.seq >= p.seq
  <2>1. CASE p = pass
    BY <1>1, <1>2, <1>4, <1>5, <1>7, <2>1
  <2>2. CASE p \in passed_on /\ p.by = n
    <3>1. PICK x \in table[n] : x.subject = p.subject /\ x.seq >= p.seq
      BY <2>2 DEF RoomInv, OnFile
    <3>2. p.subject[1] # n /\ p.seq \in Nat
      BY <1>0, <2>2, Zenon DEF RoomInv, OnFile, FloodType, PassType
    <3>3. CASE x.subject = f.subject
      <4>1. x.seq \in Nat /\ f.seq > x.seq
        BY <1>3, <1>4, <3>1, <3>3, Zenon DEF Tidy, EntryType
      <4>2. e.seq >= p.seq /\ e.subject = p.subject
        BY <1>1, <1>2, <3>1, <3>2, <3>3, <4>1
      <4> QED BY <1>7, <2>2, <3>2, <4>2, Zenon
    <3>4. CASE x.subject # f.subject
      BY <1>1, <1>7, <2>2, <3>1, <3>2, <3>4
    <3> QED BY <3>3, <3>4, Zenon
  <2> QED BY <1>1, <1>9, <2>1, <2>2, Zenon
<1>10. ~repeats'
  BY <1>4, <1>8, Zenon DEF RoomInv
<1> QED BY <1>1, <1>2, <1>4, <1>6, <1>7, <1>9, <1>10, RoomKept, Zenon


LEMMA RoomRestart ==
    ASSUME RoomInv, NEW o \in Station, Restart(o)
    PROVE  RoomInv'
<1>1. FloodType'
  BY RestartType, Zenon DEF RoomInv
<1>2. /\ table' = [table EXCEPT ![o] = {}] /\ passed_on' = {p \in passed_on : p.by # o}
      /\ plan' = plan /\ repeats' = repeats
  BY Zenon DEF Restart
<1>3. Tidy({})
  BY Zenon DEF Tidy
<1> QED BY <1>1, <1>2, <1>3, RoomKept, Zenon DEF RoomInv

LEMMA RoomUnchanged ==
    ASSUME RoomInv, FloodType', UNCHANGED <<plan, table, passed_on, repeats>>
    PROVE  RoomInv'
BY Zenon DEF RoomInv, OnFile, Tidy, Roomy

LEMMA NextRoomInv == RoomInv /\ [FloodNext]_flood_vars => RoomInv'
<1> SUFFICES ASSUME RoomInv, [FloodNext]_flood_vars PROVE RoomInv'
  BY Zenon
<1>1. ASSUME NEW o \in Station, Restart(o) PROVE RoomInv'
  BY <1>1, RoomRestart, Zenon
<1>2. ASSUME NEW o \in Station, o \in Origins, Broadcast(o) PROVE RoomInv'
  BY <1>2, RoomBroadcast, Zenon
<1>3. ASSUME NEW f \in air, Handling(f) PROVE RoomInv'
  <2>1. CASE Accept(f)
    BY <2>1, RoomAccept, Zenon
  <2>2. CASE Drop(f)
    BY <2>2, DropType, RoomUnchanged, Zenon DEF RoomInv, Drop
  <2> QED BY <1>3, <2>1, <2>2, Zenon DEF Handling, handle_onion_key_announce, handle_capabilities,
                                handle_reputation_report
<1>4. CASE UNCHANGED flood_vars
  <2>1. FloodType'
    BY <1>4, Zenon DEF RoomInv, FloodType, flood_vars
  <2> QED BY <1>4, <2>1, RoomUnchanged DEF flood_vars
<1> QED BY <1>1, <1>2, <1>3, <1>4, Zenon DEF FloodNext

\* What n has on file about other nodes' announces is kept, or replaced by newer ones.
Renewed(n) ==
    \A e \in table[n] : e.subject[1] # n =>
        \E x \in table'[n] : x.subject = e.subject /\ x.seq >= e.seq

\* While the tables have room, a node that is not restarting never forgets what it has on
\* file about another node and never replaces it by an older record: its own broadcasts
\* (set_own and the like) leave the others' records alone, and an announce is recorded only
\* when is_newer says so.  After an origin restarted with its counter at zero, this is also
\* why its first announces are turned away.
LEMMA RoomRenewed ==
    ASSUME RoomInv, [FloodNext]_flood_vars, NEW n \in Station, life'[n] = life[n]
    PROVE  Renewed(n)
<1>1. \A x \in table[n] : x.seq \in Nat /\ x.seq >= x.seq
  BY DEF RoomInv, OnFile, Tidy, EntryType
<1>2. ASSUME table'[n] = table[n] PROVE Renewed(n)
  BY <1>1, <1>2, Zenon DEF Renewed
<1>3. table \in [Station -> SUBSET EntryType] /\ FloodType /\ life \in [Station -> Nat]
  BY DEF RoomInv, OnFile, FloodType, Tidy
<1>4. ASSUME NEW o \in Station, Restart(o) PROVE Renewed(n)
  <2>1. /\ table' = [table EXCEPT ![o] = {}] /\ life[o] = 0
        /\ life' = [life EXCEPT ![o] = 1]
    BY <1>4, Zenon DEF Restart
  <2>2. o # n
    BY <1>3, <2>1
  <2>3. table'[n] = table[n]
    BY <1>3, <2>1, <2>2, Zenon
  <2> QED BY <1>2, <2>3, Zenon
<1>5. ASSUME NEW o \in Station, o \in Origins, Broadcast(o) PROVE Renewed(n)
  <2>1. Roomy(plan) /\ Tidy(table[o])
    BY Zenon DEF RoomInv, OnFile
  <2>2. PICK t : table' = [table EXCEPT ![o] = t] /\ KeepsOthers(o, t)
    BY <1>3, <1>5, <2>1, BroadcastStep, Zenon
  <2>3. CASE o = n
    <3>1. table'[n] = t
      BY <1>3, <2>2, <2>3, Zenon
    <3> QED BY <1>1, <2>2, <2>3, <3>1 DEF Renewed, KeepsOthers
  <2>4. CASE o # n
    BY <1>2, <1>3, <2>2, <2>4
  <2> QED BY <2>3, <2>4, Zenon
<1>6. ASSUME NEW f \in air, Accept(f) PROVE Renewed(n)
  <2> DEFINE e == Entry(f.subject, f.seq, f.life)
  <2>1. /\ f \in AirType /\ f.subject \in plan.subjects
        /\ e \in EntryType /\ e.subject = f.subject /\ e.seq = f.seq
    BY <1>3, <1>6, AcceptStep, Zenon
  <2>2. f.to \in Station /\ f.seq \in Nat
    BY <2>1, Zenon DEF AirType
  <2>3. /\ \A x \in table[f.to] : x.subject = f.subject => f.seq > x.seq
        /\ \E r \in record(f.to, table[f.to], e) : table' = [table EXCEPT ![f.to] = r]
    BY <1>6, Zenon DEF Accept, is_newer, On
  <2> HIDE DEF e
  <2>4. Tidy(table[f.to]) /\ plan \in Plans /\ Roomy(plan)
    BY <2>2 DEF RoomInv, OnFile, FloodType
  <2>5. record(f.to, table[f.to], e) = {put(table[f.to], e)}
    <3>1. e.subject \in plan.subjects
      BY <2>1, Zenon
    <3> QED BY ONLY <2>4, <3>1, RoomRecords, Zenon
  <2>6. table' = [table EXCEPT ![f.to] = put(table[f.to], e)]
    BY <2>3, <2>5, Zenon
  <2>7. /\ e \in put(table[f.to], e)
        /\ \A x \in table[f.to] : x.subject # e.subject => x \in put(table[f.to], e)
    BY <2>1, <2>4, PutTidy, Zenon
  <2>8. CASE f.to = n
    <3>1. table'[n] = put(table[n], e)
      BY <1>3, <2>6, <2>8, Zenon
    <3>2. ASSUME NEW x \in table[n]
          PROVE  \E y \in table'[n] : y.subject = x.subject /\ y.seq >= x.seq
      <4>1. CASE x.subject = e.subject
        <5>1. x.seq \in Nat /\ e.seq \in Nat /\ e.seq > x.seq
          BY <1>1, <2>1, <2>2, <2>3, <2>8, <3>2, <4>1, Zenon
        <5>2. e.seq >= x.seq /\ e \in table'[n]
          BY <2>7, <2>8, <3>1, <5>1
        <5> QED BY <4>1, <5>2
      <4>2. CASE x.subject # e.subject
        BY <1>1, <2>7, <2>8, <3>1, <3>2, <4>2, Zenon
      <4> QED BY <4>1, <4>2, Zenon
    <3> QED BY <3>2 DEF Renewed
  <2>9. CASE f.to # n
    BY <1>2, <1>3, <2>2, <2>6, <2>9
  <2> QED BY <2>8, <2>9, Zenon
<1>7. ASSUME NEW f \in air, Handling(f) PROVE Renewed(n)
  <2>1. CASE Accept(f)
    BY <1>6, <1>7, <2>1, Zenon
  <2>2. CASE Drop(f)
    BY <1>2, <2>2, Zenon DEF Drop
  <2> QED BY <1>7, <2>1, <2>2, Zenon DEF Handling, handle_onion_key_announce, handle_capabilities,
                                handle_reputation_report
<1>8. CASE UNCHANGED flood_vars
  BY <1>2, <1>8 DEF flood_vars
<1> QED BY <1>4, <1>5, <1>7, <1>8, Zenon DEF FloodNext

LEMMA TreeBroadcast ==
    ASSUME NEW U, TreeInv(U), NEW o \in Station, o \in Origins, Broadcast(o)
    PROVE  TreeInv(U)'
<1>0. FloodType
  BY Zenon DEF TreeInv
<1>1. PICK k \in Nat :
          /\ own_seq' = [own_seq EXCEPT ![o] = own_seq[o] + k]
          /\ \E t : /\ table' = [table EXCEPT ![o] = t]
                    /\ Roomy(plan) /\ Tidy(table[o]) => KeepsOthers(o, t)
          /\ air \subseteq air' /\ \A f \in air' \ air : Fresh(f, o, k)
          /\ UNCHANGED <<plan, life, passed_on, repeats>>
  BY <1>0, BroadcastStep, Zenon
<1>2. FloodType'
  BY <1>0, <1>1, BroadcastType, Zenon
<1>3. \A s \in Station : own_seq[s] \in Nat /\ own_seq'[s] \in Nat /\ own_seq[s] <= own_seq'[s]
  BY <1>0, <1>1 DEF FloodType
<1>4. own_seq'[o] = own_seq[o] + k
  BY <1>0, <1>1, Zenon DEF FloodType
<1>5. \A n, m : PassedOn(n, m)' <=> PassedOn(n, m)
  BY <1>1, Zenon DEF PassedOn
<1>6. ASSUME NEW f \in air'
      PROVE  /\ f.to # f.subject[1] /\ f.from = U[f.subject[1]][f.to]
             /\ f.seq <= own_seq'[f.subject[1]]
             /\ ~PassedOn(f.to, f)
             /\ f.from = f.subject[1] \/ PassedOn(f.from, f)
  <2>1. CASE f \in air
    <3>1. f.subject[1] \in Station /\ f.seq \in Nat
      BY <1>0, <2>1 DEF FloodType, AirType
    <3>2. f.seq <= own_seq[f.subject[1]]
      BY <2>1, Zenon DEF TreeInv, Downward
    <3>3. f.seq <= own_seq'[f.subject[1]]
      BY <1>3, <3>1, <3>2
    <3> QED BY <2>1, <3>3, Zenon DEF TreeInv, Downward
  <2>2. CASE f \notin air
    <3>1. Fresh(f, o, k)
      BY <1>1, <2>2, Zenon
    <3>2. /\ f.from = o /\ f.to \in Station /\ {o, f.to} \in plan.links
          /\ f.subject \in plan.subjects /\ f.subject[1] = o /\ f \in AirType
          /\ f.seq \in own_seq[o] + 1 .. own_seq[o] + k
      BY <3>1, Zenon DEF Fresh, Neighbours
    <3>3. f.to # o /\ U[o][f.to] = o
      <4>1. Leads(plan, f.subject[1], U[f.subject[1]])
        BY <3>2 DEF TreeInv, Downward
      <4> QED BY <3>2, <4>1, Zenon DEF Leads
    <3>4. f.seq \in Nat /\ f.seq > own_seq[o] /\ f.seq <= own_seq'[o]
      BY <1>3, <1>4, <3>2
    <3>5. ~PassedOn(f.to, f)
      <4> SUFFICES ASSUME PassedOn(f.to, f) PROVE FALSE
        BY Zenon
      <4> DEFINE p == [by |-> f.to, subject |-> f.subject, seq |-> f.seq, life |-> f.life]
      <4>1. p \in passed_on
        BY Zenon DEF PassedOn
      <4>2. p.seq = f.seq /\ p.subject = f.subject
        BY Zenon
      <4> HIDE DEF p
      <4>3. f.seq <= own_seq[o]
        BY <3>2, <4>1, <4>2, Zenon DEF TreeInv, Downward
      <4> QED BY <1>3, <3>4, <4>3
    <3> QED BY <3>2, <3>3, <3>4, <3>5, Zenon
  <2> QED BY <2>1, <2>2, Zenon
<1>7. ASSUME NEW p \in passed_on
      PROVE  /\ p.by # p.subject[1] /\ p.seq <= own_seq'[p.subject[1]]
             /\ U[p.subject[1]][p.by] = p.subject[1] \/ PassedOn(U[p.subject[1]][p.by], p)
  <2>1. p.subject[1] \in Station /\ p.seq \in Nat
    BY <1>0, Zenon DEF FloodType, PassType
  <2>2. p.seq <= own_seq[p.subject[1]]
    BY Zenon DEF TreeInv, Downward
  <2>3. p.seq <= own_seq'[p.subject[1]]
    BY <1>3, <2>1, <2>2
  <2> QED BY <2>3, Zenon DEF TreeInv, Downward
<1>8. Downward(U)'
  <2>1. plan'.restarts = {} /\ \A s \in plan'.subjects : Leads(plan', s[1], U[s[1]])
    BY <1>1 DEF TreeInv, Downward
  <2> QED BY <1>1, <1>5, <1>6, <1>7, <2>1, ZenonT(30) DEF Downward
<1> QED BY <1>1, <1>2, <1>8, Zenon DEF TreeInv


LEMMA TreeAccept ==
    ASSUME NEW U, TreeInv(U), NEW f \in air, Accept(f)
    PROVE  TreeInv(U)'
<1> DEFINE n == f.to
           o == f.subject[1]
           pass == [by |-> n, subject |-> f.subject, seq |-> f.seq, life |-> f.life]
<1>0. FloodType
  BY Zenon DEF TreeInv
<1>1. /\ FloodType' /\ f \in AirType /\ f.subject \in plan.subjects
      /\ passed_on' = passed_on \cup {pass}
  BY <1>0, AcceptStep, Zenon
<1>2. ASSUME NEW g \in air'
      PROVE  \/ g \in air \ {f}
             \/ /\ g \in AirType /\ g.from = n /\ g.to \in Neighbours(n) \ {f.from}
                /\ g.subject = f.subject /\ g.seq = f.seq /\ g.life = f.life
  BY <1>0, AcceptStep, Zenon
<1>3. repeats' = (repeats \/ pass \in passed_on) /\ UNCHANGED <<plan, own_seq, life>>
  BY Zenon DEF Accept
<1>4. /\ n # o /\ f.from = U[o][n] /\ f.seq <= own_seq[o] /\ pass \notin passed_on
      /\ f.from = o \/ PassedOn(f.from, f)
  BY Zenon DEF TreeInv, Downward, PassedOn
<1>5. n \in Station /\ o \in Station /\ Leads(plan, o, U[o])
  BY <1>1, Zenon DEF AirType, TreeInv, Downward
<1>6. pass.by = n /\ pass.subject = f.subject /\ pass.seq = f.seq /\ pass.life = f.life
  BY Zenon
<1>7. \A m, x : PassedOn(m, x)' <=> PassedOn(m, x) \/ [by |-> m, subject |-> x.subject,
                                                    seq |-> x.seq, life |-> x.life] = pass
  BY <1>1, Zenon DEF PassedOn
<1> HIDE DEF pass
<1>8. \A m, x : PassedOn(m, x)' => PassedOn(m, x) \/ (m = n /\ x.subject = f.subject
                                                  /\ x.seq = f.seq /\ x.life = f.life)
  <2> SUFFICES ASSUME NEW m, NEW x,
                      [by |-> m, subject |-> x.subject, seq |-> x.seq, life |-> x.life] = pass
               PROVE  m = n /\ x.subject = f.subject /\ x.seq = f.seq /\ x.life = f.life
    BY <1>7, Zenon
  <2> QED BY <1>6, Zenon
<1>9. ASSUME NEW g \in air'
      PROVE  /\ g.to # g.subject[1] /\ g.from = U[g.subject[1]][g.to]
             /\ g.seq <= own_seq[g.subject[1]]
             /\ ~PassedOn(g.to, g)'
             /\ g.from = g.subject[1] \/ PassedOn(g.from, g)'
  <2>1. CASE g \in air \ {f}
    <3>1. /\ g.to # g.subject[1] /\ g.from = U[g.subject[1]][g.to]
          /\ g.seq <= own_seq[g.subject[1]] /\ ~PassedOn(g.to, g)
          /\ g.from = g.subject[1] \/ PassedOn(g.from, g)
      BY <2>1, Zenon DEF TreeInv, Downward
    <3>2. ~(g.to = n /\ g.subject = f.subject /\ g.seq = f.seq /\ g.life = f.life)
      <4> SUFFICES ASSUME g.to = n, g.subject = f.subject, g.seq = f.seq, g.life = f.life
                   PROVE  FALSE
        BY Zenon
      <4>1. g.from = f.from
        BY <1>4, <3>1
      <4>2. g \in AirType /\ f \in AirType
        BY <1>0, <1>1, <2>1, Zenon DEF FloodType
      <4>3. g = f
        BY <4>1, <4>2 DEF AirType
      <4> QED BY <2>1, <4>3, Zenon
    <3>3. ~PassedOn(g.to, g)'
      BY <1>8, <3>1, <3>2, Zenon
    <3>4. g.from = g.subject[1] \/ PassedOn(g.from, g)'
      BY <1>7, <3>1
    <3> QED BY <3>1, <3>3, <3>4, Zenon
  <2>2. CASE g \notin air \ {f}
    <3>1. /\ g.from = n /\ g.to \in Neighbours(n) \ {f.from}
          /\ g.subject = f.subject /\ g.seq = f.seq /\ g.life = f.life
      BY <1>2, <2>2, Zenon
    <3>2. g.to \in Station /\ {n, g.to} \in plan.links /\ g.to # f.from
      BY <3>1, Zenon DEF Neighbours
    <3>3. U[o][g.to] = n
      BY <1>4, <1>5, <3>2, Zenon DEF Leads
    <3>4. g.to # o
      <4> SUFFICES ASSUME g.to = o PROVE FALSE
        BY Zenon
      <4>1. {o, n} \in plan.links
        <5>1. {n, o} = {o, n}
          BY Zenon
        <5> QED BY <3>2, <5>1, Zenon
      <4>2. U[o][n] = o
        BY <1>5, <4>1, Zenon DEF Leads
      <4> QED BY <1>4, <3>2, <4>2
    <3>5. ~PassedOn(g.to, g)
      <4> SUFFICES ASSUME PassedOn(g.to, g) PROVE FALSE
        BY Zenon
      <4> DEFINE p == [by |-> g.to, subject |-> g.subject, seq |-> g.seq, life |-> g.life]
      <4>1. p \in passed_on
        BY Zenon DEF PassedOn
      <4>2. p.by = g.to /\ p.subject = f.subject /\ p.seq = f.seq /\ p.life = f.life
        BY <3>1, Zenon
      <4> HIDE DEF p
      <4>3. U[p.subject[1]][p.by] = p.subject[1] \/ PassedOn(U[p.subject[1]][p.by], p)
        BY <4>1 DEF TreeInv, Downward
      <4>4. n = o \/ PassedOn(n, p)
        BY <3>3, <4>2, <4>3, Zenon
      <4>5. PassedOn(n, p) => pass \in passed_on
        BY <4>2, Zenon DEF PassedOn, pass
      <4> QED BY <1>4, <4>4, <4>5, Zenon
    <3>6. g.to # n
      <4>1. CASE g.to = n
        BY <1>4, <3>2, <3>3, <4>1, Zenon
      <4> QED BY <4>1, Zenon
    <3>7. ~PassedOn(g.to, g)'
      BY <1>8, <3>5, <3>6
    <3>8. PassedOn(g.from, g)'
      BY <1>7, <3>1, Zenon DEF pass
    <3>9. g.subject[1] = o
      BY <3>1
    <3> QED BY <1>4, <3>1, <3>3, <3>4, <3>7, <3>8, <3>9, Zenon
  <2> QED BY <2>1, <2>2, Zenon
<1>10. ASSUME NEW p \in passed_on'
       PROVE  /\ p.by # p.subject[1] /\ p.seq <= own_seq[p.subject[1]]
              /\ U[p.subject[1]][p.by] = p.subject[1] \/ PassedOn(U[p.subject[1]][p.by], p)'
  <2>1. CASE p \in passed_on
    BY <1>7, <2>1, ZenonT(30) DEF TreeInv, Downward
  <2>2. CASE p = pass
    <3>1. p.by = n /\ p.subject = f.subject /\ p.seq = f.seq /\ p.life = f.life /\ p.subject[1] = o
      BY <1>6, <2>2, Zenon
    <3>2. f.from = o \/ PassedOn(f.from, p)
      BY <1>4, <3>1 DEF PassedOn
    <3>3. f.from = o \/ PassedOn(f.from, p)'
      BY <1>7, <3>2, Zenon
    <3> QED BY <1>4, <3>1, <3>3, Zenon
  <2> QED BY <1>1, <2>1, <2>2, Zenon
<1>11. Downward(U)'
  <2>1. plan'.restarts = {} /\ \A s \in plan'.subjects : Leads(plan', s[1], U[s[1]])
    BY <1>3, ZenonT(30) DEF TreeInv, Downward
  <2> QED BY <1>3, <1>9, <1>10, <2>1, Zenon DEF Downward
<1>12. ~repeats'
  BY <1>3, <1>4, Zenon DEF TreeInv
<1> QED BY <1>1, <1>11, <1>12, Zenon DEF TreeInv

LEMMA NextTreeInv ==
    ASSUME NEW U
    PROVE  TreeInv(U) /\ [FloodNext]_flood_vars => TreeInv(U)'
<1> SUFFICES ASSUME TreeInv(U), [FloodNext]_flood_vars PROVE TreeInv(U)'
  OBVIOUS
<1>1. ASSUME NEW o \in Station, Restart(o) PROVE TreeInv(U)'
  BY <1>1, Zenon DEF Restart, TreeInv, Downward
<1>2. ASSUME NEW o \in Station, o \in Origins, Broadcast(o) PROVE TreeInv(U)'
  BY <1>2, TreeBroadcast, Zenon
<1>3. ASSUME NEW f \in air, Handling(f) PROVE TreeInv(U)'
  <2>1. CASE Accept(f)
    BY <2>1, TreeAccept, Zenon
  <2>2. CASE Drop(f)
    <3>1. air' \subseteq air /\ UNCHANGED <<plan, own_seq, passed_on, repeats>> /\ FloodType'
      BY <2>2, DropType, Zenon DEF TreeInv, Drop
    <3> QED BY <3>1, Zenon DEF TreeInv, Downward, PassedOn
  <2> QED BY <1>3, <2>1, <2>2, Zenon DEF Handling, handle_onion_key_announce, handle_capabilities,
                                handle_reputation_report
<1>4. CASE UNCHANGED flood_vars
  BY <1>4, Zenon DEF TreeInv, FloodType, Downward, PassedOn, flood_vars
<1> QED BY <1>1, <1>2, <1>3, <1>4, Zenon DEF FloodNext


\* The plan decides which of the two invariants holds.
FloodInv ==
    /\ plan \in Plans
    /\ Roomy(plan) => RoomInv
    /\ Branching(plan) => \E U : TreeInv(U)

LEMMA InitFloodInv == FloodInit => FloodInv
<1> SUFFICES ASSUME FloodInit PROVE FloodInv
  BY Zenon
<1>1. FloodType /\ ~repeats /\ air = {} /\ passed_on = {}
  BY Zenon DEF FloodInit, FloodType
<1>2. OnFile
  BY <1>1, Zenon DEF FloodInit, OnFile, Tidy
<1>3. ASSUME Branching(plan) PROVE \E U : TreeInv(U)
  <2> DEFINE U == [o \in Station |-> CHOOSE up \in [Station -> Station] : Leads(plan, o, up)]
  <2>1. ASSUME NEW s \in plan.subjects PROVE Leads(plan, s[1], U[s[1]])
    <3>1. s[1] \in Station
      BY FloodAssumption, Zenon DEF FloodInit
    <3>2. \E up \in [Station -> Station] : Leads(plan, s[1], up)
      BY <1>3 DEF Branching
    <3>3. U[s[1]] = CHOOSE up \in [Station -> Station] : Leads(plan, s[1], up)
      BY <3>1, Zenon
    <3> HIDE DEF U
    <3> QED BY <3>2, <3>3, Zenon
  <2> HIDE DEF U
  <2>2. Downward(U)
    BY <1>1, <1>3, <2>1, Zenon DEF Downward, Branching
  <2> QED BY <1>1, <2>2 DEF TreeInv
<1> QED BY <1>1, <1>2, <1>3 DEF FloodInv, RoomInv, FloodInit

LEMMA PlanFixed == [FloodNext]_flood_vars => plan' = plan
<1> SUFFICES ASSUME [FloodNext]_flood_vars PROVE plan' = plan
  BY Zenon
<1>1. ASSUME NEW o \in Station, Restart(o) PROVE plan' = plan
  BY <1>1, Zenon DEF Restart
<1>2. ASSUME NEW o \in Station, Broadcast(o) PROVE plan' = plan
  BY <1>2, ZenonT(30) DEF Broadcast, broadcast_onion_key_announce, broadcast_capabilities,
              broadcast_reputation, AnnounceSelf, Announce
<1>3. ASSUME NEW f \in air, Handling(f) PROVE plan' = plan
  <2>1. Accept(f) => plan' = plan
    BY DEF Accept
  <2>2. Drop(f) => plan' = plan
    BY Zenon DEF Drop
  <2> QED BY <1>3, <2>1, <2>2, ZenonT(30) DEF Handling, handle_onion_key_announce, handle_capabilities,
                                handle_reputation_report
<1> QED BY <1>1, <1>2, <1>3 DEF FloodNext, flood_vars

LEMMA NextFloodInv == FloodInv /\ [FloodNext]_flood_vars => FloodInv'
<1> SUFFICES ASSUME FloodInv, [FloodNext]_flood_vars PROVE FloodInv'
  BY Zenon
<1>1. plan' = plan
  BY PlanFixed, Zenon
<1>2. ASSUME Roomy(plan) PROVE RoomInv'
  BY <1>2, NextRoomInv, Zenon DEF FloodInv
<1>3. ASSUME Branching(plan) PROVE \E U : TreeInv(U)'
  <2>1. PICK U : TreeInv(U)
    BY <1>3 DEF FloodInv
  <2>2. TreeInv(U)'
    BY <2>1, NextTreeInv, Zenon
  <2> QED BY <2>2, Zenon
<1> QED BY <1>1, <1>2, <1>3, Zenon DEF FloodInv

\* No running node forwards the same announce twice (handle_onion_key_announce,
\* handle_capabilities, handle_reputation_report): on any mesh, also one with cycles and
\* with origins that restart, while the tables have room for every subject; and on every
\* tree however small the tables are and whatever they evict.
THEOREM AnnouncesForwardedOnce == FloodSpec => []ForwardsOnce
<1>1. FloodInit => FloodInv
  BY InitFloodInv, Zenon
<1>2. FloodInv /\ [FloodNext]_flood_vars => FloodInv'
  BY NextFloodInv
<1>3. FloodInv => ForwardsOnce
  BY Zenon DEF FloodInv, ForwardsOnce, RoomInv, TreeInv
<1> QED BY <1>1, <1>2, <1>3, PTL DEF FloodSpec

\* While the tables have room for every subject, no record a running node holds of another
\* node is ever lost or replaced by an older one (is_newer guards record), whatever order
\* the announces arrive in and whoever restarts meanwhile.
THEOREM RecordsNeverRegress ==
    FloodSpec => [][Roomy(plan) => \A n \in Station : life'[n] = life[n] => Renewed(n)]_flood_vars
<1> DEFINE Step == Roomy(plan) => \A n \in Station : life'[n] = life[n] => Renewed(n)
<1>1. FloodInit => FloodInv
  BY InitFloodInv, Zenon
<1>2. FloodInv /\ [FloodNext]_flood_vars => FloodInv'
  BY NextFloodInv, Zenon
<1>3. FloodInv /\ [FloodNext]_flood_vars => [Step]_flood_vars
  <2> SUFFICES ASSUME FloodInv, [FloodNext]_flood_vars, Roomy(plan),
                      NEW n \in Station, life'[n] = life[n]
               PROVE  Renewed(n)
    BY Zenon
  <2>1. RoomInv
    BY Zenon DEF FloodInv
  <2> QED BY <2>1, RoomRenewed, Zenon
<1> QED BY <1>1, <1>2, <1>3, PTL DEF FloodSpec
=============================================================================
