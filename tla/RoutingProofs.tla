--------------------------- MODULE RoutingProofs ---------------------------
(***************************************************************************)
(* Proofs about what routes frames: the spanning tree (SpanningTree), the  *)
(* cuckoo filter (CuckooFilter) and the onion cells (Onion).               *)
(*                                                                         *)
(* The tree, for every topology, every link cost and every number of link  *)
(* failures.  Costs are honest only because the announces they are         *)
(* computed from are, both those stored and those on their way, so the     *)
(* inductive invariant speaks of all three.                                *)
(***************************************************************************)
EXTENDS SpanningTree, CuckooFilter, Onion, SequenceTheorems, WellFoundedInduction, TLAPS

Honest(a, p) == a # Absent => a.cost >= Saturate(Dist[a.root][p])

AnnouncesHonest == \A n, p \in Node : Honest(ann[n][p], p) /\ Honest(wire[p][n], p)

IInv == TypeOK /\ AnnouncesHonest /\ CostsHonest /\ ParentIsPeer /\ Refreshes

TreeState == [parent : Node \cup {Absent}, root : Node, cost : 0..CostMax]

\* Saturation keeps a cost in range and is monotone.
LEMMA SaturateRange == ASSUME NEW c \in Nat PROVE Saturate(c) \in 0..CostMax
  BY TreeAssumption DEF Saturate

\* One more link keeps an honest cost honest (saturating_add in fix_tree).
LEMMA SaturateStep ==
  ASSUME NEW a \in Nat, NEW w \in Nat, NEW d \in Nat, NEW e \in Nat,
         a >= Saturate(d), e <= d + w
  PROVE  Saturate(a + w) >= Saturate(e)
  BY TreeAssumption DEF Saturate

\* What fix_tree makes of the tree: well-typed, honest, with a heard parent.
LEMMA FixTreeSound ==
  ASSUME IInv, NEW n \in Node, NEW w \in [Peers(n) -> LinkCosts], NEW t \in FixTree(n, w)
  PROVE  /\ t \in TreeState
         /\ t.cost >= Saturate(Dist[t.root][n])
         /\ t.parent # Absent => t.parent \in Heard(n)
<1>1. CASE UseSelf(n)
  <2>1. t = OwnRoot(n) BY <1>1, Zenon DEF FixTree
  <2>2. Dist[n][n] = 0 BY DistAssumption, Zenon
  <2>3. Saturate(0) = 0 BY TreeAssumption DEF Saturate
  <2> QED BY <2>1, <2>2, <2>3, TreeAssumption DEF OwnRoot, TreeState
<1>2. CASE ~UseSelf(n)
  <2>1. PICK p \in BestParents(n, w) :
          t = LET q == IF Keeps(n, p, w) THEN tree[n].parent ELSE p
              IN  [parent |-> q, root |-> BestRoot(n), cost |-> TotalCost(n, q, w)]
    BY <1>2, Zenon DEF FixTree
  <2> DEFINE q == IF Keeps(n, p, w) THEN tree[n].parent ELSE p
  <2>2. t = [parent |-> q, root |-> BestRoot(n), cost |-> TotalCost(n, q, w)]
    BY <2>1, Zenon
  <2>3. q \in Heard(n) /\ ann[n][q].root = BestRoot(n)
    BY Zenon DEF Keeps, BestParents
  <2> HIDE DEF q
  <2>4. q \in Node /\ q \in Peers(n) /\ {n, q} \in Links /\ ann[n][q] # Absent
    BY <2>3, Zenon DEF Heard, Peers, IInv, TypeOK
  <2>5. ann[n][q] \in TreeAnnounce
    BY <2>4 DEF IInv, TypeOK
  <2>6. ann[n][q].cost \in Nat /\ BestRoot(n) \in Node
    BY <2>3, <2>5, TreeAssumption DEF TreeAnnounce
  <2>7. w[q] \in LinkCosts /\ w[q] \in Nat
    BY <2>4, TreeAssumption, Zenon
  <2>8. ann[n][q].cost >= Saturate(Dist[BestRoot(n)][q])
    BY <2>3, <2>4, Zenon DEF IInv, AnnouncesHonest, Honest
  <2>9. /\ Dist[BestRoot(n)][q] \in Nat /\ Dist[BestRoot(n)][n] \in Nat
        /\ Dist[BestRoot(n)][n] <= Dist[BestRoot(n)][q] + w[q]
    BY <2>4, <2>6, <2>7, DistAssumption, Zenon
  <2>10. TotalCost(n, q, w) >= Saturate(Dist[BestRoot(n)][n])
    BY <2>6, <2>7, <2>8, <2>9, SaturateStep, Zenon DEF TotalCost
  <2>11. TotalCost(n, q, w) \in 0..CostMax
    <3>1. ann[n][q].cost + w[q] \in Nat BY <2>6, <2>7
    <3> QED BY <3>1, SaturateRange, Zenon DEF TotalCost
  <2> QED BY <2>2, <2>3, <2>4, <2>6, <2>10, <2>11, Zenon DEF TreeState
<1> QED BY <1>1, <1>2, Zenon

\* The initial state satisfies the invariant.
LEMMA InitInv == Init => IInv
<1> SUFFICES ASSUME Init PROVE IInv BY Zenon
<1>1. TypeOK
  BY TreeAssumption DEF Init, TypeOK, OwnRoot
<1>2. AnnouncesHonest
  BY Zenon DEF Init, AnnouncesHonest, Honest
<1>3. CostsHonest
  <2> SUFFICES ASSUME NEW n \in Node PROVE tree[n].cost >= Saturate(Dist[tree[n].root][n])
    BY Zenon DEF CostsHonest
  <2>1. Dist[n][n] = 0 BY DistAssumption, Zenon
  <2> QED BY <2>1, TreeAssumption DEF Init, OwnRoot, Saturate
<1>4. ParentIsPeer
  BY Zenon DEF Init, ParentIsPeer, OwnRoot
<1>5. Refreshes
  BY TreeAssumption DEF Init, Refreshes
<1> QED BY <1>1, <1>2, <1>3, <1>4, <1>5, Zenon DEF IInv


\* A maintenance tick preserves the invariant: fix_tree computes an honest cost,
\* the announce carries it, and the cadence stays within its limits.
LEMMA TickInv == ASSUME IInv, NEW n \in Node, Tick(n) PROVE IInv'
<1>0. PICK w \in [Peers(n) -> LinkCosts] : \E t \in FixTree(n, w) : Maintain(n, t)
  BY Zenon DEF Tick
<1>1. PICK t \in FixTree(n, w) : Maintain(n, t)
  BY <1>0, Zenon
<1> DEFINE d       == OwnDepth(n, t)
           changed == Changed(n, t, d)
           moved   == changed \/ t.parent # tree[n].parent
           age     == IF moved THEN 0
                      ELSE IF cadence[n].change < Grace THEN cadence[n].change + 1 ELSE Grace
           active  == changed \/ age < Grace
           every   == NextInterval(n, active)
           due     == active \/ cadence[n].sent + 1 >= every
<1>2. /\ t \in TreeState
      /\ t.cost >= Saturate(Dist[t.root][n])
      /\ t.parent # Absent => t.parent \in Heard(n)
  BY FixTreeSound, Zenon
<1>3. d \in 0..(DepthMod - 1)
  <2>1. CASE t.parent = Absent
    BY <2>1, TreeAssumption DEF OwnDepth
  <2>2. CASE t.parent # Absent
    <3>1. ann[n][t.parent] \in TreeAnnounce
      BY <1>2, <2>2 DEF Heard, Peers, IInv, TypeOK
    <3>2. ann[n][t.parent].depth \in Nat
      BY <3>1, TreeAssumption DEF TreeAnnounce
    <3> QED BY <2>2, <3>2, TreeAssumption DEF OwnDepth
  <2> QED BY <2>1, <2>2, Zenon
<1>4. Announce(t, d) \in TreeAnnounce
  BY <1>2, <1>3, Zenon DEF Announce, TreeAnnounce, TreeState
<1>5. cadence[n] \in [change : 0..Grace, sent : Nat, interval : MinInterval..MaxInterval]
  BY Zenon DEF IInv, TypeOK
<1>6. age \in 0..Grace /\ every \in MinInterval..MaxInterval
  BY <1>5, TreeAssumption DEF NextInterval
<1>7. /\ tree' = [tree EXCEPT ![n] = t]
      /\ depth' = [depth EXCEPT ![n] = d]
      /\ cadence' = [cadence EXCEPT ![n] = [change |-> age, interval |-> every,
                         sent |-> IF due THEN 0 ELSE cadence[n].sent + 1]]
      /\ UNCHANGED <<up, ann>>
  BY <1>1, Zenon DEF Maintain
<1>8. wire' = [wire EXCEPT ![n] =
                  [p \in Node |-> IF p \in Peers(n) THEN Announce(t, d) ELSE @[p]]]
      \/ wire' = wire
  BY <1>1, Zenon DEF Maintain
<1>9. ~due => cadence[n].sent + 1 < MaxInterval
  BY <1>5, <1>6, TreeAssumption
<1> HIDE DEF d, age, every, due
<1>10. TypeOK'
  <2>1. wire' \in [Node -> [Node -> TreeAnnounce \cup {Absent}]]
    <3> DEFINE row == [p \in Node |-> IF p \in Peers(n) THEN Announce(t, d) ELSE wire[n][p]]
    <3>1. wire \in [Node -> [Node -> TreeAnnounce \cup {Absent}]]
      BY Zenon DEF IInv, TypeOK
    <3>2. row \in [Node -> TreeAnnounce \cup {Absent}]
      BY <1>4, <3>1, Zenon
    <3>3. wire' = [wire EXCEPT ![n] = row] \/ wire' = wire
      BY <1>8, Zenon
    <3> HIDE DEF row
    <3> QED BY <3>1, <3>2, <3>3, Zenon
  <2>2. cadence' \in [Node -> [change : 0..Grace, sent : Nat, interval : MinInterval..MaxInterval]]
    BY <1>5, <1>6, <1>7 DEF IInv, TypeOK
  <2>3. tree' \in [Node -> TreeState]
    BY <1>2, <1>7, Zenon DEF IInv, TypeOK, TreeState
  <2> QED BY <1>3, <1>7, <2>1, <2>2, <2>3, Zenon DEF IInv, TypeOK, TreeState
<1>11. AnnouncesHonest'
  <2>1. Honest(Announce(t, d), n)
    BY <1>2, Zenon DEF Honest, Announce
  <2> SUFFICES ASSUME NEW m \in Node, NEW p \in Node
               PROVE  Honest(ann'[m][p], p) /\ Honest(wire'[p][m], p)
    BY Zenon DEF AnnouncesHonest, Honest
  <2>2. Honest(ann[m][p], p) /\ Honest(wire[p][m], p)
    BY Zenon DEF IInv, AnnouncesHonest
  <2>3. wire'[p][m] = wire[p][m] \/ (p = n /\ wire'[p][m] = Announce(t, d))
    BY <1>8 DEF IInv, TypeOK
  <2> QED BY <1>7, <2>1, <2>2, <2>3, Zenon
<1>12. CostsHonest'
  BY <1>2, <1>7, Zenon DEF IInv, TypeOK, CostsHonest, Saturate
<1>13. ParentIsPeer'
  BY <1>2, <1>7, Zenon DEF IInv, TypeOK, ParentIsPeer, Heard, Peers
<1>14. Refreshes'
  <2> SUFFICES ASSUME NEW m \in Node PROVE cadence'[m].sent < MaxInterval
    BY Zenon DEF Refreshes
  <2>1. CASE m = n
    BY <2>1, <1>7, <1>9, TreeAssumption DEF IInv, TypeOK
  <2>2. CASE m # n
    BY <2>2, <1>7, Zenon DEF IInv, TypeOK, Refreshes
  <2> QED BY <2>1, <2>2, Zenon
<1> QED BY <1>10, <1>11, <1>12, <1>13, <1>14, Zenon DEF IInv

\* Receiving an announce preserves the invariant: it was honest on the wire.
LEMMA AnnounceInv == ASSUME IInv, NEW n \in Node, NEW p \in Node, handle_announce(n, p) PROVE IInv'
<1> USE DEF handle_announce
<1>1. /\ wire[p][n] # Absent /\ wire[p][n] \in TreeAnnounce
      /\ wire' = [wire EXCEPT ![p][n] = Absent]
      /\ ann' = [ann EXCEPT ![n][p] = wire[p][n]]
      /\ UNCHANGED <<up, tree, depth>>
  BY DEF IInv, TypeOK
<1>2. /\ cadence' \in [Node -> [change : 0..Grace, sent : Nat, interval : MinInterval..MaxInterval]]
      /\ \A m \in Node : cadence'[m].sent = cadence[m].sent
  <2>1. cadence' = [cadence EXCEPT ![n].change = 0] \/ cadence' = cadence
    BY Zenon
  <2>2. [cadence[n] EXCEPT !.change = 0] \in [change : 0..Grace, sent : Nat, interval : MinInterval..MaxInterval]
    <3>1. cadence[n] \in [change : 0..Grace, sent : Nat, interval : MinInterval..MaxInterval]
      BY Zenon DEF IInv, TypeOK
    <3>2. 0 \in 0..Grace
      BY TreeAssumption
    <3> HIDE DEF handle_announce
    <3> QED BY <3>1, <3>2, Zenon
  <2> QED BY <2>1, <2>2, Zenon DEF IInv, TypeOK
<1>3. TypeOK'
  BY <1>1, <1>2 DEF IInv, TypeOK
<1>4. AnnouncesHonest'
  <2> SUFFICES ASSUME NEW m \in Node, NEW q \in Node
               PROVE  Honest(ann'[m][q], q) /\ Honest(wire'[q][m], q)
    BY Zenon DEF AnnouncesHonest, Honest
  <2>1. Honest(ann[m][q], q) /\ Honest(wire[q][m], q)
    BY Zenon DEF IInv, AnnouncesHonest
  <2>2. ann'[m][q] = ann[m][q] \/ (q = p /\ m = n /\ ann'[m][q] = wire[q][m])
    BY <1>1 DEF IInv, TypeOK
  <2>3. wire'[q][m] \in {wire[q][m], Absent}
    BY <1>1 DEF IInv, TypeOK
  <2>4. Honest(Absent, q) BY Zenon DEF Honest
  <2> QED BY <2>1, <2>2, <2>3, <2>4, Zenon
<1>5. CostsHonest'
  BY <1>1, Zenon DEF IInv, CostsHonest
<1>6. ParentIsPeer'
  <2> HIDE DEF handle_announce
  <2> SUFFICES ASSUME NEW m \in Node, tree[m].parent # Absent
               PROVE  tree[m].parent \in Heard(m)'
    BY <1>1, Zenon DEF ParentIsPeer
  <2>1. tree[m].parent \in Heard(m)
    BY Zenon DEF IInv, ParentIsPeer
  <2>2. \A q \in Node : ann[m][q] # Absent => ann'[m][q] # Absent
    BY <1>1, Zenon DEF IInv, TypeOK
  <2> QED BY <1>1, <2>1, <2>2, Zenon DEF Heard, Peers
<1>7. Refreshes'
  BY <1>2, Zenon DEF IInv, Refreshes
<1> QED BY <1>3, <1>4, <1>5, <1>6, <1>7, Zenon DEF IInv

\* A link that goes down preserves the invariant: remove_peer forgets the
\* announce and a tree that depended on it.
LEMMA LinkDownInv == ASSUME IInv, NEW l \in Links, LinkDown(l) PROVE IInv'
<1>1. /\ up' = up \ {l}
      /\ ann' = [n \in Node |-> [p \in Node |-> IF l = {n, p} THEN Absent ELSE ann[n][p]]]
      /\ wire' = [n \in Node |-> [p \in Node |-> IF l = {n, p} THEN Absent ELSE wire[n][p]]]
      /\ tree' = [n \in Node |-> IF n \in l /\ tree[n].parent \in l THEN OwnRoot(n) ELSE tree[n]]
      /\ UNCHANGED <<depth, cadence>>
  BY Zenon DEF LinkDown
<1>2. TypeOK'
  <2>1. ann' \in [Node -> [Node -> TreeAnnounce \cup {Absent}]]
    BY <1>1, Zenon DEF IInv, TypeOK
  <2>2. wire' \in [Node -> [Node -> TreeAnnounce \cup {Absent}]]
    BY <1>1, Zenon DEF IInv, TypeOK
  <2>3. tree' \in [Node -> [parent : Node \cup {Absent}, root : Node, cost : 0..CostMax]]
    BY <1>1, TreeAssumption DEF IInv, TypeOK, OwnRoot
  <2> QED BY <1>1, <2>1, <2>2, <2>3, Zenon DEF IInv, TypeOK
<1>3. AnnouncesHonest'
  <2> SUFFICES ASSUME NEW m \in Node, NEW q \in Node
               PROVE  Honest(ann'[m][q], q) /\ Honest(wire'[q][m], q)
    BY Zenon DEF AnnouncesHonest, Honest
  <2>1. Honest(ann[m][q], q) /\ Honest(wire[q][m], q) /\ Honest(Absent, q)
    BY Zenon DEF IInv, AnnouncesHonest, Honest
  <2>2. ann'[m][q] \in {ann[m][q], Absent} /\ wire'[q][m] \in {wire[q][m], Absent}
    BY <1>1, Zenon
  <2> QED BY <2>1, <2>2, Zenon
<1>4. CostsHonest'
  <2> SUFFICES ASSUME NEW n \in Node PROVE tree'[n].cost >= Saturate(Dist[tree'[n].root][n])
    BY Zenon DEF CostsHonest, Saturate
  <2>1. tree'[n] = tree[n] \/ tree'[n] = OwnRoot(n)
    BY <1>1, Zenon
  <2>2. Dist[n][n] = 0 /\ Saturate(0) = 0
    BY DistAssumption, TreeAssumption DEF Saturate
  <2> QED BY <2>1, <2>2 DEF IInv, CostsHonest, OwnRoot
<1>5. ParentIsPeer'
  <2> SUFFICES ASSUME NEW n \in Node, tree'[n].parent # Absent
               PROVE  /\ tree'[n].parent \in Node
                      /\ {n, tree'[n].parent} \in up'
                      /\ ann'[n][tree'[n].parent] # Absent
    BY Zenon DEF ParentIsPeer, Heard, Peers
  <2>1. tree'[n] = tree[n] /\ ~(n \in l /\ tree[n].parent \in l)
    BY <1>1, Zenon DEF OwnRoot
  <2>2. l # {n, tree[n].parent}
    BY <2>1, Zenon
  <2>3. tree[n].parent \in Heard(n)
    BY <2>1, Zenon DEF IInv, ParentIsPeer
  <2> QED BY <1>1, <2>1, <2>2, <2>3, Zenon DEF Heard, Peers
<1>6. Refreshes'
  BY <1>1, Zenon DEF IInv, Refreshes
<1> QED BY <1>2, <1>3, <1>4, <1>5, <1>6, Zenon DEF IInv

\* Every step preserves the invariant.
LEMMA StepInv == IInv /\ [Next]_vars => IInv'
<1> SUFFICES ASSUME IInv, [Next]_vars PROVE IInv' BY Zenon
<1>1. ASSUME NEW n \in Node, Tick(n) PROVE IInv'
  BY <1>1, TickInv, Zenon
<1>2. ASSUME NEW n \in Node, NEW p \in Node, handle_announce(n, p) PROVE IInv'
  BY <1>2, AnnounceInv, Zenon
<1>3. ASSUME NEW l \in Links, LinkDown(l) PROVE IInv'
  BY <1>3, LinkDownInv, Zenon
<1>4. ASSUME NEW l \in Links, LinkUp(l) PROVE IInv'
  BY <1>4, Zenon DEF LinkUp, IInv, TypeOK, AnnouncesHonest, Honest, CostsHonest, ParentIsPeer,
              Heard, Peers, Refreshes
<1>5. CASE UNCHANGED vars
  BY <1>5, Zenon DEF vars, IInv, TypeOK, AnnouncesHonest, Honest, CostsHonest, ParentIsPeer,
              Heard, Peers, Refreshes
<1> QED BY <1>1, <1>2, <1>3, <1>4, <1>5, Zenon DEF Next

\* Every variable keeps its type, with any topology and any link failures.
THEOREM TreeTypes == Spec => []TypeOK
<1>1. IInv => TypeOK BY Zenon DEF IInv
<1> QED BY InitInv, StepInv, <1>1, PTL DEF Spec

\* No node ever announces a cost to a root that the topology rules out, however
\* announces are delayed, echoed or go stale and however link costs vary.
THEOREM CostsNeverUndersell == Spec => []CostsHonest
<1>1. IInv => CostsHonest BY Zenon DEF IInv
<1> QED BY InitInv, StepInv, <1>1, PTL DEF Spec

\* A parent is always a live peer with an announce at hand.
THEOREM ParentsArePeers == Spec => []ParentIsPeer
<1>1. IInv => ParentIsPeer BY Zenon DEF IInv
<1> QED BY InitInv, StepInv, <1>1, PTL DEF Spec

\* No more than CONTROL_MAX_INTERVAL ticks pass between two broadcasts.
THEOREM AnnouncesRefreshed == Spec => []Refreshes
<1>1. IInv => Refreshes BY Zenon DEF IInv
<1> QED BY InitInv, StepInv, <1>1, PTL DEF Spec

-----------------------------------------------------------------------------
(* Agreement on the root: once every node, announce and frame names the     *)
(* least key, only the loss of a link can undo it.                          *)

Top == Least(Node)

\* Everybody is under the least key, and nothing stored or on its way names another root.
TreeSettled ==
    /\ \A n \in Node : tree[n].root = Top /\ (n # Top => tree[n].parent # Absent)
    /\ \A n, p \in Node : /\ ann[n][p] # Absent => ann[n][p].root = Top
                          /\ wire[p][n] # Absent => wire[p][n].root = Top

\* A set of naturals that is not empty has a least element.
LEMMA LeastNat ==
    ASSUME NEW T \in SUBSET Nat, T # {}
    PROVE  \E x \in T : \A y \in T : x <= y
<1>1. PICK x \in T : \A y \in T : ~(<<y, x>> \in OpToRel(<, Nat))
  BY WFMin, NatLessThanWellFounded, Zenon
<1>2. \A y \in T : ~(y < x)
  BY <1>1, Zenon DEF OpToRel
<1> QED BY <1>2

LEMMA TopLeast == ASSUME NEW n \in Node PROVE Top \in Node /\ Top <= n
<1>1. PICK x \in Node : \A y \in Node : x <= y
  BY TreeAssumption, LeastNat, Zenon
<1> QED BY <1>1, Zenon DEF Top, Least

\* fix_tree keeps to the least key, also at the node that holds it.
LEMMA FixTreeSettled ==
    ASSUME IInv, TreeSettled, NEW n \in Node, NEW w \in [Peers(n) -> LinkCosts], NEW t \in FixTree(n, w)
    PROVE  t.root = Top /\ (n # Top => t.parent # Absent)
<1>1. Heard(n) = {} => n = Top
  BY Zenon DEF TreeSettled, IInv, ParentIsPeer
<1>2. ASSUME Heard(n) # {} PROVE BestRoot(n) = Top
  <2>1. {ann[n][p].root : p \in Heard(n)} = {Top}
    BY <1>2, Zenon DEF TreeSettled, Heard, Peers
  <2>2. Least({Top}) = Top
    BY TopLeast, TreeAssumption, Zenon DEF Least
  <2> QED BY <2>1, <2>2, Zenon DEF BestRoot
<1>3. CASE UseSelf(n)
  <2>1. t = OwnRoot(n)
    BY <1>3, Zenon DEF FixTree
  <2>2. n = Top
    <3>1. n \in Nat /\ Top \in Nat /\ Top <= n
      BY TopLeast, TreeAssumption, Zenon
    <3>2. ~(n < Top)
      BY <3>1
    <3> QED BY <1>1, <1>2, <1>3, <3>2, Zenon DEF UseSelf
  <2> QED BY <2>1, <2>2, Zenon DEF OwnRoot
<1>4. CASE ~UseSelf(n)
  <2>1. PICK p \in BestParents(n, w) :
          t = LET q == IF Keeps(n, p, w) THEN tree[n].parent ELSE p
              IN  [parent |-> q, root |-> BestRoot(n), cost |-> TotalCost(n, q, w)]
    BY <1>4, Zenon DEF FixTree
  <2> DEFINE q == IF Keeps(n, p, w) THEN tree[n].parent ELSE p
  <2>2. t = [parent |-> q, root |-> BestRoot(n), cost |-> TotalCost(n, q, w)]
    BY <2>1, Zenon
  <2>3. q \in Heard(n)
    BY Zenon DEF Keeps, BestParents
  <2> HIDE DEF q
  <2>4. q \in Node /\ q # Absent
    BY <2>3, TreeAssumption, Zenon DEF Heard, Peers
  <2> QED BY <1>2, <2>2, <2>3, <2>4, Zenon
<1> QED BY <1>3, <1>4, Zenon

LEMMA TickSettled ==
    ASSUME IInv, TreeSettled, NEW n \in Node, Tick(n)
    PROVE  TreeSettled'
<1>0. PICK w \in [Peers(n) -> LinkCosts] : \E t \in FixTree(n, w) : Maintain(n, t)
  BY Zenon DEF Tick
<1>1. PICK t \in FixTree(n, w) : Maintain(n, t)
  BY <1>0, Zenon
<1>2. t.root = Top /\ (n # Top => t.parent # Absent)
  BY FixTreeSettled, Zenon
<1> DEFINE a == Announce(t, OwnDepth(n, t))
<1>3. a.root = Top
  BY <1>2, Zenon DEF Announce
<1> HIDE DEF a
<1>4. tree' = [tree EXCEPT ![n] = t] /\ ann' = ann
  BY <1>1, Zenon DEF Maintain
<1>5. \/ wire' = wire
      \/ wire' = [wire EXCEPT ![n] = [p \in Node |-> IF p \in Peers(n) THEN a ELSE @[p]]]
  BY <1>1, Zenon DEF Maintain, a
<1>6. ASSUME NEW m \in Node PROVE tree'[m].root = Top /\ (m # Top => tree'[m].parent # Absent)
  BY <1>2, <1>4, Zenon DEF TreeSettled, IInv, TypeOK
<1>7. ASSUME NEW m \in Node, NEW p \in Node
      PROVE  /\ ann'[m][p] # Absent => ann'[m][p].root = Top
             /\ wire'[p][m] # Absent => wire'[p][m].root = Top
  <2>1. wire'[p][m] = wire[p][m] \/ wire'[p][m] = a
    <3>1. wire \in [Node -> [Node -> TreeAnnounce \cup {Absent}]]
      BY Zenon DEF IInv, TypeOK
    <3> DEFINE row == [q \in Node |-> IF q \in Peers(n) THEN a ELSE wire[n][q]]
    <3>2. wire' = wire \/ wire' = [wire EXCEPT ![n] = row]
      BY <1>5, Zenon
    <3>3. row[m] = wire[n][m] \/ row[m] = a
      BY Zenon
    <3> HIDE DEF row
    <3> QED BY <3>1, <3>2, <3>3, Zenon
  <2> QED BY <1>3, <1>4, <2>1, Zenon DEF TreeSettled
<1> QED BY <1>6, <1>7, Zenon DEF TreeSettled, Top

\* No step but the loss of a link undoes an agreement on the root: announces still on their way,
\* ticks at any cadence, changing link costs and links coming back do not (fix_tree,
\* handle_announce, router/mod.rs).
THEOREM AgreementIsStable == Spec => [][TreeSettled => TreeSettled' \/ \E l \in Links : LinkDown(l)]_vars
<1>1. IInv /\ [Next]_vars => [TreeSettled => TreeSettled' \/ \E l \in Links : LinkDown(l)]_vars
  <2> SUFFICES ASSUME IInv, [Next]_vars, TreeSettled, ~\E l \in Links : LinkDown(l)
               PROVE  TreeSettled'
    BY Zenon
  <2>1. ASSUME NEW n \in Node, Tick(n) PROVE TreeSettled'
    BY <2>1, TickSettled, Zenon
  <2>2. ASSUME NEW n \in Node, NEW p \in Node, handle_announce(n, p) PROVE TreeSettled'
    <3>1. /\ wire' = [wire EXCEPT ![p][n] = Absent] /\ ann' = [ann EXCEPT ![n][p] = wire[p][n]]
          /\ tree' = tree
      BY <2>2, Zenon DEF handle_announce
    <3>2. ASSUME NEW m \in Node, NEW q \in Node
          PROVE  /\ ann'[m][q] \in {ann[m][q], wire[q][m]}
                 /\ wire'[q][m] \in {wire[q][m], Absent}
      BY <3>1, Zenon DEF IInv, TypeOK
    <3> QED BY <3>1, <3>2 DEF TreeSettled, Top
  <2>3. ASSUME NEW l \in Links, LinkUp(l) PROVE TreeSettled'
    BY <2>3, Zenon DEF LinkUp, TreeSettled, Top
  <2>4. CASE UNCHANGED vars
    BY <2>4, Zenon DEF vars, TreeSettled, Top
  <2> QED BY <2>1, <2>2, <2>3, <2>4, Zenon DEF Next
<1> QED BY <1>1, InitInv, StepInv, PTL DEF Spec

\* Once agreement is reached and no link is lost any more, the roots agree for ever.
THEOREM AgreementStays == Spec => [](TreeSettled /\ downs = MaxDowns => []RootsAgree)
<1> DEFINE Q == TreeSettled /\ downs = MaxDowns
<1>1. Q /\ [Next]_vars /\ [TreeSettled => TreeSettled' \/ \E l \in Links : LinkDown(l)]_vars => Q'
  <2> SUFFICES ASSUME Q, [Next]_vars, [TreeSettled => TreeSettled' \/ \E l \in Links : LinkDown(l)]_vars
               PROVE  Q'
    BY Zenon
  <2>1. ~\E l \in Links : LinkDown(l)
    BY TreeAssumption DEF LinkDown
  <2>2. TreeSettled'
    <3>1. CASE UNCHANGED vars
      BY <3>1, Zenon DEF vars, TreeSettled, Top
    <3> QED BY <2>1, <3>1, Zenon
  <2>3. downs' = downs
    BY <2>1 DEF Next, Tick, Maintain, handle_announce, LinkUp, vars
  <2> QED BY <2>2, <2>3, Zenon
<1>2. Q => RootsAgree
  BY Zenon DEF TreeSettled, RootsAgree, Top
<1> QED BY <1>1, <1>2, AgreementIsStable, PTL DEF Spec

-----------------------------------------------------------------------------
(***************************************************************************)
(* For filters of every size and every involution bucket2: members are     *)
(* found and fingerprints sit in valid buckets.                            *)
(*                                                                         *)
(* The argument follows fingerprints as tokens.  A token is a bucket with  *)
(* a fingerprint in it, in the hand of a cascade, or dropped.  A kick      *)
(* moves a token to the other bucket of its own pair, so the keys it may   *)
(* stand for (Alias) do not change.                                        *)
(***************************************************************************)

FilterType ==
    /\ buckets \in [Bucket -> [Slot -> Fingerprint \cup {0}]]
    /\ cascade \subseteq [left : Nat, bucket : Bucket, fp : Fingerprint]
    /\ walk \in Seq(Key)
    /\ members \subseteq Key
    /\ removed \subseteq Key
    /\ lost \subseteq Key

(* A cascade is alone, works in a full bucket and carries a token of a     *)
(* key that was put in.                                                    *)
CascadeSound ==
    /\ \A c, d \in cascade : c = d
    /\ \A c \in cascade :
          /\ \A s \in Slot : buckets[c.bucket][s] # 0
          /\ Alias(c.bucket, c.fp) \cap (members \cup removed) # {}

FilterInv == FilterType /\ CascadeSound /\ MembersFound /\ FingerprintsHomed

(* The other bucket of a token stands for the same keys.                   *)
LEMMA AliasMoves ==
    ASSUME NEW b \in Bucket, NEW fp \in Fingerprint
    PROVE  /\ bucket2(b, fp) \in Bucket
           /\ Alias(bucket2(b, fp), fp) = Alias(b, fp)
           /\ Alias(b, fp) \subseteq Key
           /\ <<b, fp>> \in Alias(b, fp)
    BY FilterAssumption DEF Alias, Key

Table == [Bucket -> [Slot -> Fingerprint \cup {0}]]

(* Some slot of the table t holds a token that stands for k.               *)
Token(t, k) == \E b \in Bucket, s \in Slot : t[b][s] # 0 /\ k \in Alias(b, t[b][s])

(* A key is found exactly if some slot holds a token that stands for it.   *)
LEMMA FoundByToken ==
    ASSUME NEW t \in Table, NEW k \in Key
    PROVE  Token(t, k) <=> \/ \E s \in Slot : t[k[1]][s] = k[2]
                           \/ \E s \in Slot : t[bucket2(k[1], k[2])][s] = k[2]
<1>1. k[1] \in Bucket /\ k[2] \in Fingerprint /\ k = <<k[1], k[2]>>
  BY DEF Key
<1>2. k[2] # 0
  BY <1>1, FilterAssumption, Zenon
<1>3. ASSUME NEW b \in {k[1], bucket2(k[1], k[2])}, NEW s \in Slot, t[b][s] = k[2]
      PROVE  Token(t, k)
  <2>1. b \in Bucket /\ Alias(b, k[2]) = Alias(k[1], k[2])
    BY <1>1, <1>3, AliasMoves, Zenon
  <2>2. k \in Alias(k[1], k[2])
    BY <1>1, Zenon DEF Alias
  <2>3. QED
    BY <1>2, <1>3, <2>1, <2>2, Zenon DEF Token
<1>4. ASSUME NEW b \in Bucket, NEW s \in Slot, t[b][s] # 0, k \in Alias(b, t[b][s])
      PROVE  (b = k[1] \/ b = bucket2(k[1], k[2])) /\ t[b][s] = k[2]
  <2>1. t[b][s] \in Fingerprint
    BY <1>4, Zenon DEF Table
  <2>2. k[2] = t[b][s] /\ (k[1] = b \/ k[1] = bucket2(b, t[b][s]))
    BY <1>4 DEF Alias
  <2>3. QED
    BY <2>1, <2>2, FilterAssumption, Zenon
<1>5. QED
  BY <1>3, <1>4 DEF Token

(* MembersFound, said with tokens.                                         *)
Found(t, cs, ls, k) ==
    \/ Token(t, k)
    \/ \E c \in cs : k \in Alias(c.bucket, c.fp)
    \/ \E l \in ls : k \in Alias(l[1], l[2])

LEMMA MembersByToken ==
    /\ FilterType => (MembersFound <=> \A k \in members : Found(buckets, cascade, lost, k))
    /\ FilterType' => (MembersFound' <=> \A k \in members' : Found(buckets', cascade', lost', k))
<1>1. ASSUME FilterType
      PROVE  MembersFound <=> \A k \in members : Found(buckets, cascade, lost, k)
  <2>1. buckets \in Table /\ members \subseteq Key
    BY <1>1, Zenon DEF FilterType, Table
  <2>2. \A k \in members : contains(k[1], k[2]) <=> Token(buckets, k)
    BY <2>1, FoundByToken, Zenon DEF contains, contains_slot
  <2>3. QED
    BY <2>2, Zenon DEF MembersFound, Found
<1>2. ASSUME FilterType'
      PROVE  MembersFound' <=> \A k \in members' : Found(buckets', cascade', lost', k)
  <2>1. buckets' \in Table /\ members' \subseteq Key
    BY <1>2, Zenon DEF FilterType, Table
  <2>2. \A k \in members' : contains(k[1], k[2])' <=> Token(buckets', k)
    BY <2>1, FoundByToken, Zenon DEF contains, contains_slot
  <2>3. QED
    BY <2>2, Zenon DEF MembersFound, Found
<1>3. QED
  BY <1>1, <1>2, Zenon

(* A fingerprint put in a free slot adds its own token and takes none.     *)
LEMMA PlaceKeepsTokens ==
    ASSUME buckets \in Table, NEW b \in Bucket, NEW fp \in Fingerprint,
           Fits(b, fp), Place(b, fp)
    PROVE  /\ buckets' \in Table
           /\ Token(buckets', <<b, fp>>)
           /\ \A k : Token(buckets, k) => Token(buckets', k)
           /\ \A c \in Bucket, s \in Slot :
                 buckets'[c][s] = buckets[c][s] \/ Alias(c, buckets'[c][s]) = Alias(b, fp)
<1>1. PICK d \in {b, bucket2(b, fp)}, s \in Slot :
        buckets[d][s] = 0 /\ buckets' = [buckets EXCEPT ![d][s] = fp]
  BY Zenon DEF Place, insert_slot
<1>2. d \in Bucket /\ Alias(d, fp) = Alias(b, fp) /\ <<b, fp>> \in Alias(b, fp) /\ fp # 0
  BY <1>1, AliasMoves, FilterAssumption, Zenon
<1>3. buckets' \in Table
  BY <1>1, <1>2, Zenon DEF Table
<1>4. /\ buckets'[d][s] = fp
      /\ \A c \in Bucket, u \in Slot : <<c, u>> # <<d, s>> => buckets'[c][u] = buckets[c][u]
  BY <1>1, <1>2, Zenon DEF Table
<1>5. Token(buckets', <<b, fp>>)
  BY <1>2, <1>4, Zenon DEF Token
<1>6. \A k : Token(buckets, k) => Token(buckets', k)
  BY <1>1, <1>4, Zenon DEF Token
<1>7. QED
  BY <1>2, <1>3, <1>4, <1>5, <1>6, Zenon

LEMMA InitFilterInv == FilterInit => FilterInv
<1> SUFFICES ASSUME FilterInit PROVE FilterInv
  BY Zenon
<1>1. FilterType
  BY EmptySeq, Zenon DEF FilterInit, FilterType
<1>2. CascadeSound /\ MembersFound /\ FingerprintsHomed
  BY Zenon DEF FilterInit, CascadeSound, MembersFound, FingerprintsHomed
<1>3. QED
  BY <1>1, <1>2, Zenon DEF FilterInv

(* add and one slot of merge: the token goes into a free slot, into the    *)
(* hand of a new cascade, or is there already.                             *)
LEMMA InsertKeepsInv ==
    ASSUME FilterInv, cascade = {}, NEW b \in Bucket, NEW fp \in Fingerprint,
           members' = members \cup {<<b, fp>>},
           UNCHANGED <<removed, lost>>,
           walk' \in Seq(Key),
           \/ Fits(b, fp) /\ Place(b, fp) /\ UNCHANGED cascade
           \/ /\ ~Fits(b, fp)
              /\ UNCHANGED buckets
              /\ \E n \in Nat, c \in {b, bucket2(b, fp)} :
                    cascade' = {[left |-> n, bucket |-> c, fp |-> fp]}
           \/ contains(b, fp) /\ UNCHANGED <<buckets, cascade>>
    PROVE  FilterInv'
<1>0. /\ FilterType /\ FingerprintsHomed
      /\ buckets \in Table
      /\ <<b, fp>> \in Key /\ <<b, fp>> \in Alias(b, fp)
      /\ \A k \in members : Found(buckets, cascade, lost, k)
  BY AliasMoves, MembersByToken, Zenon DEF FilterInv, FilterType, Table, Key
<1>1. CASE Fits(b, fp) /\ Place(b, fp) /\ UNCHANGED cascade
  <2>1. /\ buckets' \in Table
        /\ Token(buckets', <<b, fp>>)
        /\ \A k : Token(buckets, k) => Token(buckets', k)
        /\ \A c \in Bucket, s \in Slot :
              buckets'[c][s] = buckets[c][s] \/ Alias(c, buckets'[c][s]) = Alias(b, fp)
    BY <1>0, <1>1, PlaceKeepsTokens, Zenon
  <2>2. FilterType'
    BY <1>0, <1>1, <2>1, Zenon DEF FilterType, Table
  <2>3. CascadeSound'
    BY <1>1, Zenon DEF CascadeSound
  <2>4. \A k \in members' : Found(buckets', cascade', lost', k)
    BY <1>0, <1>1, <2>1, Zenon DEF Found
  <2>5. FingerprintsHomed'
    BY <1>0, <2>1, Zenon DEF FingerprintsHomed
  <2>6. QED
    BY <2>2, <2>3, <2>4, <2>5, MembersByToken, Zenon DEF FilterInv
<1>2. CASE /\ ~Fits(b, fp)
           /\ UNCHANGED buckets
           /\ \E n \in Nat, c \in {b, bucket2(b, fp)} :
                 cascade' = {[left |-> n, bucket |-> c, fp |-> fp]}
  <2>1. PICK n \in Nat, c \in {b, bucket2(b, fp)} :
          cascade' = {[left |-> n, bucket |-> c, fp |-> fp]}
    BY <1>2, Zenon
  <2>2. c \in Bucket /\ Alias(c, fp) = Alias(b, fp)
    BY <2>1, AliasMoves, Zenon
  <2>3. FilterType'
    <3>1. cascade' \subseteq [left : Nat, bucket : Bucket, fp : Fingerprint]
      BY <2>1, <2>2
    <3>2. members' \subseteq Key
      BY <1>0, Zenon DEF FilterType
    <3>3. QED
      BY <3>1, <3>2, <1>0, <1>2, Zenon DEF FilterType
  <2>4. \A s \in Slot : buckets[c][s] # 0
    BY <1>2, <2>1, Zenon DEF Fits, HasRoom, contains_slot
  <2>5. CascadeSound'
    <3>1. <<b, fp>> \in Alias(c, fp) \cap (members' \cup removed')
      BY <1>0, <2>2, Zenon
    <3>2. \A d \in cascade' : d.bucket = c /\ d.fp = fp
      BY <2>1
    <3>3. \A d, e \in cascade' : d = e
      BY <2>1, Zenon
    <3>4. \A d \in cascade' : \A s \in Slot : buckets'[d.bucket][s] # 0
      BY <3>2, <2>4, <1>2, Zenon
    <3>5. \A d \in cascade' : Alias(d.bucket, d.fp) \cap (members' \cup removed') # {}
      BY <3>1, <3>2, Zenon
    <3>6. QED
      BY <3>3, <3>4, <3>5, Zenon DEF CascadeSound
  <2>6. \A k \in members' : Found(buckets', cascade', lost', k)
    BY <1>0, <1>2, <2>1, <2>2, Zenon DEF Found
  <2>7. FingerprintsHomed'
    BY <1>0, <1>2 DEF FingerprintsHomed
  <2>8. QED
    BY <2>3, <2>5, <2>6, <2>7, MembersByToken, Zenon DEF FilterInv
<1>3. CASE contains(b, fp) /\ UNCHANGED <<buckets, cascade>>
  <2>1. FilterType'
    BY <1>0, <1>3, Zenon DEF FilterType
  <2>2. CascadeSound'
    BY <1>3, Zenon DEF CascadeSound
  <2>3. MembersFound'
    BY <1>3 DEF FilterInv, MembersFound, contains, contains_slot
  <2>4. FingerprintsHomed'
    BY <1>0, <1>3, Zenon DEF FingerprintsHomed
  <2>5. QED
    BY <2>1, <2>2, <2>3, <2>4, Zenon DEF FilterInv
<1>4. QED
  BY <1>1, <1>2, <1>3, Zenon

(* A kick swaps the token in hand with one of a full bucket; the token     *)
(* that comes out goes to its other bucket, into the hand, or is lost.     *)
LEMMA KickKeepsInv == FilterInv /\ kick => FilterInv'
<1> SUFFICES ASSUME FilterInv, kick PROVE FilterInv'
  BY Zenon
<1>0. FilterType /\ FingerprintsHomed /\ CascadeSound /\ buckets \in Table
      /\ \A k \in members : Found(buckets, cascade, lost, k)
  BY MembersByToken, Zenon DEF FilterInv, FilterType, Table
<1>1. PICK c \in cascade, s \in Slot :
        LET out == buckets[c.bucket][s]
            next == bucket2(c.bucket, out)
            swapped == [buckets EXCEPT ![c.bucket][s] = c.fp]
        IN  /\ \/ \E t \in Slot :
                    /\ swapped[next][t] = 0
                    /\ buckets' = [swapped EXCEPT ![next][t] = out]
                    /\ cascade' = {}
                    /\ UNCHANGED lost
               \/ /\ \A t \in Slot : swapped[next][t] # 0
                  /\ buckets' = swapped
                  /\ IF c.left > 1
                        THEN /\ cascade' = {[left |-> c.left - 1, bucket |-> next, fp |-> out]}
                             /\ UNCHANGED lost
                        ELSE /\ cascade' = {}
                             /\ lost' = lost \cup {<<next, out>>}
            /\ UNCHANGED <<walk, members, removed>>
  BY Zenon DEF kick, NextBucket
<1> DEFINE out == buckets[c.bucket][s]
           next == bucket2(c.bucket, out)
           swapped == [buckets EXCEPT ![c.bucket][s] = c.fp]
<1>2. /\ c.bucket \in Bucket /\ c.fp \in Fingerprint /\ c.left \in Nat
      /\ c.fp # 0 /\ cascade = {c}
  BY <1>0, FilterAssumption, Zenon DEF FilterType, CascadeSound
<1>3. out # 0 /\ out \in Fingerprint
  BY <1>0, <1>2, Zenon DEF CascadeSound, Table
<1>4. next \in Bucket /\ Alias(next, out) = Alias(c.bucket, out)
  BY <1>2, <1>3, AliasMoves, Zenon
<1>5. /\ Alias(c.bucket, c.fp) \cap (members \cup removed) # {}
      /\ Alias(next, out) \cap (members \cup removed) # {}
  BY <1>0, <1>2, <1>3, <1>4, Zenon DEF CascadeSound, FingerprintsHomed
<1>6. /\ swapped \in Table
      /\ swapped[c.bucket][s] = c.fp
      /\ \A d \in Bucket, u \in Slot :
            <<d, u>> # <<c.bucket, s>> => swapped[d][u] = buckets[d][u]
  BY <1>0, <1>2, Zenon DEF Table
<1> HIDE DEF out, next, swapped
<1>7. \A k : Token(buckets, k) => Token(swapped, k) \/ k \in Alias(next, out)
  <2> SUFFICES ASSUME NEW k, Token(buckets, k), k \notin Alias(next, out)
               PROVE  Token(swapped, k)
    BY Zenon
  <2>1. PICK d \in Bucket, u \in Slot : buckets[d][u] # 0 /\ k \in Alias(d, buckets[d][u])
    BY Zenon DEF Token
  <2>2. <<d, u>> # <<c.bucket, s>>
    BY <2>1, <1>4, Zenon DEF out
  <2>3. QED
    BY <2>1, <2>2, <1>6, Zenon DEF Token
<1>8. \A k : k \in Alias(c.bucket, c.fp) => Token(swapped, k)
  BY <1>2, <1>6, Zenon DEF Token
<1>9. \A d \in Bucket, u \in Slot :
        swapped[d][u] # 0 => Alias(d, swapped[d][u]) \cap (members \cup removed) # {}
  <2> SUFFICES ASSUME NEW d \in Bucket, NEW u \in Slot, swapped[d][u] # 0
               PROVE  Alias(d, swapped[d][u]) \cap (members \cup removed) # {}
    BY Zenon
  <2>1. CASE <<d, u>> = <<c.bucket, s>>
    BY <2>1, <1>5, <1>6, Zenon
  <2>2. CASE <<d, u>> # <<c.bucket, s>>
    <3>1. swapped[d][u] = buckets[d][u]
      BY <2>2, <1>6, Zenon
    <3>2. QED
      BY <3>1, <1>0, Zenon DEF FingerprintsHomed
  <2>3. QED
    BY <2>1, <2>2, Zenon
<1>10. \A k \in members : \/ Token(swapped, k)
                          \/ k \in Alias(next, out)
                          \/ \E l \in lost : k \in Alias(l[1], l[2])
  BY <1>0, <1>2, <1>7, <1>8, Zenon DEF Found
<1>11. CASE \E t \in Slot : /\ swapped[next][t] = 0
                            /\ buckets' = [swapped EXCEPT ![next][t] = out]
                            /\ cascade' = {}
                            /\ UNCHANGED <<lost, walk, members, removed>>
  <2>1. PICK t \in Slot : /\ swapped[next][t] = 0
                          /\ buckets' = [swapped EXCEPT ![next][t] = out]
    BY <1>11, Zenon
  <2>2. /\ buckets' \in Table
        /\ buckets'[next][t] = out
        /\ \A d \in Bucket, u \in Slot :
              <<d, u>> # <<next, t>> => buckets'[d][u] = swapped[d][u]
    BY <2>1, <1>3, <1>4, <1>6, Zenon DEF Table
  <2>3. \A k : Token(swapped, k) => Token(buckets', k)
    BY <2>1, <2>2, Zenon DEF Token
  <2>4. \A k : k \in Alias(next, out) => Token(buckets', k)
    BY <2>2, <1>3, <1>4, Zenon DEF Token
  <2>5. FilterType'
    BY <2>2, <1>0, <1>11, Zenon DEF FilterType, Table
  <2>6. \A k \in members' : Found(buckets', cascade', lost', k)
    BY <2>3, <2>4, <1>10, <1>11, Zenon DEF Found
  <2>7. FingerprintsHomed'
    <3> SUFFICES ASSUME NEW d \in Bucket, NEW u \in Slot, buckets'[d][u] # 0
                 PROVE  Alias(d, buckets'[d][u]) \cap (members \cup removed) # {}
      BY <1>11, Zenon DEF FingerprintsHomed
    <3>1. CASE <<d, u>> = <<next, t>>
      BY <3>1, <2>2, <1>5, Zenon
    <3>2. CASE <<d, u>> # <<next, t>>
      <4>1. buckets'[d][u] = swapped[d][u]
        BY <3>2, <2>2, Zenon
      <4>2. QED
        BY <4>1, <1>9, Zenon
    <3>3. QED
      BY <3>1, <3>2, Zenon
  <2>8. CascadeSound'
    BY <1>11, Zenon DEF CascadeSound
  <2>9. QED
    BY <2>5, <2>6, <2>7, <2>8, MembersByToken, Zenon DEF FilterInv
<1>12. CASE /\ \A t \in Slot : swapped[next][t] # 0
            /\ buckets' = swapped
            /\ c.left > 1
            /\ cascade' = {[left |-> c.left - 1, bucket |-> next, fp |-> out]}
            /\ UNCHANGED <<lost, walk, members, removed>>
  <2>1. c.left - 1 \in Nat
    BY <1>2, <1>12
  <2>2. FilterType'
    BY <2>1, <1>0, <1>3, <1>4, <1>6, <1>12 DEF FilterType, Table
  <2>3. \A k \in members' : Found(buckets', cascade', lost', k)
    BY <1>10, <1>12, Zenon DEF Found
  <2>4. FingerprintsHomed'
    BY <1>9, <1>12, Zenon DEF FingerprintsHomed
  <2>5. CascadeSound'
    BY <1>5, <1>12 DEF CascadeSound
  <2>6. QED
    BY <2>2, <2>3, <2>4, <2>5, MembersByToken, Zenon DEF FilterInv
<1>13. CASE /\ buckets' = swapped
            /\ cascade' = {}
            /\ lost' = lost \cup {<<next, out>>}
            /\ UNCHANGED <<walk, members, removed>>
  <2>1. FilterType'
    BY <1>0, <1>3, <1>4, <1>6, <1>13 DEF FilterType, Table, Key
  <2>2. \A k \in members' : Found(buckets', cascade', lost', k)
    <3>1. \A k \in Alias(next, out) : \E l \in lost' : k \in Alias(l[1], l[2])
      <4>1. <<next, out>> \in lost' /\ <<next, out>>[1] = next /\ <<next, out>>[2] = out
        BY <1>13, Zenon
      <4>2. QED
        BY <4>1, Zenon
    <3>2. QED
      BY <3>1, <1>10, <1>13, Zenon DEF Found
  <2>3. FingerprintsHomed'
    BY <1>9, <1>13, Zenon DEF FingerprintsHomed
  <2>4. CascadeSound'
    BY <1>13, Zenon DEF CascadeSound
  <2>5. QED
    BY <2>1, <2>2, <2>3, <2>4, MembersByToken, Zenon DEF FilterInv
<1>14. QED
  BY <1>1, <1>11, <1>12, <1>13, Zenon DEF out, next, swapped

LEMMA NextFilterInv == FilterInv /\ [FilterNext]_filter_vars => FilterInv'
<1> SUFFICES ASSUME FilterInv, [FilterNext]_filter_vars PROVE FilterInv'
  BY Zenon
<1>0. FilterType /\ CascadeSound /\ FingerprintsHomed
  BY Zenon DEF FilterInv
<1>1. ASSUME NEW k \in Key, add(k[1], k[2]) PROVE FilterInv'
  <2> DEFINE b == k[1]
             fp == k[2]
  <2>1. b \in Bucket /\ fp \in Fingerprint
    BY Zenon DEF Key
  <2>2. cascade = {} /\ walk' = <<>> /\ UNCHANGED <<removed, lost>>
        /\ members' = members \cup {<<b, fp>>}
    BY <1>1, Zenon DEF add, Idle
  <2>3. walk' \in Seq(Key)
    BY <2>2, EmptySeq, Zenon
  <2>4. \/ Fits(b, fp) /\ Place(b, fp) /\ UNCHANGED cascade
        \/ /\ ~Fits(b, fp)
           /\ UNCHANGED buckets
           /\ \E n \in Nat, c \in {b, bucket2(b, fp)} :
                 cascade' = {[left |-> n, bucket |-> c, fp |-> fp]}
    BY <1>1, FilterAssumption, Zenon DEF add
  <2> HIDE DEF b, fp
  <2>5. QED
    BY <2>1, <2>2, <2>3, <2>4, InsertKeepsInv, Zenon
<1>2. ASSUME NEW k \in Key, remove(k[1], k[2]) PROVE FilterInv'
  <2> DEFINE b == k[1]
             fp == k[2]
  <2>1. b \in Bucket /\ fp \in Fingerprint /\ fp # 0 /\ Alias(b, fp) \subseteq Key
    BY AliasMoves, FilterAssumption, Zenon DEF Key
  <2>2. cascade = {} /\ UNCHANGED <<cascade, walk, lost>>
        /\ members' = members \ Alias(b, fp) /\ removed' = removed \cup Alias(b, fp)
    BY <1>2, Zenon DEF remove, Idle
  <2>3. \/ UNCHANGED buckets
        \/ \E c \in {b, bucket2(b, fp)}, s \in Slot :
              buckets[c][s] = fp /\ buckets' = [buckets EXCEPT ![c][s] = 0]
    BY <1>2, Zenon DEF remove
  <2> HIDE DEF b, fp
  <2>4. buckets \in Table /\ \A m \in members : Found(buckets, cascade, lost, m)
    BY <1>0, MembersByToken, Zenon DEF FilterInv, FilterType, Table
  <2>5. CASE UNCHANGED buckets
    <3>1. FilterType'
      BY <1>0, <2>1, <2>2, <2>5, Zenon DEF FilterType
    <3>2. \A m \in members' : Found(buckets', cascade', lost', m)
      BY <2>2, <2>4, <2>5, Zenon
    <3>3. FingerprintsHomed'
      BY <1>0, <2>2, <2>5, Zenon DEF FingerprintsHomed
    <3>4. CascadeSound'
      BY <2>2, Zenon DEF CascadeSound
    <3>5. QED
      BY <3>1, <3>2, <3>3, <3>4, MembersByToken, Zenon DEF FilterInv
  <2>6. ASSUME NEW c \in {b, bucket2(b, fp)}, NEW s \in Slot,
               buckets[c][s] = fp, buckets' = [buckets EXCEPT ![c][s] = 0]
        PROVE  FilterInv'
    <3>1. c \in Bucket /\ Alias(c, fp) = Alias(b, fp)
      BY <2>1, <2>6, AliasMoves, Zenon
    <3>2. /\ buckets' \in Table
          /\ buckets'[c][s] = 0
          /\ \A d \in Bucket, u \in Slot :
                <<d, u>> # <<c, s>> => buckets'[d][u] = buckets[d][u]
      BY <2>4, <2>6, <3>1, Zenon DEF Table
    <3>3. \A m : m \notin Alias(b, fp) /\ Token(buckets, m) => Token(buckets', m)
      <4> SUFFICES ASSUME NEW m, m \notin Alias(b, fp), Token(buckets, m)
                   PROVE  Token(buckets', m)
        BY Zenon
      <4>1. PICK d \in Bucket, u \in Slot : buckets[d][u] # 0 /\ m \in Alias(d, buckets[d][u])
        BY Zenon DEF Token
      <4>2. <<d, u>> # <<c, s>>
        BY <4>1, <2>6, <3>1, Zenon
      <4>3. QED
        BY <4>1, <4>2, <3>2, Zenon DEF Token
    <3>4. FilterType'
      BY <1>0, <2>1, <2>2, <3>2, Zenon DEF FilterType, Table
    <3>5. \A m \in members' : Found(buckets', cascade', lost', m)
      BY <2>2, <2>4, <3>3, Zenon DEF Found
    <3>6. FingerprintsHomed'
      <4> SUFFICES ASSUME NEW d \in Bucket, NEW u \in Slot, buckets'[d][u] # 0
                   PROVE  Alias(d, buckets'[d][u]) \cap (members' \cup removed') # {}
        BY Zenon DEF FingerprintsHomed
      <4>1. buckets'[d][u] = buckets[d][u]
        BY <3>2, Zenon
      <4>2. QED
        BY <4>1, <1>0, <2>2, Zenon DEF FingerprintsHomed
    <3>7. CascadeSound'
      BY <2>2, Zenon DEF CascadeSound
    <3>8. QED
      BY <3>4, <3>5, <3>6, <3>7, MembersByToken, Zenon DEF FilterInv
  <2>7. QED
    BY <2>3, <2>5, <2>6, Zenon
<1>3. ASSUME NEW w \in Walks, merge(w) PROVE FilterInv'
  <2>1. walk' \in Seq(Key) /\ UNCHANGED <<buckets, cascade, members, removed, lost>>
    BY <1>3, FilterAssumption, Zenon DEF merge, Key
  <2>2. FilterType' /\ CascadeSound' /\ FingerprintsHomed'
    BY <1>0, <2>1, Zenon DEF FilterType, CascadeSound, FingerprintsHomed
  <2>3. MembersFound'
    BY <2>1, Zenon DEF FilterInv, MembersFound, contains, contains_slot
  <2>4. QED
    BY <2>2, <2>3, Zenon DEF FilterInv
<1>4. ASSUME merge_slot PROVE FilterInv'
  <2> DEFINE b == Head(walk)[1]
             fp == Head(walk)[2]
  <2>1. Head(walk) \in Key /\ Tail(walk) \in Seq(Key)
    BY <1>0, <1>4, HeadTailProperties, Zenon DEF FilterType, merge_slot
  <2>2. b \in Bucket /\ fp \in Fingerprint
    BY <2>1, Zenon DEF Key
  <2>3. /\ cascade = {} /\ walk' \in Seq(Key) /\ UNCHANGED <<removed, lost>>
        /\ members' = members \cup {<<b, fp>>}
    BY <1>4, <2>1, Zenon DEF merge_slot
  <2>4. \/ contains(b, fp) /\ UNCHANGED <<buckets, cascade>>
        \/ Fits(b, fp) /\ Place(b, fp) /\ UNCHANGED cascade
        \/ /\ ~Fits(b, fp)
           /\ UNCHANGED buckets
           /\ \E n \in Nat, c \in {b, bucket2(b, fp)} :
                 cascade' = {[left |-> n, bucket |-> c, fp |-> fp]}
    BY <1>4, FilterAssumption, Zenon DEF merge_slot, Present
  <2> HIDE DEF b, fp
  <2>5. QED
    BY <2>2, <2>3, <2>4, InsertKeepsInv, Zenon
<1>5. CASE UNCHANGED filter_vars
  <2>1. FilterType' /\ CascadeSound' /\ FingerprintsHomed'
    BY <1>0, <1>5, Zenon DEF filter_vars, FilterType, CascadeSound, FingerprintsHomed
  <2>2. MembersFound'
    BY <1>5, Zenon DEF filter_vars, FilterInv, MembersFound, contains, contains_slot
  <2>3. QED
    BY <2>1, <2>2, Zenon DEF FilterInv
<1>6. QED
  BY <1>1, <1>2, <1>3, <1>4, <1>5, KickKeepsInv, Zenon DEF FilterNext

(* In every filter of every size, a member is found unless a cascade       *)
(* carries or has dropped its fingerprint (add, merge, remove of           *)
(* cuckoo.rs).                                                             *)
THEOREM FilterFindsMembers == FilterSpec => []MembersFound
<1>1. FilterInv => MembersFound
  BY Zenon DEF FilterInv
<1>2. QED
  BY <1>1, InitFilterInv, NextFilterInv, PTL DEF FilterSpec

(* In every filter of every size, a fingerprint sits in one of the two     *)
(* buckets of a key that was put in, also after a cascade gave up.         *)
THEOREM FilterHomesFingerprints == FilterSpec => []FingerprintsHomed
<1>1. FilterInv => FingerprintsHomed
  BY Zenon DEF FilterInv
<1>2. QED
  BY <1>1, InitFilterInv, NextFilterInv, PTL DEF FilterSpec
-----------------------------------------------------------------------------
(***************************************************************************)
(* The replay cache of an onion hop, and the way of a cell through its     *)
(* hops, for every cache size and header size and any number of hops,      *)
(* cells and rotations.                                                    *)
(***************************************************************************)

(* Digests are of no fixed type here, so a sequence is one over its own    *)
(* range.                                                                  *)
IsSeq(q) == q \in Seq({q[i] : i \in DOMAIN q})

(* What one cache and the log of the digests it let through have to do     *)
(* with each other.                                                        *)
CacheInv(queue, set, log) ==
    /\ IsSeq(queue)
    /\ IsSeq(log)
    /\ set = {queue[i] : i \in 1 .. Len(queue)}
    /\ Len(queue) = (IF Len(log) < REPLAY_CACHE_SIZE THEN Len(log) ELSE REPLAY_CACHE_SIZE)
    /\ \A i \in 1 .. Len(queue) : queue[i] = log[Len(log) - Len(queue) + i]
    /\ \A i, j \in 1 .. Len(log) : i < j /\ log[i] = log[j] => j - i > REPLAY_CACHE_SIZE

(* push_back of a VecDeque.                                                *)
LEMMA AppendIsSeq ==
    ASSUME NEW q, IsSeq(q), NEW d
    PROVE  /\ IsSeq(Append(q, d))
           /\ Len(Append(q, d)) = Len(q) + 1
           /\ Len(q) \in Nat
           /\ \A i \in 1 .. Len(q) : Append(q, d)[i] = q[i]
           /\ Append(q, d)[Len(q) + 1] = d
<1> DEFINE S == {q[i] : i \in DOMAIN q} \cup {d}
           r == Append(q, d)
<1>1. q \in Seq(S) /\ d \in S
  BY DEF IsSeq
<1>2. /\ r \in Seq(S)
      /\ Len(r) = Len(q) + 1
      /\ Len(q) \in Nat
      /\ \A i \in 1 .. Len(q) : r[i] = q[i]
      /\ r[Len(q) + 1] = d
  BY <1>1
<1>3. r \in Seq({r[i] : i \in DOMAIN r})
  BY <1>2
<1> QED
  BY <1>2, <1>3, Zenon DEF IsSeq

(* pop_front of a VecDeque that is not empty.                              *)
LEMMA TailIsSeq ==
    ASSUME NEW q, IsSeq(q), Len(q) > 0
    PROVE  /\ IsSeq(Tail(q))
           /\ Len(Tail(q)) = Len(q) - 1
           /\ \A i \in 1 .. Len(q) - 1 : Tail(q)[i] = q[i + 1]
           /\ Head(q) = q[1]
<1> DEFINE S == {q[i] : i \in DOMAIN q}
           r == Tail(q)
<1>1. q \in Seq(S) /\ q # <<>>
  BY DEF IsSeq
<1>2. /\ r \in Seq(S)
      /\ Len(r) = Len(q) - 1
      /\ \A i \in 1 .. Len(q) - 1 : r[i] = q[i + 1]
      /\ Head(q) = q[1]
  BY <1>1
<1>3. r \in Seq({r[i] : i \in DOMAIN r})
  <2>1. r \in [1 .. Len(r) -> S] /\ Len(r) \in Nat /\ DOMAIN r = 1 .. Len(r)
    BY <1>2, LenProperties, Zenon
  <2>2. r \in [1 .. Len(r) -> {r[i] : i \in DOMAIN r}]
    BY <2>1, Zenon
  <2> QED
    BY <2>1, <2>2, SeqDef, Zenon
<1> QED
  BY <1>2, <1>3, Zenon DEF IsSeq

(* onion_digest_seen keeps the set, the FIFO and the log in step.  The     *)
(* digest is not in the set, so it is not among the last digests let       *)
(* through, so it is further back than the cache is long.                  *)
LEMMA InsertKeepsCacheInv ==
    ASSUME NEW queue, NEW set, NEW log, CacheInv(queue, set, log),
           NEW d, d \notin set
    PROVE  CacheInv(queue_after(queue, d), set_after(queue, set, d), Append(log, d))
<1> DEFINE C == REPLAY_CACHE_SIZE
           K == Len(queue)
           A == Len(log)
           newLog == Append(log, d)
           rest == IF Full(queue) THEN Tail(queue) ELSE queue
           newQueue == Append(rest, d)
           newSet == set_after(queue, set, d)
<1> USE CacheAssumption
<1>1. /\ IsSeq(queue) /\ IsSeq(log)
      /\ set = {queue[i] : i \in 1 .. K}
      /\ K = (IF A < C THEN A ELSE C)
      /\ \A i \in 1 .. K : queue[i] = log[A - K + i]
      /\ \A i, j \in 1 .. A : i < j /\ log[i] = log[j] => j - i > C
  BY Zenon DEF CacheInv
<1>2. /\ IsSeq(newLog) /\ Len(newLog) = A + 1 /\ A \in Nat
      /\ \A i \in 1 .. A : newLog[i] = log[i]
      /\ newLog[A + 1] = d
  BY <1>1, AppendIsSeq
<1>3. K \in Nat /\ (Full(queue) <=> K = C) /\ K <= C /\ K <= A
  BY <1>1, <1>2 DEF Full
<1>4. /\ IsSeq(rest)
      /\ Len(rest) = IF Full(queue) THEN K - 1 ELSE K
      /\ \A i \in 1 .. Len(rest) :
            rest[i] = IF Full(queue) THEN queue[i + 1] ELSE queue[i]
  <2>1. CASE Full(queue)
    BY <2>1, <1>1, <1>3, TailIsSeq
  <2>2. CASE ~Full(queue)
    BY <2>2, <1>1, <1>3, Zenon
  <2> QED
    BY <2>1, <2>2, Zenon
<1>5. /\ IsSeq(newQueue) /\ Len(newQueue) = Len(rest) + 1 /\ Len(rest) \in Nat
      /\ \A i \in 1 .. Len(rest) : newQueue[i] = rest[i]
      /\ newQueue[Len(rest) + 1] = d
  BY <1>4, AppendIsSeq
<1>q. \A i \in 1 .. K : queue[i] = log[A - K + i]
  BY <1>1, Zenon
<1>s. set = {queue[i] : i \in 1 .. K}
  BY <1>1, Zenon
<1> HIDE DEF newLog, rest, newQueue, K, A
<1>6. \A i \in 1 .. A : newLog[i] = d => A + 1 - i > C
  <2> SUFFICES ASSUME NEW i \in 1 .. A, newLog[i] = d, A + 1 - i <= C
               PROVE  FALSE
    BY <1>2, CacheAssumption
  <2>1. log[i] = d
    BY <1>2, Zenon
  <2>2. i - (A - K) \in 1 .. K
    BY <1>1, <1>2, <1>3
  <2>3. queue[i - (A - K)] = log[A - K + (i - (A - K))]
    BY <2>2, <1>1, Zenon
  <2>4. A - K + (i - (A - K)) = i
    BY <1>2, <1>3
  <2> QED
    BY <2>1, <2>2, <2>3, <2>4, <1>1, Zenon
<1>7. \A i, j \in 1 .. A + 1 : i < j /\ newLog[i] = newLog[j] => j - i > C
  <2> SUFFICES ASSUME NEW i \in 1 .. A + 1, NEW j \in 1 .. A + 1, i < j,
                      newLog[i] = newLog[j]
               PROVE  j - i > C
    BY Zenon
  <2>1. CASE j = A + 1
    BY <2>1, <1>2, <1>6
  <2>2. CASE j # A + 1
    BY <2>2, <1>1, <1>2
  <2> QED
    BY <2>1, <2>2, Zenon
<1>8. Len(newQueue) = IF A + 1 < C THEN A + 1 ELSE C
  BY <1>1, <1>2, <1>3, <1>4, <1>5
<1>9. \A i \in 1 .. Len(newQueue) : newQueue[i] = newLog[A + 1 - Len(newQueue) + i]
  <2> SUFFICES ASSUME NEW i \in 1 .. Len(newQueue)
               PROVE  newQueue[i] = newLog[A + 1 - Len(newQueue) + i]
    BY Zenon
  <2>1. CASE i = Len(newQueue)
    BY <2>1, <1>2, <1>5
  <2>2. CASE i # Len(newQueue) /\ Full(queue)
    <3>1. newQueue[i] = queue[i + 1] /\ i + 1 \in 1 .. K
      BY <2>2, <1>3, <1>4, <1>5
    <3>2. queue[i + 1] = log[A - K + (i + 1)] /\ A - K + (i + 1) \in 1 .. A
      BY <3>1, <1>q, <1>2, <1>3
    <3>3. A + 1 - Len(newQueue) + i = A - K + (i + 1)
      BY <2>2, <1>2, <1>3, <1>4, <1>5
    <3> QED
      BY <3>1, <3>2, <3>3, <1>2, Zenon
  <2>3. CASE i # Len(newQueue) /\ ~Full(queue)
    <3>1. newQueue[i] = queue[i] /\ i \in 1 .. K
      BY <2>3, <1>3, <1>4, <1>5
    <3>2. queue[i] = log[A - K + i] /\ A - K + i \in 1 .. A
      BY <3>1, <1>q, <1>2, <1>3
    <3>3. A + 1 - Len(newQueue) + i = A - K + i
      BY <2>3, <1>2, <1>3, <1>4, <1>5
    <3> QED
      BY <3>1, <3>2, <3>3, <1>2, Zenon
  <2> QED
    BY <2>1, <2>2, <2>3, Zenon
<1>10. newSet = {newQueue[i] : i \in 1 .. Len(newQueue)}
  <2>1. CASE ~Full(queue)
    <3>1. newSet = set \cup {d}
      BY <2>1, Zenon DEF set_after
    <3>2. Len(newQueue) = K + 1 /\ newQueue[K + 1] = d
          /\ \A i \in 1 .. K : newQueue[i] = queue[i]
      BY <2>1, <1>4, <1>5, Zenon
    <3>3. \A x : x \in newSet <=> x = d \/ \E i \in 1 .. K : x = queue[i]
      BY <3>1, <1>s, Zenon
    <3>4. \A x : (\E i \in 1 .. K + 1 : x = newQueue[i])
                    <=> x = d \/ \E i \in 1 .. K : x = queue[i]
      BY <3>2, <1>3
    <3> QED
      BY <3>2, <3>3, <3>4, Zenon
  <2>2. CASE Full(queue)
    <3>1. K = C /\ 1 \in 1 .. K
      BY <2>2, <1>3
    <3>2. \A i \in 2 .. K : queue[i] # queue[1]
      <4> SUFFICES ASSUME NEW i \in 2 .. K, queue[i] = queue[1] PROVE FALSE
        BY Zenon
      <4>1. queue[1] = log[A - K + 1] /\ queue[i] = log[A - K + i]
        BY <3>1, <1>q, <1>3
      <4>2. A - K + 1 \in 1 .. A /\ A - K + i \in 1 .. A /\ A - K + 1 < A - K + i
        BY <3>1, <1>2, <1>3
      <4>3. (A - K + i) - (A - K + 1) > C
        BY <4>1, <4>2, <1>1, Zenon
      <4> QED
        BY <4>3, <3>1, <1>2, <1>3
    <3>3. d # queue[1]
      BY <3>1, <1>1, Zenon
    <3>4. newSet = (set \cup {d}) \ {queue[1]}
      BY <2>2, <1>1, <1>3, TailIsSeq DEF set_after
    <3>5. Len(newQueue) = K /\ newQueue[K] = d
          /\ \A i \in 1 .. K - 1 : newQueue[i] = queue[i + 1]
      BY <2>2, <3>1, <1>3, <1>4, <1>5
    <3>6. \A x : x \in newSet <=> x = d \/ \E i \in 2 .. K : x = queue[i]
      <4>1. \A x : x \in set <=> x = queue[1] \/ \E i \in 2 .. K : x = queue[i]
        BY <3>1, <1>1, <1>3
      <4> QED
        BY <4>1, <3>2, <3>3, <3>4, Zenon
    <3>7. \A x : (\E i \in 1 .. K : x = newQueue[i])
                    <=> x = d \/ \E i \in 2 .. K : x = queue[i]
      <4> SUFFICES ASSUME NEW x
                   PROVE  (\E i \in 1 .. K : x = newQueue[i])
                            <=> x = d \/ \E i \in 2 .. K : x = queue[i]
        BY Zenon
      <4>1. ASSUME NEW i \in 1 .. K, x = newQueue[i]
            PROVE  x = d \/ \E k \in 2 .. K : x = queue[k]
        <5>1. CASE i = K
          BY <5>1, <4>1, <3>5, Zenon
        <5>2. CASE i # K
          BY <5>2, <4>1, <3>5, <1>3
        <5> QED
          BY <5>1, <5>2, Zenon
      <4>2. x = d => \E i \in 1 .. K : x = newQueue[i]
        BY <3>1, <3>5
      <4>3. ASSUME NEW k \in 2 .. K, x = queue[k]
            PROVE  \E i \in 1 .. K : x = newQueue[i]
        <5>1. k - 1 \in 1 .. K - 1 /\ (k - 1) + 1 = k
          BY <1>3
        <5>2. newQueue[k - 1] = queue[k]
          BY <5>1, <3>5, Zenon
        <5>3. k - 1 \in 1 .. K
          BY <1>3
        <5> QED
          BY <5>2, <5>3, <4>3, Zenon
      <4> QED
        BY <4>1, <4>2, <4>3, Zenon
    <3> QED
      BY <3>5, <3>6, <3>7, ZenonT(30)
  <2> QED
    BY <2>1, <2>2, Zenon
<1> QED
  <2> HIDE DEF newSet
  <2>0. Len(newLog) = A + 1 /\ IsSeq(newQueue) /\ IsSeq(newLog)
    BY <1>2, <1>5, Zenon
  <2>2. Len(newQueue) = (IF Len(newLog) < C THEN Len(newLog) ELSE C)
    BY <2>0, <1>8, Zenon
  <2>3. \A i \in 1 .. Len(newQueue) :
            newQueue[i] = newLog[Len(newLog) - Len(newQueue) + i]
    <3> SUFFICES ASSUME NEW i \in 1 .. Len(newQueue)
                 PROVE  newQueue[i] = newLog[Len(newLog) - Len(newQueue) + i]
      BY Zenon
    <3>1. newQueue[i] = newLog[A + 1 - Len(newQueue) + i]
      BY <1>9, Zenon
    <3>2. A + 1 - Len(newQueue) + i = Len(newLog) - Len(newQueue) + i
      BY <2>0, <1>2
    <3> QED
      BY <3>1, <3>2, Zenon
  <2>4. \A i, j \in 1 .. Len(newLog) : i < j /\ newLog[i] = newLog[j] => j - i > C
    BY <2>0, <1>7, Zenon
  <2>1. CacheInv(newQueue, newSet, newLog)
    BY <2>0, <2>2, <2>3, <2>4, <1>10, Zenon DEF CacheInv
  <2> QED
    BY <2>1, Zenon DEF queue_after, newLog, rest, newQueue, newSet

-----------------------------------------------------------------------------
(* The invariant: every hop's cache is in order.                           *)
OnionInv ==
    /\ onion_seen = [n \in Hop |-> onion_seen[n]]
    /\ onion_seen_set = [n \in Hop |-> onion_seen_set[n]]
    /\ admitted = [n \in Hop |-> admitted[n]]
    /\ \A n \in Hop : CacheInv(onion_seen[n], onion_seen_set[n], admitted[n])

LEMMA InitOnionInv == OnionInit => OnionInv
<1> SUFFICES ASSUME OnionInit PROVE OnionInv
  BY Zenon
<1>1. CacheInv(<<>>, {}, <<>>)
  BY CacheAssumption DEF CacheInv, IsSeq
<1> QED
  BY <1>1, Zenon DEF OnionInit, OnionInv

(* Of all the steps only a cell's arrival touches a cache.                 *)
LEMMA NextOnionInv == OnionInv /\ [OnionNext]_onion_vars => OnionInv'
<1> SUFFICES ASSUME OnionInv, [OnionNext]_onion_vars PROVE OnionInv'
  BY Zenon
<1>1. ASSUME NEW n, NEW d, onion_digest_seen(n, d) PROVE OnionInv'
  <2>1. CASE n \in Hop
    <3>1. CacheInv(onion_seen[n], onion_seen_set[n], admitted[n]) /\ d \notin onion_seen_set[n]
      BY <1>1, <2>1, Zenon DEF OnionInv, onion_digest_seen
    <3>2. /\ onion_seen'[n] = queue_after(onion_seen[n], d)
          /\ onion_seen_set'[n] = set_after(onion_seen[n], onion_seen_set[n], d)
          /\ admitted'[n] = Append(admitted[n], d)
          /\ onion_seen' = [m \in Hop |-> onion_seen'[m]]
          /\ onion_seen_set' = [m \in Hop |-> onion_seen_set'[m]]
          /\ admitted' = [m \in Hop |-> admitted'[m]]
          /\ \A m \in Hop \ {n} : /\ onion_seen'[m] = onion_seen[m]
                                   /\ onion_seen_set'[m] = onion_seen_set[m]
                                   /\ admitted'[m] = admitted[m]
      BY <1>1, <2>1, Zenon DEF OnionInv, onion_digest_seen
    <3>3. CacheInv(onion_seen'[n], onion_seen_set'[n], admitted'[n])
      BY <3>1, <3>2, InsertKeepsCacheInv
    <3> QED
      BY <3>2, <3>3, Zenon DEF OnionInv
  <2>2. CASE n \notin Hop
    BY <1>1, <2>2, Zenon DEF OnionInv, onion_digest_seen
  <2> QED
    BY <2>1, <2>2, Zenon
<1>2. ASSUME UNCHANGED caches PROVE OnionInv'
  BY <1>2, Zenon DEF OnionInv, caches
<1>3. CASE \E n \in Hop : rotate_onion_keys_if_due(n)
  BY <1>3, <1>2, Zenon DEF rotate_onion_keys_if_due
<1>4. CASE \E n \in Hop : record_remote_onion_key(n)
  BY <1>4, <1>2, Zenon DEF record_remote_onion_key
<1>5. CASE \E n \in Hop : record_capability(n)
  BY <1>5, <1>2, Zenon DEF record_capability
<1>6. CASE \E relays \in Paths, size \in Sizes : write_to_onion(relays, size)
  BY <1>6, <1>2, Zenon DEF write_to_onion
<1>7. CASE Established
  BY <1>7, <1>2, Zenon DEF Established
<1>8. CASE \E c \in net : handle_onion(c)
  BY <1>8, <1>1, Zenon DEF handle_onion
<1>9. CASE UNCHANGED onion_vars
  BY <1>9, <1>2, Zenon DEF onion_vars, caches
<1> QED
  BY <1>3, <1>4, <1>5, <1>6, <1>7, <1>8, <1>9, Zenon DEF OnionNext

(* A hop lets a cell through a second time only after as many others as    *)
(* its replay cache holds (onion_digest_seen), for every cache size.       *)
THEOREM OnionAdmitsOnce == OnionSpec => []AdmitsOnce
<1>1. OnionInv => AdmitsOnce
  <2> SUFFICES ASSUME OnionInv, NEW n \in Hop PROVE
        \A i, j \in DOMAIN admitted[n] :
            i < j /\ admitted[n][i] = admitted[n][j] => j - i > REPLAY_CACHE_SIZE
    BY Zenon DEF AdmitsOnce
  <2>1. DOMAIN admitted[n] = 1 .. Len(admitted[n])
    BY LenProperties, Zenon DEF OnionInv, CacheInv, IsSeq
  <2> QED
    BY <2>1, Zenon DEF OnionInv, CacheInv
<1> QED
  BY <1>1, InitOnionInv, NextOnionInv, PTL DEF OnionSpec

(* The HashSet of the replay cache holds exactly the digests of its FIFO,  *)
(* and these are the last ones let through.                                *)
THEOREM OnionCacheMirrors == OnionSpec => []CacheMirrors
<1>1. OnionInv => CacheMirrors
  BY Zenon DEF OnionInv, CacheInv, CacheMirrors
<1> QED
  BY <1>1, InitOnionInv, NextOnionInv, PTL DEF OnionSpec

-----------------------------------------------------------------------------
(* The recursive functions that build a cell.                              *)

\* The header after the exit's.
NoHeader(id) == [beta |-> [j \in 1 .. MAX_HOPS |-> {<<"random", id, j>>}], mac |-> <<>>]

\* The headers from hop i on, by the equations of build_sphinx's loop.
HeadersFrom(id, keys, i, g) ==
    g = [k \in i .. Len(keys) + 1 |->
            IF k = Len(keys) + 1 THEN NoHeader(id) ELSE hop_header(id, keys, k, g[k + 1])]

LEMMA HeadersDefined ==
    ASSUME NEW id, NEW keys, Len(keys) \in Nat
    PROVE  HeadersFrom(id, keys, 1, headers(id, keys))
<1> DEFINE nu == Len(keys)
           T == {k \in Nat : k <= nu /\ ~\E g : HeadersFrom(id, keys, (nu + 1) - k, g)}
<1>1. T = {}
  <2> SUFFICES ASSUME T # {} PROVE FALSE
    BY Zenon
  <2>1. PICK k \in T : \A y \in T : k <= y
    <3>1. T \in SUBSET Nat
      BY Zenon
    <3> HIDE DEF T
    <3> QED BY <3>1, LeastNat, Zenon
  <2>2. k \in Nat /\ k <= nu
    BY <2>1, Zenon
  <2>3. k # 0
    <3> SUFFICES ASSUME k = 0 PROVE FALSE
      BY Zenon
    <3> DEFINE g == [i \in nu + 1 .. nu + 1 |-> NoHeader(id)]
    <3>1. (nu + 1) - 0 = nu + 1
      OBVIOUS
    <3>2. HeadersFrom(id, keys, nu + 1, g)
      <4>1. \A i \in nu + 1 .. nu + 1 : i = nu + 1
        OBVIOUS
      <4> QED BY <4>1, Zenon DEF HeadersFrom
    <3> QED BY <2>1, <3>1, <3>2, Zenon
  <2>4. k - 1 \in Nat /\ k - 1 <= nu /\ k - 1 \notin T
    BY <2>1, <2>2, <2>3
  <2>5. PICK g : HeadersFrom(id, keys, (nu + 1) - (k - 1), g)
    BY <2>4, Zenon
  <2> DEFINE i == (nu + 1) - k
             h == [l \in i .. nu + 1 |-> IF l = i THEN hop_header(id, keys, i, g[i + 1]) ELSE g[l]]
  <2>6. i \in 1 .. nu /\ (nu + 1) - (k - 1) = i + 1 /\ nu \in Nat
    BY <2>2, <2>3
  <2> HIDE DEF i, nu
  <2>7. g = [l \in i + 1 .. nu + 1 |->
                IF l = nu + 1 THEN NoHeader(id) ELSE hop_header(id, keys, l, g[l + 1])]
    BY <2>5, <2>6, Zenon DEF HeadersFrom, nu
  <2>8. ASSUME NEW l \in i .. nu + 1
        PROVE  h[l] = IF l = nu + 1 THEN NoHeader(id) ELSE hop_header(id, keys, l, h[l + 1])
    <3>1. CASE l = i
      <4>1. h[l] = hop_header(id, keys, i, g[i + 1]) /\ h[i + 1] = g[i + 1] /\ l # nu + 1
        BY <2>6, <3>1
      <4> QED BY <3>1, <4>1, Zenon
    <3>2. CASE l # i
      <4>1. l \in i + 1 .. nu + 1 /\ h[l] = g[l]
        BY <2>6, <3>2
      <4>2. g[l] = IF l = nu + 1 THEN NoHeader(id) ELSE hop_header(id, keys, l, g[l + 1])
        BY <2>7, <4>1, Zenon
      <4>3. l # nu + 1 => l + 1 \in i .. nu + 1 /\ l + 1 # i
        BY <2>6, <4>1
      <4>4. l # nu + 1 => h[l + 1] = g[l + 1]
        BY <4>3, Zenon
      <4> QED BY <4>1, <4>2, <4>4, Zenon
    <3> QED BY <3>1, <3>2, Zenon
  <2>9. HeadersFrom(id, keys, i, h)
    <3>1. h = [l \in i .. nu + 1 |-> h[l]]
      BY Zenon
    <3> HIDE DEF h
    <3>2. h = [l \in i .. nu + 1 |->
                  IF l = nu + 1 THEN NoHeader(id) ELSE hop_header(id, keys, l, h[l + 1])]
      BY <2>8, <3>1, Zenon
    <3> QED BY <3>2, Zenon DEF HeadersFrom, nu
  <2> QED BY <2>1, <2>9, Zenon DEF i
<1>2. \E g : HeadersFrom(id, keys, 1, g)
  <2>1. nu \in Nat /\ nu <= nu /\ (nu + 1) - nu = 1
    OBVIOUS
  <2> HIDE DEF nu
  <2>2. \E g : HeadersFrom(id, keys, (nu + 1) - nu, g)
    BY <1>1, <2>1, Zenon
  <2> QED BY <2>1, <2>2, Zenon
<1>3. headers(id, keys) = CHOOSE g : HeadersFrom(id, keys, 1, g)
  BY Zenon DEF headers, HeadersFrom, NoHeader
<1> QED BY <1>2, <1>3, Zenon


\* The layers of a legacy cell from hop i on, by the equations of build_onion.
LayerOf(id, keys, size, i, next) ==
    IF i = Len(keys)
    THEN build_layer(keys[i], <<id, i>>, "DELIVER", <<>>, id, size)
    ELSE build_layer(keys[i], <<id, i>>, "FORWARD", <<next>>, id, next.aead_len)

LayersFrom(id, keys, size, i, g) ==
    g = [k \in i .. Len(keys) |-> LayerOf(id, keys, size, k, g[k + 1])]

\* The exit's layer has no next one.
LEMMA LastLayer ==
    ASSUME NEW id, NEW keys, NEW size, NEW a, NEW b
    PROVE  LayerOf(id, keys, size, Len(keys), a) = LayerOf(id, keys, size, Len(keys), b)
BY Zenon DEF LayerOf

LEMMA LayersDefined ==
    ASSUME NEW id, NEW keys, NEW size, Len(keys) \in Nat \ {0}
    PROVE  LayersFrom(id, keys, size, 1, onion_layers(id, keys, size))
<1> DEFINE nu == Len(keys)
           T == {k \in Nat : k < nu /\ ~\E g : LayersFrom(id, keys, size, nu - k, g)}
<1>1. T = {}
  <2> SUFFICES ASSUME T # {} PROVE FALSE
    BY Zenon
  <2>1. PICK k \in T : \A y \in T : k <= y
    <3>1. T \in SUBSET Nat
      BY Zenon
    <3> HIDE DEF T
    <3> QED BY <3>1, LeastNat, Zenon
  <2>2. k \in Nat /\ k < nu
    BY <2>1, Zenon
  <2>3. k # 0
    <3> SUFFICES ASSUME k = 0 PROVE FALSE
      BY Zenon
    <3> DEFINE g == [i \in nu .. nu |-> LayerOf(id, keys, size, i, 0)]
    <3>1. nu - 0 = nu
      OBVIOUS
    <3>2. \A i \in nu .. nu : LayerOf(id, keys, size, i, 0) = LayerOf(id, keys, size, i, g[i + 1])
      <4>1. \A i \in nu .. nu : i = nu
        OBVIOUS
      <4> HIDE DEF g
      <4> QED BY <4>1, LastLayer
    <3>3. g = [i \in nu .. nu |-> LayerOf(id, keys, size, i, g[i + 1])]
      BY <3>2, Zenon
    <3>4. LayersFrom(id, keys, size, nu, g)
      BY <3>3, Zenon DEF LayersFrom
    <3> QED BY <2>1, <3>1, <3>4, Zenon
  <2>4. k - 1 \in Nat /\ k - 1 < nu /\ k - 1 \notin T
    <3>1. k - 1 \in Nat /\ k - 1 < nu /\ ~(k <= k - 1)
      BY <2>2, <2>3
    <3> QED BY <2>1, <3>1, Zenon
  <2>5. PICK g : LayersFrom(id, keys, size, nu - (k - 1), g)
    BY <2>4, Zenon
  <2> DEFINE i == nu - k
             h == [l \in i .. nu |-> IF l = i THEN LayerOf(id, keys, size, i, g[i + 1]) ELSE g[l]]
  <2>6. i \in 1 .. nu - 1 /\ nu - (k - 1) = i + 1 /\ nu \in Nat
    BY <2>2, <2>3
  <2> HIDE DEF i, nu
  <2>7. g = [l \in i + 1 .. nu |-> LayerOf(id, keys, size, l, g[l + 1])]
    BY <2>5, <2>6, Zenon DEF LayersFrom, nu
  <2>8. ASSUME NEW l \in i .. nu
        PROVE  h[l] = LayerOf(id, keys, size, l, h[l + 1])
    <3>1. CASE l = i
      <4>1. h[l] = LayerOf(id, keys, size, i, g[i + 1]) /\ h[i + 1] = g[i + 1]
        BY <2>6, <3>1
      <4> QED BY <3>1, <4>1, Zenon
    <3>2. CASE l # i
      <4>1. l \in i + 1 .. nu /\ h[l] = g[l]
        BY <2>6, <3>2
      <4>2. g[l] = LayerOf(id, keys, size, l, g[l + 1])
        BY <2>7, <4>1, Zenon
      <4>3. l # nu => l + 1 \in i .. nu /\ l + 1 # i
        BY <2>6, <4>1
      <4>4. l # nu => h[l + 1] = g[l + 1]
        BY <4>3, Zenon
      <4> HIDE DEF h
      <4>5. l = nu => LayerOf(id, keys, size, l, g[l + 1]) = LayerOf(id, keys, size, l, h[l + 1])
        BY LastLayer, Zenon DEF nu
      <4> QED BY <4>1, <4>2, <4>4, <4>5, Zenon
    <3> QED BY <3>1, <3>2, Zenon
  <2>9. LayersFrom(id, keys, size, i, h)
    <3>1. h = [l \in i .. nu |-> h[l]]
      BY Zenon
    <3> HIDE DEF h
    <3>2. h = [l \in i .. nu |-> LayerOf(id, keys, size, l, h[l + 1])]
      BY <2>8, <3>1, Zenon
    <3> QED BY <3>2, Zenon DEF LayersFrom, nu
  <2> QED BY <2>1, <2>9, Zenon DEF i
<1>2. \E g : LayersFrom(id, keys, size, 1, g)
  <2>1. nu - 1 \in Nat /\ nu - 1 < nu /\ nu - (nu - 1) = 1
    OBVIOUS
  <2> HIDE DEF nu
  <2>2. \E g : LayersFrom(id, keys, size, nu - (nu - 1), g)
    BY <1>1, <2>1, Zenon
  <2> QED BY <2>1, <2>2, Zenon
<1>3. onion_layers(id, keys, size) = CHOOSE g : LayersFrom(id, keys, size, 1, g)
  BY Zenon DEF onion_layers, LayersFrom, LayerOf
<1> QED BY <1>2, <1>3, Zenon

\* The filler after the first m relays, by the equations of build_sphinx's loop.
FillerOf(id, keys, i, before) ==
    [j \in 1 .. i |-> Xor(IF j < i THEN before[j] ELSE {},
                          chacha_keystream(hop_secret(id, keys, i), MAX_HOPS + 1 - i + j))]

FillersTo(id, keys, m, g) == g = [i \in 0 .. m |-> FillerOf(id, keys, i, g[i - 1])]

LEMMA NoFiller ==
    ASSUME NEW id, NEW keys, NEW a, NEW b
    PROVE  FillerOf(id, keys, 0, a) = FillerOf(id, keys, 0, b)
<1>1. \A j : j \notin 1 .. 0
  OBVIOUS
<1> QED BY <1>1, Zenon DEF FillerOf

LEMMA FillersDefined ==
    ASSUME NEW id, NEW keys, NEW m \in Nat
    PROVE  \E g : FillersTo(id, keys, m, g)
<1> DEFINE T == {k \in Nat : ~\E g : FillersTo(id, keys, k, g)}
<1> SUFFICES ASSUME T # {} PROVE FALSE
  BY Zenon
<1>1. PICK k \in T : \A y \in T : k <= y
  <2>1. T \in SUBSET Nat
    BY Zenon
  <2> HIDE DEF T
  <2> QED BY <2>1, LeastNat, Zenon
<1>2. k \in Nat
  BY <1>1, Zenon
<1>3. k # 0
  <2> SUFFICES ASSUME k = 0 PROVE FALSE
    BY Zenon
  <2> DEFINE g == [i \in 0 .. 0 |-> FillerOf(id, keys, i, 0)]
  <2>1. \A i \in 0 .. 0 : FillerOf(id, keys, i, 0) = FillerOf(id, keys, i, g[i - 1])
    <3>1. \A i \in 0 .. 0 : i = 0
      OBVIOUS
    <3> HIDE DEF g
    <3> QED BY <3>1, NoFiller, Zenon
  <2>2. g = [i \in 0 .. 0 |-> FillerOf(id, keys, i, g[i - 1])]
    BY <2>1, Zenon
  <2>3. FillersTo(id, keys, 0, g)
    BY <2>2, Zenon DEF FillersTo
  <2> QED BY <1>1, <2>3, Zenon
<1>4. k - 1 \in Nat /\ k - 1 \notin T
  BY <1>1, <1>2, <1>3
<1>5. PICK g : FillersTo(id, keys, k - 1, g)
  BY <1>4, Zenon
<1>6. g = [i \in 0 .. k - 1 |-> FillerOf(id, keys, i, g[i - 1])]
  BY <1>5, Zenon DEF FillersTo
<1> DEFINE h == [i \in 0 .. k |-> IF i = k THEN FillerOf(id, keys, k, g[k - 1]) ELSE g[i]]
<1>7. ASSUME NEW i \in 0 .. k PROVE h[i] = FillerOf(id, keys, i, h[i - 1])
  <2>1. CASE i = k
    <3>1. h[k] = FillerOf(id, keys, k, g[k - 1]) /\ h[k - 1] = g[k - 1]
      BY <1>2, <1>3
    <3> QED BY <2>1, <3>1, Zenon
  <2>2. CASE i # k
    <3>1. i \in 0 .. k - 1 /\ h[i] = g[i]
      BY <1>2, <2>2
    <3>2. g[i] = FillerOf(id, keys, i, g[i - 1])
      BY <1>6, <3>1, Zenon
    <3>3. i # 0 => i - 1 \in 0 .. k /\ i - 1 # k
      BY <1>2, <3>1
    <3>4. i # 0 => h[i - 1] = g[i - 1]
      BY <3>3, Zenon
    <3> HIDE DEF h
    <3>5. i = 0 => FillerOf(id, keys, i, g[i - 1]) = FillerOf(id, keys, i, h[i - 1])
      BY NoFiller, Zenon
    <3> QED BY <3>1, <3>2, <3>4, <3>5, Zenon
  <2> QED BY <2>1, <2>2, Zenon
<1>8. FillersTo(id, keys, k, h)
  <2>1. h = [i \in 0 .. k |-> h[i]]
    BY Zenon
  <2> HIDE DEF h
  <2>2. h = [i \in 0 .. k |-> FillerOf(id, keys, i, h[i - 1])]
    BY <1>7, <2>1, Zenon
  <2> QED BY <2>2, Zenon DEF FillersTo
<1> QED BY <1>1, <1>8, Zenon


-----------------------------------------------------------------------------
(* The filler.  Slot k of it, after relay i, holds one keystream symbol of *)
(* each relay from k to i.                                                 *)

Trace(id, keys, i, k) ==
    {<<"rho", hop_secret(id, keys, l), MAX_HOPS + 1 - l + k>> : l \in k .. i}

LEMMA SecretsDiffer ==
    ASSUME NEW id, NEW keys, NEW k, NEW l, hop_secret(id, keys, k) = hop_secret(id, keys, l)
    PROVE  k = l
BY Zenon DEF hop_secret, x25519_shared

\* The next relay's symbol comes on top of a trace.
LEMMA TraceGrows ==
    ASSUME NEW id, NEW keys, NEW i \in Nat, NEW k \in Nat, k <= i + 1
    PROVE  LET x == <<"rho", hop_secret(id, keys, i + 1), MAX_HOPS + 1 - (i + 1) + k>>
           IN  /\ x \notin Trace(id, keys, i, k)
               /\ Trace(id, keys, i + 1, k) = Trace(id, keys, i, k) \cup {x}
<1> DEFINE x == <<"rho", hop_secret(id, keys, i + 1), MAX_HOPS + 1 - (i + 1) + k>>
<1>1. x \notin Trace(id, keys, i, k)
  <2> SUFFICES ASSUME NEW l \in k .. i,
                      x = <<"rho", hop_secret(id, keys, l), MAX_HOPS + 1 - l + k>>
               PROVE  FALSE
    BY Zenon DEF Trace
  <2>1. hop_secret(id, keys, i + 1) = hop_secret(id, keys, l)
    BY Zenon
  <2>2. l = i + 1
    BY <2>1, SecretsDiffer, Zenon
  <2> QED BY <2>2
<1>2. k .. i + 1 = k .. i \cup {i + 1}
  OBVIOUS
<1>3. Trace(id, keys, i + 1, k) = Trace(id, keys, i, k) \cup {x}
  BY <1>2, Zenon DEF Trace
<1> QED BY <1>1, <1>3, Zenon

LEMMA FillerSlots ==
    ASSUME NEW id, NEW keys, Len(keys) \in Nat \ {0}, NEW k \in 1 .. Len(keys) - 1
    PROVE  filler(id, keys)[k] = Trace(id, keys, Len(keys) - 1, k)
<1> DEFINE m == Len(keys) - 1
           g == CHOOSE g : FillersTo(id, keys, m, g)
<1>1. m \in Nat
  OBVIOUS
<1>2. filler(id, keys) = g[m]
  BY Zenon DEF filler, FillersTo, FillerOf
<1>3. FillersTo(id, keys, m, g)
  BY <1>1, FillersDefined, Zenon
<1>4. k \in 1 .. m
  BY Zenon
<1> HIDE DEF g, m
<1>5. \A i \in 0 .. m : g[i] = FillerOf(id, keys, i, g[i - 1])
  BY <1>3, Zenon DEF FillersTo
<1> DEFINE T == {i \in 0 .. m : \E j \in 1 .. i : g[i][j] # Trace(id, keys, i, j)}
<1>6. T = {}
  <2> SUFFICES ASSUME T # {} PROVE FALSE
    BY Zenon
  <2>1. PICK i \in T : \A y \in T : i <= y
    <3>1. T \in SUBSET Nat
      BY <1>1
    <3> HIDE DEF T
    <3> QED BY <3>1, LeastNat, Zenon
  <2>2. PICK j \in 1 .. i : g[i][j] # Trace(id, keys, i, j)
    BY <2>1, Zenon
  <2>3. i \in 1 .. m /\ i - 1 \in 0 .. m /\ i - 1 \notin T /\ j \in Nat /\ i - 1 \in Nat /\ (i - 1) + 1 = i
    <3>1. i \in 1 .. m /\ i - 1 \in 0 .. m /\ ~(i <= i - 1)
      BY <1>1, <2>1, <2>2
    <3> QED BY <1>1, <2>1, <2>2, <3>1
  <2> DEFINE old == IF j < i THEN g[i - 1][j] ELSE {}
             x == <<"rho", hop_secret(id, keys, i), MAX_HOPS + 1 - i + j>>
  <2>4. g[i][j] = Xor(old, {x})
    <3>1. g[i] = FillerOf(id, keys, i, g[i - 1])
      BY <1>5, <2>3, Zenon
    <3> QED BY <2>2, <3>1, Zenon DEF FillerOf, chacha_keystream
  <2>5. old = Trace(id, keys, i - 1, j)
    <3>1. CASE j < i
      <4>1. j \in 1 .. i - 1
        BY <2>2, <2>3, <3>1
      <4> QED BY <2>3, <3>1, <4>1, Zenon
    <3>2. CASE ~(j < i)
      <4>1. j .. i - 1 = {}
        BY <2>2, <2>3, <3>2
      <4>2. Trace(id, keys, i - 1, j) = {}
        BY <4>1, Zenon DEF Trace
      <4> QED BY <3>2, <4>2, Zenon
    <3> QED BY <3>1, <3>2, Zenon
  <2>6. x \notin Trace(id, keys, i - 1, j) /\ Trace(id, keys, i, j) = Trace(id, keys, i - 1, j) \cup {x}
    <3> DEFINE b == i - 1
    <3>1. b \in Nat /\ b + 1 = i /\ j \in Nat /\ j <= b + 1
      BY <2>2, <2>3
    <3> HIDE DEF b
    <3>2. LET y == <<"rho", hop_secret(id, keys, b + 1), MAX_HOPS + 1 - (b + 1) + j>>
          IN  /\ y \notin Trace(id, keys, b, j)
              /\ Trace(id, keys, b + 1, j) = Trace(id, keys, b, j) \cup {y}
      BY <3>1, TraceGrows
    <3>3. /\ x \notin Trace(id, keys, b, j)
          /\ Trace(id, keys, i, j) = Trace(id, keys, b, j) \cup {x}
      BY <3>1, <3>2, Zenon
    <3> QED BY <3>3, Zenon DEF b
  <2> HIDE DEF old, x
  <2>7. g[i][j] = Trace(id, keys, i, j)
    BY <2>4, <2>5, <2>6, Zenon DEF Xor
  <2> QED BY <2>2, <2>7, Zenon
<1>7. m \in 0 .. m
  BY <1>1
<1>8. g[m][k] = Trace(id, keys, m, k)
  BY <1>4, <1>6, <1>7, Zenon
<1> QED BY <1>2, <1>8, Zenon DEF m


LEMMA HeaderFields ==
    ASSUME NEW id, NEW keys, NEW i, NEW h
    PROVE  /\ hop_header(id, keys, i, h).beta = newbeta(id, keys, i, h)
           /\ hop_header(id, keys, i, h).mac = mac16(hop_secret(id, keys, i), newbeta(id, keys, i, h))
BY Zenon DEF hop_header

LEMMA HeaderStep ==
    ASSUME NEW id, NEW keys, Len(keys) \in Nat, NEW i \in 1 .. Len(keys)
    PROVE  headers(id, keys)[i] = hop_header(id, keys, i, headers(id, keys)[i + 1])
<1> DEFINE nu == Len(keys)
           H == headers(id, keys)
<1>1. H = [k \in 1 .. nu + 1 |->
              IF k = nu + 1 THEN NoHeader(id) ELSE hop_header(id, keys, k, H[k + 1])]
  BY HeadersDefined, Zenon DEF HeadersFrom
<1>2. i \in 1 .. nu + 1 /\ i # nu + 1
  OBVIOUS
<1> HIDE DEF H, nu
<1>3. H[i] = hop_header(id, keys, i, H[i + 1])
  BY <1>1, <1>2, Zenon
<1> QED BY <1>3, Zenon DEF H

\* The last i - 1 slots of hop i's header are the filler after i - 1 relays: what
\* the relays before it shift in.
LEMMA HeaderTails ==
    ASSUME NEW id, NEW keys, Len(keys) \in Nat \ {0}, Len(keys) <= MAX_HOPS
    PROVE  \A i \in 1 .. Len(keys) : \A k \in 1 .. i - 1 :
               headers(id, keys)[i].beta[(MAX_HOPS - (i - 1)) + k] = Trace(id, keys, i - 1, k)
<1> DEFINE nu == Len(keys)
           N == MAX_HOPS
           H == headers(id, keys)
           Holding(i) == \A k \in 1 .. i - 1 : H[i].beta[(N - (i - 1)) + k] = Trace(id, keys, i - 1, k)
           T == {d \in Nat : d < nu /\ ~Holding(nu - d)}
<1>1. N \in Nat /\ nu \in Nat \ {0} /\ nu <= N
  BY OnionAssumption, Zenon
<1>2. \A i \in 1 .. nu : H[i] = hop_header(id, keys, i, H[i + 1])
  BY HeaderStep, Zenon
<1>3. \A i \in 1 .. nu : H[i].beta = newbeta(id, keys, i, H[i + 1])
  <2> HIDE DEF H, nu
  <2> QED BY <1>2, HeaderFields
<1>4. Len(keys) = nu /\ MAX_HOPS = N /\ headers(id, keys) = H
  BY Zenon
<1> HIDE DEF H, nu, N
<1>5. T = {}
  <2> SUFFICES ASSUME T # {} PROVE FALSE
    BY Zenon
  <2>1. PICK d \in T : \A y \in T : d <= y
    <3>1. T \in SUBSET Nat
      BY Zenon
    <3> HIDE DEF T
    <3> QED BY <3>1, LeastNat, Zenon
  <2>2. d \in Nat /\ d < nu /\ ~Holding(nu - d)
    BY <2>1, Zenon
  <2> DEFINE i == nu - d
  <2>3. i \in 1 .. nu /\ ~Holding(i)
    BY <1>1, <2>2
  <2> HIDE DEF i
  <2>4. PICK k \in 1 .. i - 1 : H[i].beta[(N - (i - 1)) + k] # Trace(id, keys, i - 1, k)
    BY <2>3, Zenon
  <2> DEFINE j == (N - (i - 1)) + k
  <2>10. i \in 1 .. nu /\ k \in 1 .. i - 1
    BY <2>3, <2>4, Zenon
  <2>5. j \in 1 .. N /\ j # 1 /\ j - 1 = (N - i) + k /\ k \in Nat
    BY ONLY <1>1, <2>10
  <2>6. CASE i = nu
    <3>1. N - (nu - 1) \in Int /\ j > N - (nu - 1) /\ j - (N - (nu - 1)) = k
      BY ONLY <1>1, <2>10, <2>6
    <3> HIDE DEF j
    <3>2. H[i].beta[j] = filler(id, keys)[j - (N - (nu - 1))]
      BY <1>3, <1>4, <2>3, <2>5, <2>6, <3>1, Zenon DEF newbeta
    <3>3. filler(id, keys)[k] = Trace(id, keys, i - 1, k)
      BY <1>1, <1>4, <2>4, <2>6, FillerSlots, ZenonT(30)
    <3> QED BY <2>4, <3>1, <3>2, <3>3, Zenon DEF j
  <2>7. CASE i # nu
    <3>1. i + 1 \in 1 .. nu /\ i \in Nat /\ k \in 1 .. (i + 1) - 1 /\ (i + 1) - 1 = i
      BY ONLY <1>1, <2>10, <2>7
    <3>2. Holding(i + 1)
      <4>0. d \in Nat /\ d < nu /\ i = nu - d
        BY <2>2, Zenon DEF i
      <4>1. d - 1 \in Nat /\ d - 1 < nu /\ ~(d <= d - 1) /\ nu - (d - 1) = i + 1
        BY ONLY <1>1, <2>7, <4>0
      <4>2. d - 1 \notin T
        BY <2>1, <4>1, Zenon
      <4>3. Holding(nu - (d - 1))
        BY <4>1, <4>2, Zenon
      <4> QED BY <4>1, <4>3, Zenon
    <3>3. H[i + 1].beta[j - 1] = Trace(id, keys, i, k)
      <4>1. H[i + 1].beta[(N - ((i + 1) - 1)) + k] = Trace(id, keys, (i + 1) - 1, k)
        BY <3>1, <3>2, Zenon
      <4> QED BY <2>5, <3>1, <4>1, Zenon
    <3> DEFINE x == <<"rho", hop_secret(id, keys, i), j>>
    <3>4. H[i].beta[j] = Xor(H[i + 1].beta[j - 1], {x})
      <4> HIDE DEF j
      <4>1. H[i].beta = newbeta(id, keys, i, H[i + 1])
        BY <1>3, <2>10, Zenon
      <4>2. newbeta(id, keys, i, H[i + 1])[j]
               = Xor(H[i + 1].beta[j - 1], chacha_keystream(hop_secret(id, keys, i), j))
        BY <1>4, <2>5, <2>7, Zenon DEF newbeta
      <4> QED BY <4>1, <4>2, Zenon DEF chacha_keystream
    <3>5. x \notin Trace(id, keys, i - 1, k) /\ Trace(id, keys, i, k) = Trace(id, keys, i - 1, k) \cup {x}
      <4> DEFINE b == i - 1
      <4>1. b \in Nat /\ b + 1 = i /\ k \in Nat /\ k <= b + 1 /\ N + 1 - (b + 1) + k = j
        BY <1>1, <2>10
      <4> HIDE DEF b, j, x
      <4>2. LET y == <<"rho", hop_secret(id, keys, b + 1), MAX_HOPS + 1 - (b + 1) + k>>
            IN  /\ y \notin Trace(id, keys, b, k)
                /\ Trace(id, keys, b + 1, k) = Trace(id, keys, b, k) \cup {y}
        BY ONLY <4>1, TraceGrows
      <4>3. /\ x \notin Trace(id, keys, b, k)
            /\ Trace(id, keys, i, k) = Trace(id, keys, b, k) \cup {x}
        BY <1>4, <4>1, <4>2, Zenon DEF x
      <4> QED BY <4>3, Zenon DEF b
    <3> HIDE DEF x, j
    <3>6. H[i].beta[j] = Trace(id, keys, i - 1, k)
      BY <3>3, <3>4, <3>5, Zenon DEF Xor
    <3> QED BY <2>4, <3>6, Zenon DEF j
  <2> QED BY <2>6, <2>7, Zenon
<1>6. \A i \in 1 .. nu : Holding(i)
  <2> TAKE i \in 1 .. nu
  <2>1. nu - i \in Nat /\ nu - i < nu /\ nu - (nu - i) = i
    BY <1>1
  <2>2. nu - i \notin T
    BY <1>5, Zenon
  <2> HIDE DEF Holding
  <2>3. Holding(nu - (nu - i))
    BY <2>1, <2>2, Zenon
  <2> QED BY <2>1, <2>3, Zenon
<1> QED BY <1>4, <1>6, Zenon


-----------------------------------------------------------------------------
(* One hop.                                                                *)

\* The Sphinx cell that hop i of cell id receives.
SphinxCell(id, keys, i) ==
    [format |-> "Sphinx", routing_tag |-> keys[i][1], epk |-> <<id, i>>,
     gamma |-> headers(id, keys)[i].mac, beta |-> headers(id, keys)[i].beta,
     payload |-> [wrapped |-> [j \in 1 .. (Len(keys) - i) + 1 |-> hop_secret(id, keys, (i - 1) + j)],
                  traffic |-> id]]

\* A function on 1 .. n + 1 without its first value.
LEMMA TailOf ==
    ASSUME NEW n \in Nat, NEW f, f = [j \in 1 .. n + 1 |-> f[j]]
    PROVE  f # <<>> /\ Head(f) = f[1] /\ Tail(f) = [j \in 1 .. n |-> f[j + 1]]
<1> DEFINE S == {f[j] : j \in 1 .. n + 1}
<1>1. f \in Seq(S) /\ Len(f) = n + 1
  BY DEF S
<1>2. f # <<>>
  BY <1>1
<1>3. Tail(f) \in Seq(S) /\ Len(Tail(f)) = n /\ \A j \in 1 .. n : Tail(f)[j] = f[j + 1]
  BY <1>1, <1>2
<1>4. DOMAIN Tail(f) = 1 .. n
  BY <1>3
<1>5. Tail(f) = [j \in 1 .. n |-> Tail(f)[j]]
  BY <1>3, <1>4
<1>6. Head(f) = f[1]
  BY <1>1, <1>2
<1> HIDE DEF S
<1> QED BY <1>2, <1>3, <1>5, <1>6, Zenon

LEMMA XorTwice ==
    ASSUME NEW a, NEW b PROVE Xor(Xor(a, b), b) = a
BY Zenon DEF Xor

\* The header of hop i unwraps to that of hop i + 1, its last slot included.
LEMMA HeaderShifts ==
    ASSUME NEW id, NEW keys, Len(keys) \in Nat \ {0}, Len(keys) <= MAX_HOPS,
           NEW i \in 1 .. Len(keys) - 1, NEW b,
           b = [j \in 1 .. MAX_HOPS + 1 |->
                   Xor(IF j <= MAX_HOPS THEN headers(id, keys)[i].beta[j] ELSE {},
                       chacha_keystream(hop_secret(id, keys, i), j))]
    PROVE  Tail(b) = headers(id, keys)[i + 1].beta
<1> DEFINE nu == Len(keys)
           N == MAX_HOPS
           H == headers(id, keys)
           s == hop_secret(id, keys, i)
<1>1. N \in Nat \ {0} /\ nu \in Nat \ {0} /\ nu <= N /\ i \in 1 .. nu - 1
  BY OnionAssumption, Zenon
<1>2. \A k \in 1 .. nu : H[k] = hop_header(id, keys, k, H[k + 1])
  BY HeaderStep, Zenon
<1>3. \A k \in 1 .. nu : H[k].beta = newbeta(id, keys, k, H[k + 1])
  <2> HIDE DEF H, nu
  <2> QED BY <1>2, HeaderFields
<1>4. \A k \in 1 .. i : H[i + 1].beta[(N - i) + k] = Trace(id, keys, i, k)
  <2>1. i + 1 \in 1 .. nu /\ (i + 1) - 1 = i
    BY <1>1
  <2>2. \A k \in 1 .. (i + 1) - 1 : H[i + 1].beta[(N - ((i + 1) - 1)) + k] = Trace(id, keys, (i + 1) - 1, k)
    BY <2>1, HeaderTails, Zenon
  <2> QED BY <2>1, <2>2, Zenon
<1>5. /\ Len(keys) = nu /\ MAX_HOPS = N
      /\ b = [j \in 1 .. N + 1 |-> Xor(IF j <= N THEN H[i].beta[j] ELSE {}, chacha_keystream(s, j))]
  BY Zenon
<1> HIDE DEF H, nu, N, s
<1>6. i \in 1 .. nu /\ i + 1 \in 1 .. nu /\ i # nu /\ i \in Nat
  BY <1>1
<1>7. ASSUME NEW j \in 1 .. N PROVE b[j + 1] = H[i + 1].beta[j]
  <2>1. j + 1 \in 1 .. N + 1 /\ j + 1 # 1 /\ (j + 1) - 1 = j
    BY <1>1
  <2>2. CASE j < N
    <3>1. j + 1 \in 1 .. N
      BY <1>1, <2>2
    <3>2. b[j + 1] = Xor(H[i].beta[j + 1], chacha_keystream(s, j + 1))
      BY <1>5, <2>1, <3>1
    <3>3. newbeta(id, keys, i, H[i + 1])[j + 1]
             = Xor(H[i + 1].beta[(j + 1) - 1], chacha_keystream(s, j + 1))
      BY <1>5, <1>6, <2>1, <3>1, Zenon DEF newbeta, s
    <3>4. H[i].beta[j + 1] = Xor(H[i + 1].beta[j], chacha_keystream(s, j + 1))
      BY <1>3, <1>6, <2>1, <3>3, Zenon
    <3> QED BY <3>2, <3>4, XorTwice, Zenon
  <2>3. CASE j = N
    <3>1. b[j + 1] = Xor({}, chacha_keystream(s, N + 1))
      BY <1>1, <1>5, <2>1, <2>3
    <3>2. b[j + 1] = {<<"rho", s, N + 1>>}
      BY <3>1, Zenon DEF Xor, chacha_keystream
    <3>3. (N - i) + i = N /\ i \in 1 .. i /\ i .. i = {i} /\ N + 1 - i + i = N + 1
      BY <1>1, <1>6
    <3>4. H[i + 1].beta[N] = Trace(id, keys, i, i)
      BY <1>4, <3>3, Zenon
    <3>5. Trace(id, keys, i, i) = {<<"rho", s, N + 1>>}
      BY <1>5, <3>3, Zenon DEF Trace, s
    <3> QED BY <2>3, <3>2, <3>4, <3>5, Zenon
  <2> QED BY <1>1, <2>2, <2>3
<1>8. Tail(b) = [j \in 1 .. N |-> b[j + 1]]
  <2>1. b = [j \in 1 .. N + 1 |-> b[j]] /\ N \in Nat
    BY <1>1, <1>5, Zenon
  <2> QED BY ONLY <2>1, TailOf, Zenon
<1>9. H[i + 1].beta = [j \in 1 .. N |-> H[i + 1].beta[j]]
  BY <1>3, <1>5, <1>6, Zenon DEF newbeta
<1>10. Tail(b) = H[i + 1].beta
  BY <1>7, <1>8, <1>9, Zenon
<1> QED BY <1>10, Zenon DEF H


\* The first slot of hop i's header, unmasked: its routing information.
LEMMA HeaderFirst ==
    ASSUME NEW id, NEW keys, Len(keys) \in Nat \ {0}, Len(keys) <= MAX_HOPS,
           NEW i \in 1 .. Len(keys)
    PROVE  Xor(headers(id, keys)[i].beta[1], chacha_keystream(hop_secret(id, keys, i), 1))
             = hop_payload(id, keys, i, headers(id, keys)[i + 1].mac)
<1> DEFINE h == headers(id, keys)[i + 1]
           ks == chacha_keystream(hop_secret(id, keys, i), 1)
           pay == hop_payload(id, keys, i, h.mac)
<1>1. headers(id, keys)[i].beta = newbeta(id, keys, i, h)
  BY HeaderStep, HeaderFields
<1>2. 1 \in 1 .. MAX_HOPS /\ ~ 1 > MAX_HOPS - (Len(keys) - 1)
  BY OnionAssumption
<1>3. newbeta(id, keys, i, h)[1] = Xor(pay, ks)
  <2> HIDE DEF h
  <2> QED BY <1>2, Zenon DEF newbeta
<1> HIDE DEF h, ks, pay
<1>4. Xor(headers(id, keys)[i].beta[1], ks) = pay
  BY <1>1, <1>3, XorTwice, Zenon
<1> QED BY <1>4, Zenon DEF h, ks, pay

\* The payload's outermost layer comes off with the secret it was put on with.
LEMMA PayloadPeels ==
    ASSUME NEW id, NEW keys, Len(keys) \in Nat, NEW i \in 1 .. Len(keys)
    PROVE  lioness_decrypt(hop_secret(id, keys, i), SphinxCell(id, keys, i).payload)
             = [wrapped |-> [j \in 1 .. (Len(keys) - (i + 1)) + 1 |-> hop_secret(id, keys, i + j)],
                traffic |-> id]
<1> DEFINE m == Len(keys) - i
           w == [j \in 1 .. m + 1 |-> hop_secret(id, keys, (i - 1) + j)]
           p == [wrapped |-> w, traffic |-> id]
           t == [j \in 1 .. m |-> hop_secret(id, keys, i + j)]
<1>1. m \in Nat /\ (Len(keys) - (i + 1)) + 1 = m /\ 1 \in 1 .. m + 1 /\ (i - 1) + 1 = i
      /\ \A j \in 1 .. m : j + 1 \in 1 .. m + 1 /\ (i - 1) + (j + 1) = i + j
  OBVIOUS
<1>2. SphinxCell(id, keys, i).payload = p
  BY Zenon DEF SphinxCell
<1>3. w = [j \in 1 .. m + 1 |-> w[j]]
  BY Zenon
<1>4. w[1] = hop_secret(id, keys, i) /\ \A j \in 1 .. m : w[j + 1] = hop_secret(id, keys, i + j)
  BY <1>1, Zenon
<1>5. p.wrapped = w /\ p.traffic = id
  BY Zenon
<1> HIDE DEF w
<1>6. w # <<>> /\ Head(w) = w[1] /\ Tail(w) = [j \in 1 .. m |-> w[j + 1]]
  <2>1. m \in Nat
    BY <1>1, Zenon
  <2> QED BY ONLY <1>3, <2>1, TailOf, Zenon
<1>7. Tail(w) = t
  BY <1>4, <1>6, Zenon
<1> HIDE DEF p, t, m
<1>8. lioness_decrypt(hop_secret(id, keys, i), p) = [wrapped |-> t, traffic |-> id]
  BY <1>4, <1>5, <1>6, <1>7, Zenon DEF lioness_decrypt
<1> QED BY <1>1, <1>2, <1>8, Zenon DEF t


\* What the hop of position i of cell id makes of the cell it receives.
Step(id, keys, i, next) ==
    IF i = Len(keys) THEN [to |-> "exit", traffic |-> id] ELSE [to |-> "relay", cell |-> next]

\* A hop that still has the key peels a Sphinx cell to the one its sender built for the
\* next hop, a hop that has dropped it peels nothing.
LEMMA SphinxPeels ==
    ASSUME NEW id, NEW keys, Len(keys) \in Nat \ {0}, Len(keys) <= MAX_HOPS,
           NEW i \in 1 .. Len(keys), NEW n, NEW k, keys[i] = <<n, k>>
    PROVE  process_sphinx(n, SphinxCell(id, keys, i))
             = IF k \in Range(sphinx_privs(n)) THEN Step(id, keys, i, SphinxCell(id, keys, i + 1))
               ELSE Failed
<1> DEFINE c == SphinxCell(id, keys, i)
           T == Range(sphinx_privs(n))
           h == headers(id, keys)[i]
           g == headers(id, keys)[i + 1]
           sec == hop_secret(id, keys, i)
           secrets == {x25519_shared(<<n, kk>>, c.epk) : kk \in T}
           mine == {s \in secrets : mac16(s, c.beta) = c.gamma}
           s == CHOOSE x \in mine : TRUE
           b == [j \in 1 .. MAX_HOPS + 1 |->
                    Xor(IF j <= MAX_HOPS THEN c.beta[j] ELSE {}, chacha_keystream(s, j))]
           hop == CHOOSE x \in b[1] : TRUE
           pl == lioness_decrypt(s, c.payload)
           out == IF mine = {} THEN Failed
                  ELSE IF hop[2] = "EXIT"
                  THEN IF pl.wrapped = <<>> THEN [to |-> "exit", traffic |-> pl.traffic] ELSE Failed
                  ELSE [to |-> "relay",
                        cell |-> [format |-> "Sphinx", routing_tag |-> hop[3], epk |-> hop[4],
                                  gamma |-> hop[5], beta |-> Tail(b), payload |-> pl]]
<1>1. process_sphinx(n, c) = out
  BY Zenon DEF process_sphinx
<1>2. c.epk = <<id, i>> /\ c.beta = h.beta /\ c.gamma = h.mac
  <2> HIDE DEF h
  <2> QED BY Zenon DEF SphinxCell, h
<1>3. h.mac = <<sec, h.beta>>
  BY HeaderStep, HeaderFields DEF mac16
<1>4. sec = <<<<id, i>>, <<n, k>>>>
  BY Zenon DEF hop_secret, x25519_shared
<1> HIDE DEF c, T, h, sec
<1>5. \A x : x \in mine <=> x = sec /\ k \in T
  <2>1. \A x : x \in mine <=> x \in secrets /\ <<x, h.beta>> = <<sec, h.beta>>
    BY <1>2, <1>3, Zenon DEF mac16
  <2>2. \A x : x \in secrets <=> \E kk \in T : x = <<<<id, i>>, <<n, kk>>>>
    BY <1>2, Zenon DEF x25519_shared
  <2>3. sec \in secrets <=> k \in T
    BY <2>2, <1>4, Zenon
  <2> HIDE DEF mine, secrets
  <2> QED BY <2>1, <2>3, Zenon
<1> HIDE DEF mine
<1>6. CASE k \notin T
  <2>1. mine = {}
    BY <1>5, <1>6, Zenon
  <2> QED BY <1>1, <1>6, <2>1, Zenon DEF c, T
<1>7. CASE k \in T
  <2>1. mine # {} /\ s = sec
    BY <1>5, <1>7, Zenon
  <2> HIDE DEF s
  <2>2. b = [j \in 1 .. MAX_HOPS + 1 |->
                Xor(IF j <= MAX_HOPS THEN h.beta[j] ELSE {}, chacha_keystream(sec, j))]
    BY <1>2, <2>1, Zenon
  <2>3. 1 \in 1 .. MAX_HOPS + 1 /\ 1 <= MAX_HOPS
    BY OnionAssumption
  <2>4. b[1] = Xor(h.beta[1], chacha_keystream(sec, 1))
    BY <2>2, <2>3, Zenon
  <2>5. b[1] = hop_payload(id, keys, i, g.mac)
    BY <2>4, HeaderFirst, Zenon DEF h, sec
  <2>6. pl = [wrapped |-> [j \in 1 .. (Len(keys) - (i + 1)) + 1 |-> hop_secret(id, keys, i + j)],
              traffic |-> id]
    BY <2>1, PayloadPeels, Zenon DEF c, sec
  <2> HIDE DEF b, pl, g
  <2>7. CASE i = Len(keys)
    <3>1. b[1] = {<<"hop", "EXIT", Dst, <<id, 0>>, g.mac>>}
      BY <2>5, <2>7, Zenon DEF hop_payload, HopPayload
    <3>2. hop = <<"hop", "EXIT", Dst, <<id, 0>>, g.mac>>
      BY <3>1, Zenon
    <3>3. hop[2] = "EXIT"
      <4> HIDE DEF hop
      <4> QED BY <3>2, Zenon
    <3>5. pl.wrapped = <<>> /\ pl.traffic = id
      <4> DEFINE w == [j \in 1 .. 0 |-> hop_secret(id, keys, i + j)]
                 S == {hop_secret(id, keys, i + j) : j \in 1 .. 0}
      <4>1. pl.wrapped = w /\ pl.traffic = id
        <5>1. (Len(keys) - (i + 1)) + 1 = 0
          BY <2>7
        <5> QED BY <2>6, <5>1, Zenon
      <4>2. w \in Seq(S) /\ Len(w) = 0
        OBVIOUS
      <4> HIDE DEF w
      <4>3. w = <<>>
        BY <4>2
      <4> QED BY <4>1, <4>3, Zenon
    <3> HIDE DEF hop
    <3>6. out = [to |-> "exit", traffic |-> id]
      BY <2>1, <3>3, <3>5, Zenon
    <3> QED BY <1>1, <1>7, <2>7, <3>6, Zenon DEF Step, c, T
  <2>8. CASE i # Len(keys)
    <3>1. i \in 1 .. Len(keys) - 1
      BY <2>8
    <3>2. b[1] = {<<"hop", "FORWARD", keys[i + 1][1], <<id, i + 1>>, g.mac>>}
      BY <2>5, <2>8, Zenon DEF hop_payload, HopPayload
    <3>3. hop = <<"hop", "FORWARD", keys[i + 1][1], <<id, i + 1>>, g.mac>>
      BY <3>2, Zenon
    <3> HIDE DEF hop
    <3>4. hop[2] = "FORWARD" /\ hop[3] = keys[i + 1][1] /\ hop[4] = <<id, i + 1>> /\ hop[5] = g.mac
      BY <3>3, Zenon
    <3>5. Tail(b) = g.beta
      <4>1. b = [j \in 1 .. MAX_HOPS + 1 |->
                    Xor(IF j <= MAX_HOPS THEN headers(id, keys)[i].beta[j] ELSE {},
                        chacha_keystream(hop_secret(id, keys, i), j))]
        BY <2>2, Zenon DEF h, sec
      <4>2. Len(keys) \in Nat \ {0} /\ Len(keys) <= MAX_HOPS
        BY Zenon
      <4>3. Tail(b) = headers(id, keys)[i + 1].beta
        BY ONLY <3>1, <4>1, <4>2, HeaderShifts, ZenonT(40)
      <4> QED BY <4>3, Zenon DEF g
    <3>6. (i + 1) - 1 = i
      OBVIOUS
    <3>7. SphinxCell(id, keys, i + 1)
            = [format |-> "Sphinx", routing_tag |-> keys[i + 1][1], epk |-> <<id, i + 1>>,
               gamma |-> g.mac, beta |-> g.beta, payload |-> pl]
      BY <2>6, <3>6, Zenon DEF SphinxCell, g
    <3>8. out = [to |-> "relay", cell |-> SphinxCell(id, keys, i + 1)]
      BY <2>1, <3>4, <3>5, <3>7, Zenon
    <3> QED BY <1>1, <1>7, <2>8, <3>8, Zenon DEF Step, c, T
  <2> QED BY <2>7, <2>8, Zenon
<1> QED BY <1>6, <1>7, Zenon

LEMMA LayerStep ==
    ASSUME NEW id, NEW keys, Len(keys) \in Nat \ {0}, NEW size, NEW i \in 1 .. Len(keys)
    PROVE  onion_layers(id, keys, size)[i]
             = LayerOf(id, keys, size, i, onion_layers(id, keys, size)[i + 1])
<1> DEFINE L == onion_layers(id, keys, size)
<1>1. L = [k \in 1 .. Len(keys) |-> LayerOf(id, keys, size, k, L[k + 1])]
  BY LayersDefined DEF LayersFrom
<1> HIDE DEF L
<1>2. L[i] = LayerOf(id, keys, size, i, L[i + 1])
  BY <1>1, Zenon
<1> QED BY <1>2, Zenon DEF L

\* The same for a legacy cell, whose layers are nested.
LEMMA LegacyPeels ==
    ASSUME NEW id, NEW keys, Len(keys) \in Nat \ {0}, NEW size,
           NEW i \in 1 .. Len(keys), NEW n, NEW k, keys[i] = <<n, k>>
    PROVE  peel(n, onion_layers(id, keys, size)[i])
             = IF k \in Range(sphinx_privs(n))
               THEN Step(id, keys, i, onion_layers(id, keys, size)[i + 1])
               ELSE Failed
<1> DEFINE L == onion_layers(id, keys, size)
           T == Range(sphinx_privs(n))
<1>1. /\ L[i].format = "Legacy" /\ L[i].epk = <<id, i>> /\ L[i].sealed = <<<<id, i>>, <<n, k>>>>
      /\ i = Len(keys) => L[i].type = "DELIVER"
      /\ i # Len(keys) => L[i].type = "FORWARD"
      /\ L[i].traffic = id
      /\ i # Len(keys) => L[i].inner = <<L[i + 1]>>
  <2>1. x25519_shared(keys[i], <<id, i>>) = <<<<id, i>>, <<n, k>>>>
    BY Zenon DEF x25519_shared
  <2>2. L[i] = LayerOf(id, keys, size, i, L[i + 1])
    BY LayerStep, Zenon
  <2> HIDE DEF L
  <2>3. CASE i = Len(keys)
    BY <2>1, <2>2, <2>3 DEF LayerOf, build_layer
  <2>4. CASE i # Len(keys)
    BY <2>1, <2>2, <2>4 DEF LayerOf, build_layer
  <2> QED BY <2>3, <2>4, Zenon
<1> DEFINE tried == {kk \in T : L[i].sealed = x25519_shared(<<n, kk>>, L[i].epk)}
           out == IF tried = {} THEN Failed
                  ELSE IF L[i].type = "DELIVER" THEN [to |-> "exit", traffic |-> L[i].traffic]
                  ELSE [to |-> "relay", cell |-> L[i].inner[1]]
<1>2. peel(n, L[i]) = out
  BY Zenon DEF peel
<1> HIDE DEF L, T
<1>3. \A x : x \in tried <=> x = k /\ x \in T
  BY <1>1 DEF x25519_shared
<1> HIDE DEF tried
<1>4. tried = {} <=> k \notin T
  BY <1>3, Zenon
<1>5. i # Len(keys) => L[i].inner[1] = L[i + 1]
  BY <1>1
<1>6. out = IF k \in T THEN Step(id, keys, i, L[i + 1]) ELSE Failed
  BY <1>1, <1>4, <1>5, Zenon DEF Step
<1> QED BY <1>2, <1>6, Zenon DEF L, T


-----------------------------------------------------------------------------
(* The cells on the way.                                                   *)

\* A hop's previous key is the one before its current one, the sender knows none that is
\* newer, and the cells it made are for keys the hops have or had.
KeyChains ==
    /\ chain \in [Hop -> [current : Nat \ {0}, previous : Seq(Nat)]]
    /\ \A n \in Hop :
          /\ chain[n].current = 1 => chain[n].previous = <<>>
          /\ chain[n].current # 1 => chain[n].previous = <<chain[n].current - 1>>
    /\ known \in [Hop -> Nat]
    /\ \A n \in Hop : known[n] <= chain[n].current

\* The key sequence of a cell: for hops, and for keys they have or had.
ForKeys(keys) ==
    /\ keys \in Seq(Hop \X Nat)
    /\ Len(keys) # 0
    /\ \A i \in 1 .. Len(keys) : keys[i][2] <= chain[keys[i][1]].current

\* The cell is the one its sender built for hop i of cell number id.  Under Auto every hop
\* of a Sphinx cell has the feature.
Built(c, id, i) ==
    \/ \E size \in Sizes : c = onion_layers(id, made[id], size)[i]
    \/ /\ c = SphinxCell(id, made[id], i)
       /\ Len(made[id]) <= MAX_HOPS
       /\ onion_format = "Auto" => \A j \in 1 .. Len(made[id]) : made[id][j][1] \in capable

CellInv ==
    /\ KeyChains
    /\ capabilities \subseteq capable
    /\ made \in Seq(Seq(Hop \X Nat))
    /\ \A id \in 1 .. Len(made) : ForKeys(made[id])
    /\ \A c \in net : \E id \in 1 .. Len(made) : \E i \in 1 .. Len(made[id]) : Built(c, id, i)

\* The keys a hop tries are its current one, the one before and the identity's.
LEMMA PrivKeys ==
    ASSUME KeyChains, NEW n \in Hop, NEW k \in Nat, k <= chain[n].current
    PROVE  k \in Range(sphinx_privs(n)) <=> k = 0 \/ k >= chain[n].current - 1
<1> DEFINE cur == chain[n].current
           s == sphinx_privs(n)
<1>1. cur \in Nat \ {0} /\ k <= cur
  BY Zenon DEF KeyChains
<1>2. CASE cur = 1
  <2>1. s = (<<cur>> \o <<>>) \o <<0>>
    BY <1>2, Zenon DEF KeyChains, sphinx_privs
  <2> HIDE DEF s, cur
  <2>2. Range(s) = {cur, 0}
    <3>1. <<cur>> \o <<>> \in Seq(Nat) /\ Len(<<cur>> \o <<>>) = 1 /\ (<<cur>> \o <<>>)[1] = cur
      BY <1>1
    <3>2. Len(s) = 2 /\ s \in Seq(Nat) /\ s[1] = cur /\ s[2] = 0
      BY <2>1, <3>1
    <3> QED BY <3>2 DEF Range
  <2>3. k \in Range(s) <=> k = 0 \/ k >= cur - 1
    BY <1>1, <1>2, <2>2
  <2> QED BY <2>3, Zenon DEF s, cur
<1>3. CASE cur # 1
  <2>1. s = (<<cur>> \o <<cur - 1>>) \o <<0>>
    BY <1>3, Zenon DEF KeyChains, sphinx_privs
  <2> HIDE DEF s, cur
  <2>2. Range(s) = {cur, cur - 1, 0}
    <3> DEFINE t == <<cur>> \o <<cur - 1>>
    <3>1. t \in Seq(Nat) /\ Len(t) = 2 /\ t[1] = cur /\ t[2] = cur - 1
      BY <1>1
    <3> HIDE DEF t
    <3>2. Len(s) = 3 /\ s \in Seq(Nat) /\ s[1] = cur /\ s[2] = cur - 1 /\ s[3] = 0
      BY <2>1, <3>1 DEF t
    <3> QED BY <3>2 DEF Range
  <2>3. k \in Range(s) <=> k = 0 \/ k >= cur - 1
    BY <1>1, <1>3, <2>2
  <2> QED BY <2>3, Zenon DEF s, cur
<1> QED BY <1>2, <1>3, Zenon

\* What a cell on the way says, and what its hop makes of it.
LEMMA CellFacts ==
    ASSUME KeyChains, NEW id \in 1 .. Len(made), ForKeys(made[id]),
           NEW i \in 1 .. Len(made[id]), NEW c, Built(c, id, i)
    PROVE  /\ c.epk = <<id, i>>
           /\ c.routing_tag = made[id][i][1]
           /\ made[id][i] \in Hop \X Nat
           /\ \E next : /\ i # Len(made[id]) => Built(next, id, i + 1)
                        /\ Peel(c.routing_tag, c)
                             = IF WithinOverlap(made[id][i]) THEN Step(id, made[id], i, next) ELSE Failed
<1> DEFINE keys == made[id]
<1>1. keys \in Seq(Hop \X Nat) /\ Len(keys) \in Nat \ {0} /\ i \in 1 .. Len(keys)
  BY DEF ForKeys
<1>2. PICK n \in Hop, k \in Nat : keys[i] = <<n, k>>
  <2>1. keys[i] \in Hop \X Nat
    BY <1>1
  <2> QED BY <2>1
<1>3. k <= chain[n].current
  BY <1>1, <1>2 DEF ForKeys
<1>4. k \in Range(sphinx_privs(n)) <=> WithinOverlap(keys[i])
  BY <1>2, <1>3, PrivKeys DEF WithinOverlap
<1>5. i # Len(keys) => i + 1 \in 1 .. Len(keys)
  BY <1>1
<1>6. ASSUME NEW size \in Sizes, c = onion_layers(id, keys, size)[i]
      PROVE  /\ c.epk = <<id, i>> /\ c.routing_tag = n
             /\ \E next : /\ i # Len(keys) => Built(next, id, i + 1)
                          /\ Peel(c.routing_tag, c)
                               = IF WithinOverlap(keys[i]) THEN Step(id, keys, i, next) ELSE Failed
  <2> DEFINE L == onion_layers(id, keys, size)
             next == L[i + 1]
  <2>1. c = LayerOf(id, keys, size, i, next)
    BY <1>1, <1>6, LayerStep, Zenon
  <2>2. Built(next, id, i + 1)
    BY Zenon DEF Built
  <2>3. peel(n, c) = IF k \in Range(sphinx_privs(n)) THEN Step(id, keys, i, next) ELSE Failed
    BY <1>1, <1>2, <1>6, LegacyPeels, Zenon
  <2> HIDE DEF L, next, keys
  <2>4. c.epk = <<id, i>> /\ c.routing_tag = keys[i][1] /\ c.format = "Legacy"
    <3>1. CASE i = Len(keys)
      BY <2>1, <3>1, Zenon DEF LayerOf, build_layer
    <3>2. CASE i # Len(keys)
      BY <2>1, <3>2, Zenon DEF LayerOf, build_layer
    <3> QED BY <3>1, <3>2, Zenon
  <2>5. c.routing_tag = n
    BY <1>2, <2>4
  <2>6. Peel(c.routing_tag, c) = peel(n, c)
    BY <2>4, <2>5, Zenon DEF Peel
  <2>7. Peel(c.routing_tag, c) = IF WithinOverlap(keys[i]) THEN Step(id, keys, i, next) ELSE Failed
    BY <1>4, <2>3, <2>6, Zenon
  <2> HIDE DEF Peel, Step, Failed, WithinOverlap, Built
  <2> QED BY <2>2, <2>4, <2>5, <2>7, Zenon
<1>7. ASSUME c = SphinxCell(id, keys, i), Len(keys) <= MAX_HOPS,
             onion_format = "Auto" => \A j \in 1 .. Len(keys) : keys[j][1] \in capable
      PROVE  /\ c.epk = <<id, i>> /\ c.routing_tag = n
             /\ \E next : /\ i # Len(keys) => Built(next, id, i + 1)
                          /\ Peel(c.routing_tag, c)
                               = IF WithinOverlap(keys[i]) THEN Step(id, keys, i, next) ELSE Failed
  <2> DEFINE next == SphinxCell(id, keys, i + 1)
  <2>1. Built(next, id, i + 1)
    BY <1>7, Zenon DEF Built
  <2>2. process_sphinx(n, c)
          = IF k \in Range(sphinx_privs(n)) THEN Step(id, keys, i, next) ELSE Failed
    BY <1>1, <1>2, <1>7, SphinxPeels, Zenon
  <2> HIDE DEF next, keys
  <2>3. c.epk = <<id, i>> /\ c.routing_tag = keys[i][1] /\ c.format = "Sphinx"
    BY <1>7, Zenon DEF SphinxCell
  <2>4. c.routing_tag = n
    BY <1>2, <2>3
  <2>5. Peel(c.routing_tag, c) = process_sphinx(n, c)
    BY <2>3, <2>4, Zenon DEF Peel
  <2>6. Peel(c.routing_tag, c) = IF WithinOverlap(keys[i]) THEN Step(id, keys, i, next) ELSE Failed
    BY <1>4, <2>2, <2>5, Zenon
  <2> QED BY <2>1, <2>3, <2>4, <2>6, Zenon
<1>8. keys[i] \in Hop \X Nat /\ keys[i][1] = n
  BY <1>2
<1> HIDE DEF Peel, Step, WithinOverlap
<1> QED BY <1>6, <1>7, <1>8, Zenon DEF Built


LEMMA InitCellInv == OnionInit => CellInv
<1> SUFFICES ASSUME OnionInit PROVE CellInv
  BY Zenon
<1>1. KeyChains
  <2>1. chain = [n \in Hop |-> [current |-> 1, previous |-> <<>>]] /\ known = [n \in Hop |-> 0]
    BY Zenon DEF OnionInit
  <2>2. [current |-> 1, previous |-> <<>>] \in [current : Nat \ {0}, previous : Seq(Nat)]
    OBVIOUS
  <2> QED BY <2>1, <2>2 DEF KeyChains
<1>2. /\ capabilities \subseteq capable /\ made \in Seq(Seq(Hop \X Nat)) /\ Len(made) = 0 /\ net = {}
  BY DEF OnionInit
<1> QED BY <1>1, <1>2 DEF CellInv

\* A cell stays what its sender built when the cells made are only added to.
LEMMA BuiltStays ==
    ASSUME NEW id, made'[id] = made[id], UNCHANGED config,
           NEW i, NEW c, Built(c, id, i)
    PROVE  Built(c, id, i)'
BY Zenon DEF Built, config

\* The hops and keys of a new cell.
PathKeys(relays) ==
    Append([i \in DOMAIN relays |-> onion_hop_for(relays[i])], onion_hop_for(Dst))

LEMMA PathKeysFor ==
    ASSUME KeyChains, NEW relays \in Paths
    PROVE  /\ ForKeys(PathKeys(relays))
           /\ Len(PathKeys(relays)) = Len(relays) + 1
           /\ \A i \in 1 .. Len(relays) : PathKeys(relays)[i][1] = relays[i]
           /\ PathKeys(relays)[Len(relays) + 1][1] = Dst
<1> DEFINE r == [i \in DOMAIN relays |-> onion_hop_for(relays[i])]
           N == Len(relays)
           keys == PathKeys(relays)
<1>1. relays \in Seq(Hop) /\ N \in Nat /\ DOMAIN relays = 1 .. N /\ Dst \in Hop
      /\ \A i \in 1 .. N : relays[i] \in Hop
  BY OnionAssumption DEF Hop
<1>2. ASSUME NEW n \in Hop
      PROVE  onion_hop_for(n) \in Hop \X Nat /\ onion_hop_for(n)[1] = n
             /\ onion_hop_for(n)[2] <= chain[n].current
  BY Zenon DEF KeyChains, onion_hop_for
<1>3. r \in Seq(Hop \X Nat) /\ Len(r) = N /\ \A i \in 1 .. N : r[i] = onion_hop_for(relays[i])
  BY <1>1, <1>2
<1>4. keys = Append(r, onion_hop_for(Dst))
  BY Zenon DEF PathKeys
<1> HIDE DEF r, N, keys
<1>5. /\ keys \in Seq(Hop \X Nat) /\ Len(keys) = N + 1
      /\ \A i \in 1 .. N : keys[i] = onion_hop_for(relays[i])
      /\ keys[N + 1] = onion_hop_for(Dst)
  BY <1>1, <1>2, <1>3, <1>4
<1>6. ASSUME NEW i \in 1 .. N + 1 PROVE \E n \in Hop : keys[i] = onion_hop_for(n)
  BY <1>1, <1>5
<1>7. \A i \in 1 .. N + 1 : keys[i][2] <= chain[keys[i][1]].current
  BY <1>2, <1>6
<1>8. ForKeys(keys)
  BY <1>1, <1>5, <1>7 DEF ForKeys
<1>9. (\A i \in 1 .. N : keys[i][1] = relays[i]) /\ keys[N + 1][1] = Dst
  BY <1>1, <1>2, <1>5, Zenon
<1> QED BY <1>5, <1>8, <1>9, Zenon DEF keys, N

LEMMA SphinxFirst ==
    ASSUME NEW id, NEW keys, Len(keys) \in Nat
    PROVE  build_sphinx(id, keys) = SphinxCell(id, keys, 1)
<1>1. (Len(keys) - 1) + 1 = Len(keys) /\ 1 - 1 = 0 /\ \A j \in 1 .. Len(keys) : (1 - 1) + j = j
  OBVIOUS
<1>2. [j \in 1 .. (Len(keys) - 1) + 1 |-> hop_secret(id, keys, (1 - 1) + j)]
        = [j \in 1 .. Len(keys) |-> hop_secret(id, keys, j)]
  BY <1>1, Zenon
<1> QED BY <1>2, Zenon DEF build_sphinx, SphinxCell

LEMMA EmitCellInv ==
    ASSUME CellInv, NEW relays \in Paths, NEW size \in Sizes, Emit(relays, size),
           UNCHANGED <<config, chain, known, capabilities>>
    PROVE  CellInv'
<1> DEFINE N == Len(relays)
<1>0. PICK id, keys : id = Len(made) + 1 /\ keys = PathKeys(relays)
  BY Zenon
<1>1. ForKeys(keys) /\ Len(keys) = N + 1 /\ N \in Nat /\ N = Len(relays)
      /\ (\A i \in 1 .. N : keys[i][1] = relays[i]) /\ keys[N + 1][1] = Dst
  BY <1>0, PathKeysFor, OnionAssumption DEF CellInv
<1>2. /\ made' = Append(made, keys)
      /\ \/ /\ use_sphinx(relays) /\ Len(keys) <= MAX_HOPS
            /\ net' = net \cup {build_sphinx(id, keys)}
         \/ net' = net \cup {build_onion(id, keys, size)}
  BY <1>0, Zenon DEF Emit, PathKeys
<1> HIDE DEF N
<1>3. KeyChains /\ KeyChains'
  BY Zenon DEF CellInv, KeyChains
<1>4. made \in Seq(Seq(Hop \X Nat)) /\ keys \in Seq(Hop \X Nat) /\ Len(made) \in Nat
  BY <1>1 DEF CellInv, ForKeys
<1>5. /\ made' \in Seq(Seq(Hop \X Nat)) /\ Len(made') = id /\ made'[id] = keys
      /\ \A d \in 1 .. Len(made) : made'[d] = made[d]
  BY <1>0, <1>2, <1>4
<1>6. \A d \in 1 .. Len(made') : ForKeys(made[d])'
  <2> SUFFICES ASSUME NEW d \in 1 .. Len(made') PROVE ForKeys(made[d])'
    BY Zenon
  <2>1. \A ks : ForKeys(ks) => (ks \in Seq(Hop \X Nat) /\ Len(ks) # 0
                               /\ \A i \in 1 .. Len(ks) : ks[i][2] <= chain'[ks[i][1]].current)
    BY Zenon DEF ForKeys
  <2>2. ForKeys(made'[d])
    <3>1. CASE d = id
      BY <1>1, <1>5, <3>1, Zenon
    <3>2. CASE d # id
      <4>1. d \in 1 .. Len(made)
        BY <1>0, <1>4, <1>5, <3>2
      <4> QED BY <1>5, <4>1, Zenon DEF CellInv
    <3> QED BY <3>1, <3>2, Zenon
  <2> QED BY <2>1, <2>2, Zenon DEF ForKeys
<1>7. id \in 1 .. Len(made') /\ 1 \in 1 .. Len(made'[id])
  BY <1>0, <1>1, <1>4, <1>5
<1>8. ASSUME net' = net \cup {build_sphinx(id, keys)}, use_sphinx(relays), Len(keys) <= MAX_HOPS
      PROVE  Built(build_sphinx(id, keys), id, 1)'
  <2>1. build_sphinx(id, keys) = SphinxCell(id, keys, 1)
    BY <1>1, SphinxFirst
  <2>2. ASSUME onion_format = "Auto", NEW j \in 1 .. Len(keys) PROVE keys[j][1] \in capable
    <3>1. /\ \A i \in 1 .. N : relays[i] \in capabilities
          /\ Dst \in capabilities /\ capabilities \subseteq capable
      <4>1. DOMAIN relays = 1 .. N
        BY OnionAssumption, <1>1
      <4> QED BY <1>8, <2>2, <4>1, Zenon DEF use_sphinx, path_supports_sphinx, CellInv
    <3> QED BY <1>1, <3>1
  <2>3. onion_format' = onion_format /\ capable' = capable
    BY Zenon DEF config
  <2> QED BY <1>5, <1>8, <2>1, <2>2, <2>3, Zenon DEF Built
<1>9. ASSUME net' = net \cup {build_onion(id, keys, size)}
      PROVE  Built(build_onion(id, keys, size), id, 1)'
  <2> QED BY <1>5, Zenon DEF Built, build_onion
<1>10. \A c \in net : \E d \in 1 .. Len(made') : \E i \in 1 .. Len(made'[d]) : Built(c, d, i)'
  <2> SUFFICES ASSUME NEW c \in net
               PROVE  \E d \in 1 .. Len(made') : \E i \in 1 .. Len(made'[d]) : Built(c, d, i)'
    BY Zenon
  <2>0. PICK d \in 1 .. Len(made) : \E i \in 1 .. Len(made[d]) : Built(c, d, i)
    BY Zenon DEF CellInv
  <2>1. PICK i \in 1 .. Len(made[d]) : Built(c, d, i)
    BY <2>0, Zenon
  <2>2. d \in 1 .. Len(made') /\ made'[d] = made[d]
    BY <1>0, <1>4, <1>5
  <2>3. Built(c, d, i)'
    BY <2>1, <2>2, BuiltStays, Zenon
  <2> QED BY <2>1, <2>2, <2>3, Zenon
<1>11. \A c \in net' : \E d \in 1 .. Len(made') : \E i \in 1 .. Len(made'[d]) : Built(c, d, i)'
  <2> QED BY <1>2, <1>7, <1>8, <1>9, <1>10, Zenon
<1>12. (capabilities \subseteq capable)'
  BY Zenon DEF CellInv, config
<1> QED BY <1>3, <1>5, <1>6, <1>11, <1>12, Zenon DEF CellInv


\* The cells on the way and their keys, when nothing is sent and no hop's key gets older.
LEMMA CellsStay ==
    ASSUME CellInv, KeyChains', UNCHANGED <<config, made>>,
           (capabilities \subseteq capable)',
           \A n \in Hop : chain[n].current <= chain'[n].current,
           \A c \in net' \ net :
               \E id \in 1 .. Len(made) : \E i \in 1 .. Len(made[id]) : Built(c, id, i)
    PROVE  CellInv'
<1>1. made \in Seq(Seq(Hop \X Nat)) /\ made' = made
  BY Zenon DEF CellInv
<1>2. ASSUME NEW id \in 1 .. Len(made') PROVE ForKeys(made[id])'
  <2>1. ForKeys(made[id]) /\ made'[id] = made[id]
    BY <1>1, Zenon DEF CellInv
  <2>2. ASSUME NEW i \in 1 .. Len(made[id])
        PROVE  made[id][i][2] <= chain'[made[id][i][1]].current
    <3>1. made[id][i] \in Hop \X Nat /\ made[id][i][2] <= chain[made[id][i][1]].current
      BY <2>1 DEF ForKeys
    <3>2. PICK n \in Hop, k \in Nat : made[id][i] = <<n, k>>
      BY <3>1
    <3>3. k <= chain[n].current
      BY <3>1, <3>2
    <3>4. chain[n].current \in Nat /\ chain'[n].current \in Nat /\ chain[n].current <= chain'[n].current
      BY Zenon DEF CellInv, KeyChains
    <3>5. k <= chain'[n].current
      BY <3>3, <3>4
    <3> QED BY <3>2, <3>5
  <2> QED BY <2>1, <2>2, Zenon DEF ForKeys
<1>3. ASSUME NEW c \in net'
      PROVE  \E id \in 1 .. Len(made') : \E i \in 1 .. Len(made'[id]) : Built(c, id, i)'
  <2>1. PICK id \in 1 .. Len(made) : \E i \in 1 .. Len(made[id]) : Built(c, id, i)
    BY Zenon DEF CellInv
  <2>2. PICK i \in 1 .. Len(made[id]) : Built(c, id, i)
    BY <2>1, Zenon
  <2>3. Built(c, id, i)'
    BY <1>1, <2>2, BuiltStays, Zenon
  <2> QED BY <1>1, <2>3, Zenon
<1> QED BY <1>1, <1>2, <1>3, Zenon DEF CellInv

LEMMA RotateCellInv ==
    ASSUME CellInv, NEW n \in Hop, rotate_onion_keys_if_due(n)
    PROVE  CellInv'
<1> DEFINE cur == chain[n].current
<1>1. chain' = [chain EXCEPT ![n] = [current |-> cur + 1, previous |-> <<cur>>]]
  BY Zenon DEF rotate_onion_keys_if_due, rotate
<1>2. UNCHANGED <<config, known, capabilities, made, net>>
  BY Zenon DEF rotate_onion_keys_if_due
<1>3. KeyChains
  BY Zenon DEF CellInv
<1>4. cur \in Nat \ {0}
  BY <1>3, Zenon DEF KeyChains
<1> HIDE DEF cur
<1>5. [current |-> cur + 1, previous |-> <<cur>>] \in [current : Nat \ {0}, previous : Seq(Nat)]
  BY <1>4
<1>6. /\ chain' \in [Hop -> [current : Nat \ {0}, previous : Seq(Nat)]]
      /\ chain'[n] = [current |-> cur + 1, previous |-> <<cur>>]
      /\ \A m \in Hop \ {n} : chain'[m] = chain[m]
  BY <1>1, <1>3, <1>5, Zenon DEF KeyChains
<1>7. chain'[n].current = cur + 1 /\ chain'[n].previous = <<cur>> /\ (cur + 1) - 1 = cur /\ cur + 1 # 1
  BY <1>4, <1>6
<1>8. \A m \in Hop : chain[m].current \in Nat /\ chain[m].current <= chain'[m].current
  <2> SUFFICES ASSUME NEW m \in Hop
               PROVE  chain[m].current \in Nat /\ chain[m].current <= chain'[m].current
    BY Zenon
  <2>1. chain[m].current \in Nat
    BY <1>3, Zenon DEF KeyChains
  <2>2. CASE m = n
    BY <1>4, <1>7, <2>2 DEF cur
  <2>3. CASE m # n
    BY <1>6, <2>1, <2>3
  <2> QED BY <2>1, <2>2, <2>3, Zenon
<1>9. KeyChains'
  <2>1. known' \in [Hop -> Nat] /\ known' = known
    BY <1>2, <1>3, Zenon DEF KeyChains
  <2>2. ASSUME NEW m \in Hop
        PROVE  /\ chain'[m].current = 1 => chain'[m].previous = <<>>
               /\ chain'[m].current # 1 => chain'[m].previous = <<chain'[m].current - 1>>
    BY <1>3, <1>6, <1>7, Zenon DEF KeyChains
  <2>3. ASSUME NEW m \in Hop PROVE known'[m] <= chain'[m].current
    <3>1. known[m] \in Nat /\ known[m] <= chain[m].current /\ chain'[m].current \in Nat
      BY <1>3, <1>6, Zenon DEF KeyChains
    <3> QED BY <1>8, <2>1, <3>1
  <2> QED BY <1>6, <2>1, <2>2, <2>3, Zenon DEF KeyChains
<1>10. (capabilities \subseteq capable)'
  BY <1>2, Zenon DEF CellInv, config
<1> QED BY <1>2, <1>8, <1>9, <1>10, CellsStay, Zenon

LEMMA NextCellInv == CellInv /\ [OnionNext]_onion_vars => CellInv'
<1> SUFFICES ASSUME CellInv, [OnionNext]_onion_vars PROVE CellInv'
  BY Zenon
<1>0. KeyChains /\ \A n \in Hop : chain[n].current \in Nat
  BY Zenon DEF CellInv, KeyChains
<1>1. ASSUME UNCHANGED <<chain, known, capabilities, made, config, net>>
      PROVE  CellInv'
  <2>1. KeyChains'
    BY <1>0, <1>1, Zenon DEF KeyChains
  <2>2. (capabilities \subseteq capable)'
    BY <1>1, Zenon DEF CellInv, config
  <2> QED BY <1>0, <1>1, <2>1, <2>2, CellsStay
<1>2. ASSUME NEW n \in Hop, rotate_onion_keys_if_due(n) PROVE CellInv'
  BY <1>2, RotateCellInv, Zenon
<1>3. ASSUME NEW n \in Hop, record_remote_onion_key(n) PROVE CellInv'
  <2>1. known' = [known EXCEPT ![n] = chain[n].current]
        /\ UNCHANGED <<chain, capabilities, made, config, net>>
    BY <1>3, Zenon DEF record_remote_onion_key
  <2>2. KeyChains'
    BY <1>0, <2>1 DEF KeyChains
  <2>3. (capabilities \subseteq capable)'
    BY <2>1, Zenon DEF CellInv, config
  <2> QED BY <1>0, <2>1, <2>2, <2>3, CellsStay
<1>4. ASSUME NEW n \in Hop, record_capability(n) PROVE CellInv'
  <2>1. capabilities' = capabilities \cup {n} /\ n \in capable
        /\ UNCHANGED <<chain, known, made, config, net>>
    BY <1>4, Zenon DEF record_capability
  <2>2. KeyChains'
    BY <1>0, <2>1, Zenon DEF KeyChains
  <2>3. (capabilities \subseteq capable)'
    BY <2>1, Zenon DEF CellInv, config
  <2> QED BY <1>0, <2>1, <2>2, <2>3, CellsStay
<1>5. ASSUME NEW relays \in Paths, NEW size \in Sizes, write_to_onion(relays, size) PROVE CellInv'
  <2>1. UNCHANGED <<config, chain, known, capabilities>>
    BY <1>5, Zenon DEF write_to_onion
  <2>2. CASE UNCHANGED <<net, made>>
    BY <1>1, <2>1, <2>2, Zenon
  <2>3. CASE Emit(relays, size)
    BY <2>1, <2>3, EmitCellInv, Zenon
  <2> QED BY <1>5, <2>2, <2>3, Zenon DEF write_to_onion
<1>6. ASSUME Established PROVE CellInv'
  BY <1>1, <1>6, Zenon DEF Established
<1>7. ASSUME NEW c \in net, handle_onion(c) PROVE CellInv'
  <2> DEFINE p == Peel(c.routing_tag, c)
  <2>1. UNCHANGED <<config, chain, known, capabilities, made>>
    BY <1>7, Zenon DEF handle_onion
  <2>2. net' = net \/ (p.to = "relay" /\ net' = net \cup {p.cell})
    BY <1>7, Zenon DEF handle_onion
  <2>3. CASE net' = net
    BY <1>1, <2>1, <2>3, Zenon
  <2>4. CASE p.to = "relay" /\ net' = net \cup {p.cell}
    <3>1. PICK id \in 1 .. Len(made) : \E i \in 1 .. Len(made[id]) : Built(c, id, i)
      BY Zenon DEF CellInv
    <3>2. PICK i \in 1 .. Len(made[id]) : Built(c, id, i)
      BY <3>1, Zenon
    <3>3. ForKeys(made[id]) /\ Len(made[id]) \in Nat
      BY DEF CellInv, ForKeys
    <3>4. PICK next : /\ i # Len(made[id]) => Built(next, id, i + 1)
                      /\ p = IF WithinOverlap(made[id][i]) THEN Step(id, made[id], i, next) ELSE Failed
      BY <1>0, <3>2, <3>3, CellFacts, Zenon
    <3> HIDE DEF p
    <3>5. i # Len(made[id]) /\ p.cell = next
      BY <2>4, <3>4, Zenon DEF Step, Failed
    <3>6. i + 1 \in 1 .. Len(made[id])
      BY <3>3, <3>5
    <3>7. \A x \in net' \ net : \E d \in 1 .. Len(made) : \E j \in 1 .. Len(made[d]) : Built(x, d, j)
      BY <2>4, <3>4, <3>5, <3>6, Zenon
    <3>8. KeyChains' /\ (capabilities \subseteq capable)'
      BY <1>0, <2>1, ZenonT(30) DEF CellInv, KeyChains, config
    <3> QED BY <1>0, <2>1, <3>7, <3>8, CellsStay
  <2> QED BY <2>2, <2>3, <2>4, Zenon
<1>8. ASSUME UNCHANGED onion_vars PROVE CellInv'
  BY <1>1, <1>8, Zenon DEF onion_vars, config
<1> QED BY <1>2, <1>3, <1>4, <1>5, <1>6, <1>7, <1>8, Zenon DEF OnionNext


\* Every cell on the way is at the hop its sender meant, and a hop that has rotated its
\* onion key at most once since the layer was built (onion.rs, OnionKeyChain) peels it to
\* the next hop's layer or, at the end of the path, to the Traffic of that cell; a hop
\* that has rotated twice peels nothing.  For paths of every length that MAX_HOPS allows,
\* in both formats, and for any number of cells, rotations and deliveries of a cell.
THEOREM OnionPeelsToNextHop == OnionSpec => []PeelsToNextHop
<1>1. OnionInit => CellInv
  BY InitCellInv, Zenon
<1>2. CellInv /\ [OnionNext]_onion_vars => CellInv'
  BY NextCellInv, Zenon
<1>3. CellInv => PeelsToNextHop
  <2> SUFFICES ASSUME CellInv, NEW c \in net
      PROVE  LET keys == made[CellId(c)]
                 p == Peel(c.routing_tag, c)
             IN  /\ c.routing_tag = LayerKey(c)[1]
                 /\ WithinOverlap(LayerKey(c)) <=> p # Failed
                 /\ p.to = "relay" =>
                     /\ CellId(p.cell) = CellId(c)
                     /\ Position(p.cell) = Position(c) + 1
                     /\ Position(p.cell) <= Len(keys)
                 /\ p.to = "exit" =>
                     /\ p.traffic = CellId(c)
                     /\ Position(c) = Len(keys)
    BY Zenon DEF PeelsToNextHop
  <2> DEFINE p == Peel(c.routing_tag, c)
  <2>1. PICK id \in 1 .. Len(made) : \E i \in 1 .. Len(made[id]) : Built(c, id, i)
    BY Zenon DEF CellInv
  <2>2. PICK i \in 1 .. Len(made[id]) : Built(c, id, i)
    BY <2>1, Zenon
  <2>3. ForKeys(made[id]) /\ Len(made[id]) \in Nat /\ KeyChains
    <3>1. ForKeys(made[id]) /\ KeyChains
      BY <2>1, Zenon DEF CellInv
    <3>2. Len(made[id]) \in Nat
      BY ONLY <3>1 DEF ForKeys
    <3> QED BY <3>1, <3>2, Zenon
  <2>4. c.epk = <<id, i>> /\ c.routing_tag = made[id][i][1]
    BY <2>2, <2>3, CellFacts, Zenon
  <2>5. PICK next : /\ i # Len(made[id]) => Built(next, id, i + 1)
                    /\ p = IF WithinOverlap(made[id][i]) THEN Step(id, made[id], i, next) ELSE Failed
    BY <2>2, <2>3, CellFacts, Zenon
  <2>6. i # Len(made[id]) => i + 1 \in 1 .. Len(made[id])
    BY <2>3
  <2>7. i # Len(made[id]) => next.epk = <<id, i + 1>>
    BY <2>3, <2>5, <2>6, CellFacts, Zenon
  <2>8. CellId(c) = id /\ Position(c) = i /\ LayerKey(c) = made[id][i]
    BY <2>4 DEF CellId, Position, LayerKey
  <2> HIDE DEF p
  <2>9. CASE ~WithinOverlap(made[id][i])
    <3>1. p = Failed /\ p.to = "none"
      BY <2>5, <2>9, Zenon DEF Failed
    <3> QED BY <2>4, <2>8, <2>9, <3>1, Zenon DEF p
  <2>10. CASE WithinOverlap(made[id][i]) /\ i = Len(made[id])
    <3>1. p = [to |-> "exit", traffic |-> id]
      BY <2>5, <2>10, Zenon DEF Step
    <3>2. p.to = "exit" /\ p.traffic = id /\ Failed.to = "none"
      BY <3>1, Zenon DEF Failed
    <3>3. p # Failed
      BY <3>2, Zenon
    <3> QED BY <2>4, <2>8, <2>10, <3>2, <3>3, Zenon DEF p
  <2>11. CASE WithinOverlap(made[id][i]) /\ i # Len(made[id])
    <3>1. p = [to |-> "relay", cell |-> next]
      BY <2>5, <2>11, Zenon DEF Step
    <3>2. p.to = "relay" /\ p.cell = next /\ Failed.to = "none"
      BY <3>1, Zenon DEF Failed
    <3>3. p # Failed
      BY <3>2, Zenon
    <3>4. CellId(p.cell) = id /\ Position(p.cell) = i + 1
      BY <2>7, <2>11, <3>2 DEF CellId, Position
    <3>5. i + 1 <= Len(made[id])
      BY <2>3, <2>6, <2>11
    <3> QED BY <2>4, <2>8, <2>11, <3>2, <3>3, <3>4, <3>5, Zenon DEF p
  <2> QED BY <2>9, <2>10, <2>11, Zenon
<1> QED BY <1>1, <1>2, <1>3, PTL DEF OnionSpec

\* Under Auto a Sphinx cell only ever reaches hops built with the sphinx feature
\* (capabilities.rs, path_supports_sphinx): at every hop of the path, not only at the
\* first one, since the sender checks the whole path before it builds the cell.
THEOREM SphinxReachesCapable == OnionSpec => []AutoReachesCapable
<1>1. OnionInit => CellInv
  BY InitCellInv, Zenon
<1>2. CellInv /\ [OnionNext]_onion_vars => CellInv'
  BY NextCellInv, Zenon
<1>3. CellInv => AutoReachesCapable
  <2> SUFFICES ASSUME CellInv, NEW c \in net, onion_format = "Auto", c.format = "Sphinx"
               PROVE  c.routing_tag \in capable
    BY Zenon DEF AutoReachesCapable
  <2>1. PICK id \in 1 .. Len(made) : \E i \in 1 .. Len(made[id]) : Built(c, id, i)
    BY Zenon DEF CellInv
  <2>2. PICK i \in 1 .. Len(made[id]) : Built(c, id, i)
    BY <2>1, Zenon
  <2>3. ForKeys(made[id]) /\ Len(made[id]) \in Nat \ {0} /\ KeyChains
    <3>1. ForKeys(made[id]) /\ KeyChains
      BY <2>1, Zenon DEF CellInv
    <3>2. Len(made[id]) \in Nat \ {0}
      BY ONLY <3>1 DEF ForKeys
    <3> QED BY <3>1, <3>2, Zenon
  <2>4. c.routing_tag = made[id][i][1]
    BY <2>2, <2>3, CellFacts, Zenon
  <2>5. ASSUME NEW size \in Sizes, c = onion_layers(id, made[id], size)[i] PROVE FALSE
    <3>1. c = LayerOf(id, made[id], size, i, onion_layers(id, made[id], size)[i + 1])
      BY <2>3, <2>5, LayerStep
    <3>2. c.format = "Legacy"
      BY <3>1, Zenon DEF LayerOf, build_layer
    <3> QED BY <3>2, Zenon
  <2> QED BY <2>2, <2>4, <2>5, Zenon DEF Built
<1> QED BY <1>1, <1>2, <1>3, PTL DEF OnionSpec
=============================================================================
