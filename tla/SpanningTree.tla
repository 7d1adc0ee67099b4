---------------------------- MODULE SpanningTree ----------------------------
(***************************************************************************)
(* One spanning tree of src/src/router: parent selection (fix_tree) on the *)
(* announces of the direct peers, the announces themselves, the adaptive   *)
(* control cadence that decides when they are sent, and links that come    *)
(* and go under it (add_peer, remove_peer).                                *)
(*                                                                         *)
(* Nodes are numbered by their tree metric in the epoch, so the smallest   *)
(* number is the best root.  Of the announces travelling over one link     *)
(* only the newest is kept: an older one that arrives just before it is    *)
(* overwritten on arrival.  Path costs saturate and depths wrap as the     *)
(* code's integers do, at small widths.                                    *)
(***************************************************************************)
EXTENDS Integers, FiniteSets

CONSTANTS Node,
          Links,         \* the links there can be: pairs {m, n}
          Dist,          \* Dist[r][n]: a lower bound on the cost from n to root r
          Absent,        \* Rust's None
          LinkCosts,     \* effective_cost of a link, as measured from tick to tick
          Margin,        \* PARENT_SWITCH_MARGIN_US
          CostMax,       \* u64::MAX, at a small width
          DepthMod,      \* 2^32, at a small width
          Grace,         \* CONVERGENCE_GRACE_TICKS
          MinInterval,   \* CONTROL_MIN_INTERVAL
          MaxInterval,   \* CONTROL_MAX_INTERVAL
          MaxDowns       \* links that go down

ASSUME TreeAssumption ==
    /\ Node \subseteq Nat /\ IsFiniteSet(Node)
    /\ \A l \in Links : l \subseteq Node /\ Cardinality(l) = 2
    /\ Absent \notin Node
    /\ LinkCosts \subseteq Nat /\ LinkCosts # {}
    /\ Margin \in Nat /\ MaxDowns \in Nat
    /\ CostMax \in Nat \ {0} /\ DepthMod \in Nat \ {0} /\ Grace \in Nat \ {0}
    /\ MinInterval \in Nat \ {0} /\ MaxInterval \in Nat /\ MinInterval <= MaxInterval

\* What makes Dist a lower bound: a link adds at least what Dist grows by.
ASSUME DistAssumption ==
    /\ Dist \in [Node -> [Node -> Nat]]
    /\ \A r \in Node : Dist[r][r] = 0
    /\ \A r, n, p \in Node, c \in LinkCosts :
          {n, p} \in Links => Dist[r][n] <= Dist[r][p] + c

VARIABLES up,            \* the links that are up
          ann,           \* ann[n][p]: peers[p].trees[_] at n, or Absent
          wire,          \* wire[p][n]: the newest announce from p on its way to n
          tree,          \* tree[n]: parent, root and parent_cost
          depth,         \* depth[n]: own_depth
          cadence,       \* cadence[n]: ticks since the last topology change (up
                         \* to Grace) and the last broadcast, control_interval
          digest,        \* digest[n]: last_control_digest
          downs          \* links gone down so far

vars == <<up, ann, wire, tree, depth, cadence, digest, downs>>

Saturate(c) == IF c > CostMax THEN CostMax ELSE c
Least(S) == CHOOSE x \in S : \A y \in S : x <= y

Peers(n) == {p \in Node : {n, p} \in up}

OwnRoot(n) == [parent |-> Absent, root |-> n, cost |-> 0]

Init ==
    /\ up = Links
    /\ ann = [n \in Node |-> [p \in Node |-> Absent]]
    /\ wire = [p \in Node |-> [n \in Node |-> Absent]]
    /\ tree = [n \in Node |-> OwnRoot(n)]
    /\ depth = [n \in Node |-> 0]
    /\ cadence = [n \in Node |-> [change |-> 0, sent |-> 0, interval |-> MinInterval]]
    /\ digest = [n \in Node |-> Absent]
    /\ downs = 0

-----------------------------------------------------------------------------
(* fix_tree. *)

Heard(n) == {p \in Peers(n) : ann[n][p] # Absent}

\* Bugs: the cost of the link is not added, or added without saturation; the
\* highest root wins.
MutantTotalCost(n, p, w) == ann[n][p].cost
MutantTotalCostWide(n, p, w) == ann[n][p].cost + w[p]
MutantBestRoot(n) == CHOOSE r \in {ann[n][p].root : p \in Heard(n)} :
                        \A q \in Heard(n) : ann[n][q].root <= r

TotalCost(n, p, w) == Saturate(ann[n][p].cost + w[p])

BestRoot(n) == Least({ann[n][p].root : p \in Heard(n)})

\* The peers that announce the best root at the least cost; which of them the
\* loop keeps depends on the order of the peer map.
BestParents(n, w) ==
    LET same == {p \in Heard(n) : ann[n][p].root = BestRoot(n)}
        cost == Least({TotalCost(n, p, w) : p \in same})
    IN  {p \in same : TotalCost(n, p, w) = cost}

\* Hysteresis: the incumbent stays for the same root within the margin.
Keeps(n, p, w) ==
    LET q == tree[n].parent
    IN  /\ q \in Heard(n) /\ q # p
        /\ ann[n][q].root = BestRoot(n)
        /\ Saturate(TotalCost(n, p, w) + Margin) >= TotalCost(n, q, w)

UseSelf(n) == Heard(n) = {} \/ n < BestRoot(n)

\* What fix_tree may make of tree[n], with link costs w.
FixTree(n, w) ==
    IF UseSelf(n) THEN {OwnRoot(n)}
    ELSE {LET q == IF Keeps(n, p, w) THEN tree[n].parent ELSE p
          IN  [parent |-> q, root |-> BestRoot(n), cost |-> TotalCost(n, q, w)] :
          p \in BestParents(n, w)}

OwnDepth(n, t) == IF t.parent = Absent THEN 0 ELSE (ann[n][t.parent].depth + 1) % DepthMod

-----------------------------------------------------------------------------
(* maybe_broadcast_control and send_announces. *)

Announce(t, d) == [root |-> t.root, cost |-> t.cost, depth |-> d]

ControlDigest(n, t, d) ==
    [root |-> t.root, parent |-> t.parent, depth |-> d, peers |-> Cardinality(Peers(n))]

\* root_seq is part of the digest and fix_tree advances it whenever the node is
\* its own root, so such a tick always counts as a change.
Changed(n, t, d) == t.parent = Absent \/ digest[n] # ControlDigest(n, t, d)

\* A bug: the interval grows past its limit.
MutantNextInterval(n, active) == IF active THEN MinInterval ELSE cadence[n].interval + 1

NextInterval(n, active) ==
    IF active THEN MinInterval
    ELSE IF cadence[n].interval + 1 > MaxInterval THEN MaxInterval ELSE cadence[n].interval + 1

\* fix_tree has chosen t: the rest of the tick, with maybe_broadcast_control.
Maintain(n, t) ==
    LET d       == OwnDepth(n, t)
        changed == Changed(n, t, d)
        moved   == changed \/ t.parent # tree[n].parent
        age     == IF moved THEN 0
                   ELSE IF cadence[n].change < Grace THEN cadence[n].change + 1 ELSE Grace
        active  == changed \/ age < Grace
        every   == NextInterval(n, active)
        due     == active \/ cadence[n].sent + 1 >= every
    IN  /\ tree' = [tree EXCEPT ![n] = t]
        /\ depth' = [depth EXCEPT ![n] = d]
        /\ cadence' = [cadence EXCEPT ![n] = [change |-> age, interval |-> every,
                           sent |-> IF due THEN 0 ELSE cadence[n].sent + 1]]
        /\ IF due
           THEN /\ wire' = [wire EXCEPT ![n] =
                      [p \in Node |-> IF p \in Peers(n) THEN Announce(t, d) ELSE @[p]]]
                /\ digest' = [digest EXCEPT ![n] = ControlDigest(n, t, d)]
           ELSE UNCHANGED <<wire, digest>>
        /\ UNCHANGED <<up, ann, downs>>

\* do_maintenance, as far as this tree goes.
Tick(n) == \E w \in [Peers(n) -> LinkCosts] : \E t \in FixTree(n, w) : Maintain(n, t)

\* A change of root or depth, not of cost, keeps the receiver's cadence fast.
handle_announce(n, p) ==
    /\ wire[p][n] # Absent
    /\ wire' = [wire EXCEPT ![p][n] = Absent]
    /\ ann' = [ann EXCEPT ![n][p] = wire[p][n]]
    /\ LET old == ann[n][p]
           new == wire[p][n]
       IN  cadence' = IF old = Absent \/ old.root # new.root \/ old.depth # new.depth
                      THEN [cadence EXCEPT ![n].change = 0] ELSE cadence
    /\ UNCHANGED <<up, tree, depth, digest, downs>>

\* A bug: remove_peer keeps a tree that depended on the lost parent.
MutantLinkDown(l) ==
    /\ l \in up
    /\ downs < MaxDowns
    /\ up' = up \ {l}
    /\ downs' = downs + 1
    /\ ann' = [n \in Node |-> [p \in Node |-> IF l = {n, p} THEN Absent ELSE ann[n][p]]]
    /\ wire' = [n \in Node |-> [p \in Node |-> IF l = {n, p} THEN Absent ELSE wire[n][p]]]
    /\ UNCHANGED <<tree, depth, cadence, digest>>

\* A link goes down and both ends run remove_peer.
LinkDown(l) ==
    /\ l \in up
    /\ downs < MaxDowns
    /\ up' = up \ {l}
    /\ downs' = downs + 1
    /\ ann' = [n \in Node |-> [p \in Node |-> IF l = {n, p} THEN Absent ELSE ann[n][p]]]
    /\ wire' = [n \in Node |-> [p \in Node |-> IF l = {n, p} THEN Absent ELSE wire[n][p]]]
    /\ tree' = [n \in Node |-> IF n \in l /\ tree[n].parent \in l THEN OwnRoot(n) ELSE tree[n]]
    /\ UNCHANGED <<depth, cadence, digest>>

\* The link is back: both ends start from an empty PeerData.
LinkUp(l) ==
    /\ l \in Links \ up
    /\ up' = up \cup {l}
    /\ UNCHANGED <<ann, wire, tree, depth, cadence, digest, downs>>

Next ==
    \/ \E n \in Node : Tick(n)
    \/ \E n, p \in Node : handle_announce(n, p)
    \/ \E l \in Links : LinkDown(l) \/ LinkUp(l)

Spec == Init /\ [][Next]_vars

\* The maintenance task ticks for ever, links deliver and dial loops restore
\* every link.
FairSpec == /\ Spec
            /\ \A n \in Node : WF_vars(Tick(n))
            /\ \A n, p \in Node : WF_vars(handle_announce(n, p))
            /\ \A l \in Links : WF_vars(LinkUp(l))

-----------------------------------------------------------------------------
(* Properties. *)

TreeAnnounce == [root : Node, cost : 0..CostMax, depth : 0..(DepthMod - 1)]

\* Every variable keeps its type.
TypeOK ==
    /\ up \subseteq Links
    /\ ann \in [Node -> [Node -> TreeAnnounce \cup {Absent}]]
    /\ wire \in [Node -> [Node -> TreeAnnounce \cup {Absent}]]
    /\ tree \in [Node -> [parent : Node \cup {Absent}, root : Node, cost : 0..CostMax]]
    /\ depth \in [Node -> 0..(DepthMod - 1)]
    /\ cadence \in [Node -> [change : 0..Grace, sent : Nat, interval : MinInterval..MaxInterval]]

\* Path costs never undersell: whatever stale, echoed or looping announces are
\* about and whatever the links measured, the cost a node announces for a root
\* is at least what the topology allows (fix_tree adds the link's cost to what
\* the parent announced, router/mod.rs 655-657).
CostsHonest == \A n \in Node : tree[n].cost >= Saturate(Dist[tree[n].root][n])

\* A parent is a direct peer whose announce is at hand, also after links went
\* down and came back without one (remove_peer resets the tree of a lost parent,
\* router/mod.rs 572-580).
ParentIsPeer ==
    \A n \in Node : tree[n].parent # Absent => tree[n].parent \in Heard(n)

\* The announce a peer holds is refreshed within CONTROL_MAX_INTERVAL ticks
\* (router/mod.rs 55-59).
Refreshes == \A n \in Node : cadence[n].sent < MaxInterval

RootsAgree == \A n \in Node : tree[n].root = Least(Node)

\* All nodes come to agree on the best root and stay agreed, although the root
\* takes its own identity back from a neighbour's announce (router/mod.rs
\* 646-653) and parents keep changing.
RootAgreement == <>[]RootsAgree

\* "Collapses back to the adaptive back-off once the neighbourhood is quiet"
\* (router/mod.rs 67-68): with the links stable and the root agreed, the
\* announce interval leaves its minimum.
BacksOff == <>[](\A n \in Node : cadence[n].interval > MinInterval)

=============================================================================
