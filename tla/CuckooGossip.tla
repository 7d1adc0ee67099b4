---------------------------- MODULE CuckooGossip ----------------------------
(***************************************************************************)
(* The gossip of reachability filters over one settled spanning tree       *)
(* (cuckoo_do_maintenance, handle_cuckoo).  Every tick a node sends its    *)
(* parent its own tag with the filters of its other peers, and everybody   *)
(* else that with its parent's filter on top.  A filter is the set of      *)
(* nodes whose tags it holds; CuckooFilter says how far that is true.      *)
(*                                                                         *)
(* The generation number is left out: handle_cuckoo replaces the filter    *)
(* whether or not the generation is newer.                                 *)
(***************************************************************************)
EXTENDS FiniteSets

CONSTANTS
    Member,     \* the nodes
    Meshes      \* [links: set of pairs, parent: node -> node, leaver: node,
                \* brisk: BOOLEAN]; the root is its own parent, the leaver a
                \* leaf of the tree

VARIABLES
    mesh,       \* the mesh of this behaviour
    cuckoo,     \* cuckoo[n][p]: the filter n holds of peer p
    gossip,     \* gossip[p][n]: filters sent by p, not yet handled by n
    left        \* the neighbours that have removed the leaver

gossip_vars == <<mesh, cuckoo, gossip, left>>

Linked(n) == {p \in Member : {n, p} \in mesh.links}

Gone == left # {}

(* n's peer table: the leaver is in it until n has noticed.                *)
PeersOf(n) ==
    IF n = mesh.leaver /\ Gone THEN {}
    ELSE {p \in Linked(n) : ~(p = mesh.leaver /\ n \in left)}

Empty == [p \in Member |-> {}]

GossipInit ==
    /\ mesh \in Meshes
    /\ cuckoo = [n \in Member |-> Empty]
    /\ gossip = [n \in Member |-> Empty]
    /\ left = {}

Alone(n) == n = mesh.parent[n]

merged_M(n) == {n} \cup UNION {cuckoo[n][p] : p \in PeersOf(n)}

merged(n) == {n} \cup UNION {cuckoo[n][p] : p \in PeersOf(n) \ {mesh.parent[n]}}

full_merged(n) == merged(n) \cup (IF Alone(n) THEN {} ELSE cuckoo[n][mesh.parent[n]])

(* A tick is a second: the filters of one are handled before the next, on  *)
(* a brisk mesh even before another node's tick.                           *)
cuckoo_do_maintenance(n) ==
    /\ \A m \in Member : m = n \/ mesh.brisk => gossip[m] = Empty
    /\ gossip' = [gossip EXCEPT ![n] =
          [p \in Member |-> IF p \notin PeersOf(n) THEN {}
                            ELSE IF p = mesh.parent[n] THEN merged(n)
                            ELSE full_merged(n)]]
    /\ UNCHANGED <<mesh, cuckoo, left>>

handle_cuckoo_M(n, p) ==
    /\ gossip[p][n] # {}
    /\ gossip' = [gossip EXCEPT ![p][n] = {}]
    /\ cuckoo' = IF p \in PeersOf(n)
                 THEN [cuckoo EXCEPT ![n][p] = @ \cup gossip[p][n]] ELSE cuckoo
    /\ UNCHANGED <<mesh, left>>

(* The new filter replaces the old one.                                    *)
handle_cuckoo(n, p) ==
    /\ gossip[p][n] # {}
    /\ gossip' = [gossip EXCEPT ![p][n] = {}]
    /\ cuckoo' = IF p \in PeersOf(n) THEN [cuckoo EXCEPT ![n][p] = gossip[p][n]] ELSE cuckoo
    /\ UNCHANGED <<mesh, left>>

(* The leaver stops; each neighbour notices in its own time and drops the  *)
(* peer with its filter.                                                   *)
remove_peer(n) ==
    /\ n \in Linked(mesh.leaver) \ left
    /\ left' = left \cup {n}
    /\ cuckoo' = [cuckoo EXCEPT ![n][mesh.leaver] = {}]
    /\ gossip' = [gossip EXCEPT ![mesh.leaver][n] = {}, ![n][mesh.leaver] = {}]
    /\ UNCHANGED mesh

GossipNext ==
    \E n \in Member :
        \/ cuckoo_do_maintenance(n)
        \/ \E p \in Member : handle_cuckoo(n, p)
        \/ remove_peer(n)

(* Maintenance ticks for ever, frames on live links arrive, and a closed   *)
(* link is noticed.                                                        *)
GossipFairness ==
    \A n \in Member :
        /\ WF_gossip_vars(cuckoo_do_maintenance(n))
        /\ \A p \in Member : WF_gossip_vars(handle_cuckoo(n, p))
        /\ WF_gossip_vars(remove_peer(n))

GossipSpec == GossipInit /\ [][GossipNext]_gossip_vars /\ GossipFairness

-----------------------------------------------------------------------------
(* Properties.                                                             *)

(* The nodes of the mesh that stay.                                        *)
Stay == DOMAIN mesh.parent \ {mesh.leaver}

(* n and what is below it: the nodes in every set that holds n and, with a *)
(* node, its children.                                                     *)
Subtree(n) ==
    {m \in DOMAIN mesh.parent : \A S \in SUBSET DOMAIN mesh.parent :
        n \in S /\ (\A x \in DOMAIN mesh.parent : mesh.parent[x] \in S => x \in S) => m \in S}

(* On a mesh without links outside the tree, what a node holds of its      *)
(* child never names a node outside the child's subtree: tags do not come  *)
(* back up the tree, so only the parent's filter can be an echo (merged in *)
(* cuckoo_do_maintenance).                                                 *)
ChildFiltersHonest ==
    \A n \in Member : \A c \in PeersOf(n) :
        mesh.parent[c] = n /\ c # n => cuckoo[n][c] \subseteq Subtree(c)

Claimed(n, m) == \E p \in PeersOf(n) : m \in cuckoo[n][p]

Routable ==
    \A n \in Stay : (\A m \in Stay \ {n} : Claimed(n, m)) /\ ~Claimed(n, mesh.leaver)

(* On a tree without further links, once a leaf has left, in the end and   *)
(* from then on every node has a claimer for every other node and none for *)
(* the one that left.                                                      *)
GossipSettles == <>[]Routable
=============================================================================
