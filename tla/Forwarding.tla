----------------------------- MODULE Forwarding -----------------------------
(***************************************************************************)
(* How frames find their way across a settled mesh, from one node (src) to *)
(* another (dst), on the filters of CuckooGossip: a sender's lookup, the   *)
(* transit part of handle_traffic (greedy toward a stamped coordinate,     *)
(* cuckoo claims as fallback, the hop limit), the negative cache and       *)
(* PathNegative, and PathLookup, PathNotify and HolePunch.                 *)
(*                                                                         *)
(* A coordinate is its distance from dst's.  Which of several strictly     *)
(* closer neighbours is taken depends on trust and is left open, except    *)
(* that a neighbour at distance zero beats all.  Costs include trust and   *)
(* are fixed; equal costs are decided by a hash map's order, so either     *)
(* may win.                                                                *)
(***************************************************************************)
EXTENDS CuckooGossip, Naturals

CONSTANTS
    Scenes,     \* sets of [mesh, filters, src, dst: where frames go and what the
                \* filters say; cost: node -> peer -> number; dist: node ->
                \* distance; near: node -> {the XOR-closest peer to dst};
                \* stamped: src knows dst's coordinate; seeks: src sends lookups
                \* and punches holes, otherwise traffic]
    MAX_FORWARD_HOPS, PATH_NEG_INITIAL_TTL, MAX_PENDING_LOOKUPS,
    MaxForget, MaxMoves, MaxLookups, MaxDist    \* bounds of the exploration

ASSUME SceneAssumption ==
    /\ \A sc \in Scenes : sc.src \in Member /\ sc.dist \in [Member -> Nat]
    /\ {MAX_FORWARD_HOPS, PATH_NEG_INITIAL_TTL} \subseteq Nat

VARIABLES
    scene,
    frames,             \* frames under way
    own_coord,          \* own_coord[n]: the distance n computes for itself
    coord_table,        \* coord_table[n][p]: the distance n has on file for peer p
    converging,         \* convergence_active at every node
    path_negative_cache,    \* path_negative_cache[n]: peers under a PathNegative
    pending_lookups,    \* pending_lookups[n]: ids seen
    delivered, punched,
    forgets, moves, ids     \* counters for the bounds

own_vars == <<frames, own_coord, coord_table, converging, path_negative_cache,
              pending_lookups, delivered, punched, forgets, moves, ids>>
forward_vars == <<scene, own_vars, gossip_vars>>

ForwardInit ==
    /\ scene \in Scenes
    /\ mesh = scene.mesh
    /\ cuckoo = scene.filters
    /\ gossip = [n \in Member |-> Empty]
    /\ left = IF mesh.leaver = scene.dst THEN Linked(mesh.leaver) ELSE {}
    /\ frames = {}
    /\ own_coord = scene.dist
    /\ coord_table = [n \in Member |-> scene.dist]
    /\ converging \in BOOLEAN
    /\ path_negative_cache = [n \in Member |-> {}]
    /\ pending_lookups = [n \in Member |-> {}]
    /\ delivered = FALSE
    /\ punched = FALSE
    /\ forgets = 0 /\ moves = 0 /\ ids = 0

Frame(type, n, p) ==
    [type |-> type, from |-> n, to |-> p, hops |-> 0, trail |-> {}, id |-> 0]

Types(ts) == {f \in frames : f.type \in ts}

-----------------------------------------------------------------------------
(* Choice of the next hop: the set of hops that may be taken.              *)

Closer_M(d, own) == d <= own

Closer(d, own) == d < own

greedy_next_hop(n, exclude) ==
    LET closer == {p \in PeersOf(n) \ exclude : Closer(coord_table[n][p], own_coord[n])}
        there == {p \in closer : coord_table[n][p] = 0}
    IN  IF there # {} THEN there ELSE closer

Claimers(n, x) == {p \in PeersOf(n) : x \in cuckoo[n][p]}

Cheapest(n, S) == {p \in S : \A q \in S : scene.cost[n][p] <= scene.cost[n][q]}

Preferred_M(n, S) == S

(* The claimers that are not under a PathNegative, if there are any.       *)
Preferred(n, S) ==
    IF S \ path_negative_cache[n] = {} THEN S ELSE S \ path_negative_cache[n]

lookup_by_tag_excluding(n, from) ==
    Cheapest(n, Preferred(n, Claimers(n, scene.dst) \ {from}))

(* Coordinates are known of neighbours, and of dst at src after a session. *)
KnowsDst(n) == scene.dst \in PeersOf(n) \/ (n = scene.src /\ scene.stamped)

lookup(n, x) ==
    LET greedy == IF x = scene.dst
                  THEN IF KnowsDst(n) THEN greedy_next_hop(n, {}) ELSE {}
                  ELSE PeersOf(n) \cap {x}
    IN  CASE greedy # {} -> greedy
          [] greedy = {} /\ Claimers(n, x) # {} -> Cheapest(n, Claimers(n, x))
          [] OTHER -> scene.near[n] \cap PeersOf(n)

-----------------------------------------------------------------------------
(* Traffic and PathNegative.                                               *)

(* A sender that hears nothing tries again; it always looks the route up   *)
(* by itself, without the negative cache.                                  *)
send_traffic_to ==
    /\ ~scene.seeks
    /\ Types({"Traffic", "PathNegative"}) = {}
    /\ ~delivered
    /\ \E h \in lookup(scene.src, scene.dst) :
          frames' = frames \cup {Frame("Traffic", scene.src, h)}
    /\ UNCHANGED <<scene, gossip_vars, own_coord, coord_table, converging,
                   path_negative_cache, pending_lookups, delivered, punched,
                   forgets, moves, ids>>

Negative(n, p, ttl) ==
    IF ttl = 0 THEN {} ELSE {[Frame("PathNegative", n, p) EXCEPT !.hops = ttl]}

Passed_M(f, h, greedy) ==
    (frames \ {f}) \cup
    {[f EXCEPT !.from = f.to, !.to = h,
               !.trail = IF greedy THEN @ \cup {f.to} ELSE {}]}

(* Frames after n has passed f on to h; a run of greedy hops leaves a      *)
(* trail.                                                                  *)
Passed(f, h, greedy) ==
    (frames \ {f}) \cup
    {[f EXCEPT !.from = f.to, !.to = h, !.hops = @ + 1,
               !.trail = IF greedy THEN @ \cup {f.to} ELSE {}]}

Spent(f) == f.hops >= MAX_FORWARD_HOPS

handle_traffic(f) ==
    LET n == f.to
        greedy == IF scene.stamped THEN greedy_next_hop(n, {f.from}) ELSE {}
        claim == lookup_by_tag_excluding(n, f.from)
        no_route == greedy = {} /\ claim = {}
    IN  /\ f.type = "Traffic"
        /\ \/ n = scene.dst /\ frames' = frames \ {f}
           \/ /\ n # scene.dst /\ Spent(f)
              /\ frames' = (frames \ {f}) \cup Negative(n, f.from, PATH_NEG_INITIAL_TTL)
           \/ /\ n # scene.dst /\ ~Spent(f)
              /\ \E h \in greedy : frames' = Passed(f, h, TRUE)
           \/ /\ n # scene.dst /\ ~Spent(f) /\ greedy = {}
              /\ \E h \in claim : frames' = Passed(f, h, FALSE)
           \/ /\ n # scene.dst /\ ~Spent(f) /\ no_route
              /\ frames' = (frames \ {f}) \cup
                    (IF converging THEN {} ELSE Negative(n, f.from, PATH_NEG_INITIAL_TTL))
        /\ delivered' = (delivered \/ n = scene.dst)
        /\ UNCHANGED <<scene, gossip_vars, own_coord, coord_table, converging,
                       path_negative_cache, pending_lookups, punched, forgets, moves, ids>>

(* The cache entry is made first, so the hint is not sent on to its origin *)
(* and prefers claimers that are in good standing.                         *)
handle_path_negative(f) ==
    LET n == f.to
        cache == [path_negative_cache EXCEPT ![n] = @ \cup {f.from}]
        C == Claimers(n, scene.dst) \ {f.from}
        on == IF C \ cache[n] = {} THEN Cheapest(n, C) ELSE Cheapest(n, C \ cache[n])
    IN  /\ f.type = "PathNegative"
        /\ path_negative_cache' = cache
        /\ \/ /\ f.hops > 1
              /\ \E h \in on : frames' = (frames \ {f}) \cup Negative(n, h, f.hops - 1)
           \/ /\ f.hops <= 1 \/ on = {}
              /\ frames' = frames \ {f}
        /\ UNCHANGED <<scene, gossip_vars, own_coord, coord_table, converging,
                       pending_lookups, delivered, punched, forgets, moves, ids>>

(* An entry ages out, or gives way to one of another tag when the cache is *)
(* full (cleanup_path_negative_cache, record_path_negative).               *)
Forget(n, p) ==
    /\ forgets < MaxForget
    /\ p \in path_negative_cache[n]
    /\ path_negative_cache' = [path_negative_cache EXCEPT ![n] = @ \ {p}]
    /\ forgets' = forgets + 1
    /\ UNCHANGED <<scene, gossip_vars, frames, own_coord, coord_table, converging,
                   pending_lookups, delivered, punched, moves, ids>>

(* The grace window closes a few ticks after the last change near by, and  *)
(* a change opens it again; nothing says that it closes for good.          *)
ConvergenceTurns ==
    /\ converging' = ~converging
    /\ UNCHANGED <<scene, gossip_vars, frames, own_coord, coord_table,
                   path_negative_cache, pending_lookups, delivered, punched,
                   forgets, moves, ids>>

-----------------------------------------------------------------------------
(* Coordinates.                                                            *)

(* The tree moves under n; its neighbours hear of it later.                *)
update_own_coord(n, d) ==
    /\ scene.stamped /\ moves < MaxMoves
    /\ n # scene.dst
    /\ d # own_coord[n]
    /\ own_coord' = [own_coord EXCEPT ![n] = d]
    /\ coord_table' = [coord_table EXCEPT ![n][n] = d]
    /\ moves' = moves + 1
    /\ UNCHANGED <<scene, gossip_vars, frames, converging, path_negative_cache,
                   pending_lookups, delivered, punched, forgets, ids>>

(* broadcast_coord reaches neighbour p.  An honest announce passes both    *)
(* consistency checks, and the table has room for neighbours.              *)
handle_coord_announce(n, p) ==
    /\ n \in PeersOf(p)
    /\ coord_table[p][n] # own_coord[n]
    /\ coord_table' = [coord_table EXCEPT ![p][n] = own_coord[n]]
    /\ UNCHANGED <<scene, gossip_vars, frames, own_coord, converging,
                   path_negative_cache, pending_lookups, delivered, punched,
                   forgets, moves, ids>>

-----------------------------------------------------------------------------
(* PathLookup, PathNotify and HolePunch.                                   *)

LookupFrame(n, p, id) == [Frame("PathLookup", n, p) EXCEPT !.id = id]

send_lookup ==
    /\ scene.seeks /\ ids < MaxLookups
    /\ ids' = ids + 1
    /\ frames' = frames \cup {LookupFrame(scene.src, p, ids + 1) : p \in PeersOf(scene.src)}
    /\ UNCHANGED <<scene, gossip_vars, own_coord, coord_table, converging,
                   path_negative_cache, pending_lookups, delivered, punched,
                   forgets, moves>>

(* Itself, with more than two peers, and peers at depth 0 or 1.            *)
landmarks(n) ==
    (IF Cardinality(PeersOf(n)) > 2 THEN {n} ELSE {}) \cup
    {p \in PeersOf(n) : Alone(mesh.parent[p])}

(* Where a node that is not the target sends a lookup it has not seen: to  *)
(* the cheapest claimer, even the one it came from; else to landmarks, or  *)
(* to everybody else if it knows none.                                     *)
LookupHops(n, from) ==
    LET C == Cheapest(n, Claimers(n, scene.dst))
    IN  CASE C # {} -> {{p} : p \in C}
          [] C = {} /\ landmarks(n) # {} -> {(landmarks(n) \ {from}) \cap PeersOf(n)}
          [] OTHER -> {PeersOf(n) \ {from}}

Known(n, id) == id \in pending_lookups[n]

handle_path_lookup(f) ==
    LET n == f.to
        full == Cardinality(pending_lookups[n]) >= MAX_PENDING_LOOKUPS
    IN  /\ f.type = "PathLookup"
        /\ \/ /\ Known(n, f.id) \/ full
              /\ frames' = frames \ {f}
              /\ UNCHANGED pending_lookups
           \/ /\ ~Known(n, f.id) /\ ~full
              /\ pending_lookups' = [pending_lookups EXCEPT ![n] = @ \cup {f.id}]
              /\ \/ /\ n = scene.dst
                    /\ frames' = (frames \ {f}) \cup {Frame("PathNotify", n, f.from)}
                 \/ /\ n # scene.dst
                    /\ \E H \in LookupHops(n, f.from) :
                          frames' = (frames \ {f}) \cup {LookupFrame(n, p, f.id) : p \in H}
        /\ UNCHANGED <<scene, gossip_vars, own_coord, coord_table, converging,
                       path_negative_cache, delivered, punched, forgets, moves, ids>>

(* cleanup_stale_lookups: ten seconds outlast any lookup under way.        *)
cleanup_stale_lookups(n) ==
    /\ pending_lookups[n] # {}
    /\ Types({"PathLookup"}) = {}
    /\ pending_lookups' = [pending_lookups EXCEPT ![n] = {}]
    /\ UNCHANGED <<scene, gossip_vars, frames, own_coord, coord_table, converging,
                   path_negative_cache, delivered, punched, forgets, moves, ids>>

(* f goes to x by lookup; nothing counts its hops or excludes the sender.  *)
Relayed(f, x) ==
    \/ /\ f.to # x
       /\ \E h \in lookup(f.to, x) :
             frames' = (frames \ {f}) \cup {[f EXCEPT !.from = f.to, !.to = h]}
    \/ /\ f.to = x \/ lookup(f.to, x) = {}
       /\ frames' = frames \ {f}

(* handle_path_broken does the same with a frame that nothing sends.       *)
handle_path_notify(f) ==
    /\ f.type = "PathNotify"
    /\ Relayed(f, scene.src)
    /\ UNCHANGED <<scene, gossip_vars, own_coord, coord_table, converging,
                   path_negative_cache, pending_lookups, delivered, punched,
                   forgets, moves, ids>>

send_hole_punch(rendezvous) ==
    /\ scene.seeks /\ ~punched /\ Types({"HolePunch"}) = {}
    /\ rendezvous \in PeersOf(scene.src)
    /\ frames' = frames \cup {Frame("HolePunch", scene.src, rendezvous)}
    /\ punched' = TRUE
    /\ UNCHANGED <<scene, gossip_vars, own_coord, coord_table, converging,
                   path_negative_cache, pending_lookups, delivered, forgets, moves, ids>>

(* A frame older than a minute is dropped, otherwise it is relayed.        *)
handle_hole_punch(f) ==
    /\ f.type = "HolePunch"
    /\ Relayed(f, scene.dst) \/ frames' = frames \ {f}
    /\ UNCHANGED <<scene, gossip_vars, own_coord, coord_table, converging,
                   path_negative_cache, pending_lookups, delivered, punched,
                   forgets, moves, ids>>

Handle(f) ==
    \/ handle_traffic(f)
    \/ handle_path_negative(f)
    \/ handle_path_lookup(f)
    \/ handle_path_notify(f)
    \/ handle_hole_punch(f)

ForwardNext ==
    \/ send_traffic_to
    \/ send_lookup
    \/ ConvergenceTurns
    \/ \E f \in frames : Handle(f)
    \/ \E n \in Member :
        \/ cleanup_stale_lookups(n)
        \/ send_hole_punch(n)
        \/ \E d \in 1 .. MaxDist : update_own_coord(n, d)
        \/ \E p \in Member : Forget(n, p) \/ handle_coord_announce(n, p)

Deliver(types) == \E f \in Types(types) : Handle(f)

(* Links deliver, the sender retries, announces arrive.                    *)
ForwardFairness ==
    /\ WF_forward_vars(send_traffic_to)
    /\ WF_forward_vars(Deliver({"Traffic", "PathNegative"}))
    /\ WF_forward_vars(Deliver({"PathLookup"}))
    /\ WF_forward_vars(Deliver({"PathNotify"}))
    /\ WF_forward_vars(\E n, p \in Member : handle_coord_announce(n, p))

ForwardSpec == ForwardInit /\ [][ForwardNext]_forward_vars /\ ForwardFairness

-----------------------------------------------------------------------------
(* Properties.                                                             *)

(* "a packet cannot cycle through greedy hops" (greedy_next_hop): while    *)
(* the coordinates on file are the true ones, no node is met twice by an   *)
(* unbroken run of greedy hops.                                            *)
GreedyNeverReturns ==
    moves = 0 => \A f \in Types({"Traffic"}) : f.to \notin f.trail

(* Whatever the filters and coordinates say, stale ones included, traffic  *)
(* and the hints and lookups it causes come to an end (the hop limit of    *)
(* handle_traffic, the ttl of PathNegative, the seen ids of PathLookup).   *)
FramesEnd == []<>(Types({"Traffic", "PathNegative", "PathLookup"}) = {})

(* Nodes to which a neighbour may send a frame for dst on the strength of  *)
(* a claim, and which have no other neighbour to send it on to.            *)
DeadEnds ==
    {n \in Member \ {scene.dst} :
        \E m \in Member : n \in Claimers(m, scene.dst) /\ Claimers(n, scene.dst) \subseteq {m}}

(* A sender behind transit nodes that retries gets through to a node that  *)
(* is there: by geometry that fits the tree; by claims alone where false   *)
(* ones go round in a cycle, since the node at which the hop limit strikes *)
(* says so by PathNegative at any time, the nodes on the way then take     *)
(* another claimer, and an entry never shuts the only way                  *)
(* (lookup_by_tag_excluding, handle_path_negative).  A false claim that    *)
(* ends in a node without a route is only found out while no grace window  *)
(* is open there (handle_traffic), so for those the window has to close    *)
(* for good, which BacksOff of SpanningTree shows not to be sure.          *)
RetriesArrive ==
    /\ scene.dst # mesh.leaver /\ ~scene.seeks
    /\ scene.stamped \/ DeadEnds = {} \/ <>[]~converging
    => <>(delivered \/ moves > 0)
=============================================================================
