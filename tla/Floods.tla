------------------------------- MODULE Floods -------------------------------
(***************************************************************************)
(* The three floods of the router: onion keys (router/mod.rs), capability  *)
(* announces (router/capabilities.rs) and reputation reports               *)
(* (router/reputation.rs).  An origin numbers its announces; a node takes  *)
(* and forwards one only if its number beats the one on file.              *)
(*                                                                         *)
(* All three keep a bounded table.  A subject <<origin, about>> is an      *)
(* entry and about its bucket: for onion keys and capabilities about is    *)
(* the origin, for a report it is the node reported on.  A full table      *)
(* gives up a bucket of a stranger to a new one, or turns the new one away *)
(* - which is then forwarded all the same.                                 *)
(*                                                                         *)
(* Signatures verify and announces arrive within their validity.           *)
(***************************************************************************)
EXTENDS Naturals, Sequences, FiniteSets, Functions

CONSTANTS
    Station,    \* the nodes
    Plans       \* [kind: which flood, links: set of pairs, subjects: set of
                \* subjects, cap: limit of the tables, restarts: the origins
                \* that may restart, max: bound of the sequence numbers]

(* A subject is an entry of a table, and an announce is on a subject of    *)
(* the plan: the origin itself, or each of its peers.                      *)
ASSUME FloodAssumption ==
    /\ IsFiniteSet(Station)
    /\ \A p \in Plans :
        /\ p.subjects \subseteq Station \X Station
        /\ IsFiniteSet(p.subjects)
        /\ p.cap \in Nat
        /\ p.kind \in {"onion key", "capabilities"} =>
              \A s \in p.subjects : <<s[1], s[1]>> \in p.subjects
        /\ p.kind = "reputation" =>
              \A s \in p.subjects, n \in Station :
                 {s[1], n} \in p.links => <<s[1], n>> \in p.subjects

VARIABLES
    plan,
    own_seq,    \* own_seq[o]: the origin's counter
    life,       \* life[o]: how often o has restarted; stands for its current key
    table,      \* table[n]: a set of [subject, seq, life]
    air,        \* announces under way: [to, from, subject, seq, life]
    passed_on,  \* [by, subject, seq, life] forwarded by a running node
    repeats     \* some node has forwarded the same announce twice

flood_vars == <<plan, own_seq, life, table, air, passed_on, repeats>>

FloodInit ==
    /\ plan \in Plans
    /\ own_seq = [o \in Station |-> 0]
    /\ life = [o \in Station |-> 0]
    /\ table = [n \in Station |-> {}]
    /\ air = {}
    /\ passed_on = {}
    /\ repeats = FALSE

(* The nodes whose announces this behaviour follows.                       *)
Origins == {subject[1] : subject \in plan.subjects}

Neighbours(n) == {p \in Station : {n, p} \in plan.links}

Entry(subject, seq, lf) == [subject |-> subject, seq |-> seq, life |-> lf]

On(n, subject) == {e \in table[n] : e.subject = subject}

put(t, e) == (t \ {x \in t : x.subject = e.subject}) \cup {e}

(* The tables that n's table t may become by recording e: victims are      *)
(* buckets about neither a peer nor n itself.                              *)
record(n, t, e) ==
    LET About(a) == {x \in t : x.subject[2] = a}
        full == Cardinality(t) >= plan.cap /\ About(e.subject[2]) = {}
        victims == {a \in Station \ ({n} \cup Neighbours(n)) : About(a) # {}}
    IN  IF ~full THEN {put(t, e)}
        ELSE IF victims = {} THEN {t}
        ELSE {put(t \ About(v), e) : v \in victims}

Send(n, e, targets) ==
    {[to |-> p, from |-> n, subject |-> e.subject, seq |-> e.seq, life |-> e.life] : p \in targets}

(* The origin numbers its announces on the subjects, one of tables becomes *)
(* its table, and every announce goes to all peers.                        *)
Announce(o, entries, tables) ==
    /\ own_seq[o] + Len(entries) <= plan.max
    /\ own_seq' = [own_seq EXCEPT ![o] = @ + Len(entries)]
    /\ \E t \in tables : table' = [table EXCEPT ![o] = t]
    /\ air' = air \cup UNION {Send(o, entries[i], Neighbours(o)) : i \in 1 .. Len(entries)}
    /\ UNCHANGED <<plan, life, passed_on, repeats>>

(* The own entry is inserted without regard to the limit.                  *)
AnnounceSelf(o) ==
    LET e == Entry(<<o, o>>, own_seq[o] + 1, life[o])
    IN  Announce(o, <<e>>, {put(table[o], e)})

broadcast_onion_key_announce(o) == plan.kind = "onion key" /\ AnnounceSelf(o)

broadcast_capabilities(o) == plan.kind = "capabilities" /\ AnnounceSelf(o)

(* The tables that recording the entries one after the other may leave.    *)
recorded(o, entries) ==
    LET tables[i \in 0 .. Len(entries)] ==
            IF i = 0 THEN {table[o]}
            ELSE UNION {record(o, t, entries[i]) : t \in tables[i - 1]}
    IN  tables[Len(entries)]

(* A report on each peer, in the order in which the peer table lists them. *)
Reports(o, order) ==
    [i \in 1 .. Len(order) |-> Entry(<<o, order[i]>>, own_seq[o] + i, life[o])]

broadcast_reputation(o) ==
    /\ plan.kind = "reputation"
    /\ \E order \in Injection(1 .. Cardinality(Neighbours(o)), Neighbours(o)) :
        Announce(o, Reports(o, order), recorded(o, Reports(o, order)))

Broadcast(o) ==
    \/ broadcast_onion_key_announce(o)
    \/ broadcast_capabilities(o)
    \/ broadcast_reputation(o)

is_newer_M(n, subject, seq) == \A e \in On(n, subject) : seq >= e.seq

is_newer_M2(n, subject, seq) == \A e \in On(n, subject) : seq # e.seq

is_newer(n, subject, seq) == \A e \in On(n, subject) : seq > e.seq

Drop(f) == air' = air \ {f} /\ UNCHANGED <<plan, own_seq, life, table, passed_on, repeats>>

(* A newer announce of another node is recorded, or not for want of room,  *)
(* and forwarded in either case to all peers but the one it came from.     *)
Accept(f) ==
    LET n == f.to
        e == Entry(f.subject, f.seq, f.life)
        pass == [by |-> n, subject |-> f.subject, seq |-> f.seq, life |-> f.life]
    IN  /\ f.subject[1] # n
        /\ is_newer(n, f.subject, f.seq)
        /\ \E t \in record(n, table[n], e) : table' = [table EXCEPT ![n] = t]
        /\ air' = (air \ {f}) \cup Send(n, e, Neighbours(n) \ {f.from})
        /\ passed_on' = passed_on \cup {pass}
        /\ repeats' = (repeats \/ pass \in passed_on)
        /\ UNCHANGED <<plan, own_seq, life>>

Stale(f) == f.subject[1] = f.to \/ ~is_newer(f.to, f.subject, f.seq)

handle_onion_key_announce(f) ==
    plan.kind = "onion key" /\ (Accept(f) \/ (Stale(f) /\ Drop(f)))

handle_capabilities(f) ==
    plan.kind = "capabilities" /\ (Accept(f) \/ (Stale(f) /\ Drop(f)))

(* A report on the observer itself is dropped too; nobody sends one.       *)
handle_reputation_report(f) ==
    /\ plan.kind = "reputation"
    /\ IF f.subject[1] = f.subject[2] THEN Drop(f) ELSE Accept(f) \/ (Stale(f) /\ Drop(f))

Handling(f) ==
    \/ handle_onion_key_announce(f)
    \/ handle_capabilities(f)
    \/ handle_reputation_report(f)

(* A restarted node has a new key, an empty table and a counter at zero.   *)
Restart(o) ==
    /\ o \in plan.restarts
    /\ life[o] = 0 /\ own_seq[o] \in 1 .. plan.max - 1
    /\ life' = [life EXCEPT ![o] = 1]
    /\ own_seq' = [own_seq EXCEPT ![o] = 0]
    /\ table' = [table EXCEPT ![o] = {}]
    /\ air' = {f \in air : f.to # o}
    /\ passed_on' = {p \in passed_on : p.by # o}
    /\ UNCHANGED <<plan, repeats>>

FloodNext ==
    \/ \E o \in Station : Restart(o) \/ (o \in Origins /\ Broadcast(o))
    \/ \E f \in air : Handling(f)

(* Announces are repeated by the maintenance tick and links deliver.       *)
FloodFairness ==
    /\ \A o \in Station : WF_flood_vars(o \in Origins /\ Broadcast(o))
    /\ WF_flood_vars(\E f \in air : Handling(f))

FloodSpec == FloodInit /\ [][FloodNext]_flood_vars

-----------------------------------------------------------------------------
(* Properties.                                                             *)

(* Every table has room for an entry on each subject.                      *)
Roomy(p) == Cardinality(p.subjects) <= p.cap

(* up leads from every node to o, along every link in one direction.       *)
Leads(p, o, up) ==
    /\ \A n, q \in Station : {n, q} \in p.links => up[n] = q \/ up[q] = n
    /\ \A q \in Station : {o, q} \in p.links => q # o /\ up[q] = o

(* The mesh around each origin is a tree, and nobody restarts.             *)
Branching(p) ==
    /\ p.restarts = {}
    /\ \A s \in p.subjects : \E up \in [Station -> Station] : Leads(p, s[1], up)

(* "each peer that's first-to-see for this (origin, seq) forwards onward"  *)
(* (broadcast_onion_key_announce): on a mesh with cycles while the tables  *)
(* have room, and on a tree also when they overflow, no running node       *)
(* forwards the same announce twice.                                       *)
ForwardsOnce == Roomy(plan) \/ Branching(plan) => ~repeats

(* Where the tables have room, everybody ends up with the origin's current *)
(* key, although a restarted origin counts from zero and its announces are *)
(* taken for old ones until they pass the number it had before.            *)
KeysAgree ==
    Cardinality(plan.subjects) <= plan.cap =>
        <>[](\A n \in Station : \A s \in plan.subjects :
                n # s[1] => \E e \in On(n, s) : e.life = life[s[1]])
=============================================================================
