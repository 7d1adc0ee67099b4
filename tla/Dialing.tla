------------------------------- MODULE Dialing -------------------------------
(***************************************************************************)
(* The dial tasks that one node keeps for one remote endpoint: configured  *)
(* and cached peers (node.rs), peers discovered by multicast               *)
(* (discovery.rs) and mDNS (mdns.rs), over TCP (transport.rs) or QUIC      *)
(* (quic.rs).  A task is at the top of its loop, in the wait of the        *)
(* tie-break, linked, asleep, or over.                                     *)
(*                                                                         *)
(* A connection attempt with its handshake and their timeouts is one step. *)
(* The lengths of the sleeps and the growth of the backoff are left out.   *)
(* The remote endpoint only listens; PeerLinks has the dials that cross.   *)
(***************************************************************************)
EXTENDS Naturals, Sequences, FiniteSets

CONSTANTS
    Outlooks,   \* [peers: a sequence of "tcp" and "quic", one per configured URI;
                \* cache: the records [by, last_seen] of the cache file, which
                \* has at most one per key and which nothing writes; starts: the
                \* times at which the node starts, with whether it can read and
                \* parse the file then, [now, legible]; finds: bound of the
                \* discovered dials; larger: our key sorts above the remote one;
                \* changes: bound of the changes of the remote end]
    DEFAULT_MAX_AGE,
    DISCOVERY_DIAL_MAX_ATTEMPTS,
    MAX_PARALLEL_LINKS_PER_PEER,
    MaxDials    \* at least the tasks of any outlook

ASSUME DialingAssumption ==
    /\ \A o \in Outlooks :
          /\ o.peers \in Seq({"tcp", "quic"})
          /\ o.cache \subseteq [by : {"tcp", "quic"}, last_seen : Nat]
          /\ o.starts \in Seq([now : Nat, legible : BOOLEAN]) /\ o.starts # <<>>
    /\ DEFAULT_MAX_AGE \in Nat
    /\ DISCOVERY_DIAL_MAX_ATTEMPTS \in Nat

VARIABLES
    outlook,
    far,        \* what an attempt meets: "down": no connection; "refused": it
                \* connects but the handshake fails or the key is too weak;
                \* "closed": QUIC connects but opens no stream; "up"
    dials,      \* the tasks, in the order of their creation: [by, at, attempts]
    shifts,     \* changes of far so far
    starts      \* starts of the node so far

dialing_vars == <<outlook, far, dials, shifts, starts>>

Task(by) == [by |-> by, at |-> "top", attempts |-> 0]

(* A missing or corrupt file is an empty cache, and records older than the *)
(* maximal age are left behind; the subtraction saturates.                 *)
PeerCache_load(cache, s) ==
    LET cutoff == IF s.now < DEFAULT_MAX_AGE THEN 0 ELSE s.now - DEFAULT_MAX_AGE
    IN  {rec \in cache : s.legible /\ rec.last_seen >= cutoff}

(* The tasks that the k-th start of the node spawns.                       *)
start(o, k) ==
    LET known == PeerCache_load(o.cache, o.starts[k])
        uris == o.peers \o (IF known = {} THEN <<>> ELSE <<(CHOOSE rec \in known : TRUE).by>>)
    IN  [i \in 1 .. Len(uris) |-> Task(uris[i])]

DialInit ==
    /\ outlook \in Outlooks
    /\ far \in {"down", "up"}
    /\ dials = start(outlook, 1)
    /\ shifts = 0
    /\ starts = 1

Alive == {i \in DOMAIN dials : dials[i].at # "over"}
InLink == {i \in DOMAIN dials : dials[i].at = "linked"}
connected == Cardinality(InLink)

Resume_at(i, at) == dials' = [dials EXCEPT ![i].at = at]

(* A discovered dial, the only bounded kind, has used up its attempts.     *)
Exhausted_M(task) == task.attempts >= DISCOVERY_DIAL_MAX_ATTEMPTS

Exhausted(task) == task.by = "found" /\ task.attempts >= DISCOVERY_DIAL_MAX_ATTEMPTS

More(attempts) == IF attempts < DISCOVERY_DIAL_MAX_ATTEMPTS THEN attempts + 1 ELSE attempts

Tried_M(task) == IF far = "down" THEN More(task.attempts) ELSE task.attempts

(* Every attempt counts, whatever comes of it; beyond the bound the number *)
(* makes no difference.                                                    *)
Tried(task) == More(task.attempts)

(* The cap is checked and the link taken.                                  *)
Admission == IF connected >= MAX_PARALLEL_LINKS_PER_PEER THEN "asleep" ELSE "linked"

(* One round of dial_inner up to its first long wait.                      *)
dial_inner(i) ==
    LET met == IF far # "up" THEN "asleep"
               ELSE IF outlook.larger THEN "yielding" ELSE Admission
    IN  /\ dials[i].by \in {"tcp", "found"}
        /\ dials[i].at = "top"
        /\ dials' = [dials EXCEPT ![i] =
              IF Exhausted(dials[i]) THEN [dials[i] EXCEPT !.at = "over"]
              ELSE [dials[i] EXCEPT !.at = met, !.attempts = Tried(dials[i])]]

(* The larger key has waited for a dial of the other side; any link, one   *)
(* of its own tasks' too, is taken for it.                                 *)
tie_break(i) ==
    /\ dials[i].at = "yielding"
    /\ Resume_at(i, IF connected > 0 THEN "yielded" ELSE Admission)

(* The socket of a yielded dial is dropped after its sleep.  The remote    *)
(* end, if it took it for one more link, removes the whole peer.           *)
DropYielded(i) ==
    /\ dials[i].at = "yielded"
    /\ \E ended \in {{}, InLink} :
        dials' = [j \in DOMAIN dials |->
            CASE j = i -> [dials[j] EXCEPT !.at = "top"]
              [] j \in ended -> [dials[j] EXCEPT !.at = "asleep", !.attempts = 0]
              [] OTHER -> dials[j]]

(* quic::dial with handle_one: no bound, no tie-break, and straight back   *)
(* to the top when no stream opens.                                        *)
quic_dial(i) ==
    /\ dials[i].by = "quic"
    /\ dials[i].at = "top"
    /\ Resume_at(i, CASE far = "up" -> Admission
                      [] far = "closed" -> "top"
                      [] OTHER -> "asleep")

(* handle_conn returns: the link is given up and the count of failures     *)
(* starts anew.                                                            *)
LinkEnds(i) ==
    /\ i \in InLink
    /\ dials' = [dials EXCEPT ![i].at = "asleep", ![i].attempts = 0]

Wake(i) == dials[i].at = "asleep" /\ Resume_at(i, "top")

Found == Cardinality({i \in DOMAIN dials : dials[i].by = "found"})

Spawn == Found < outlook.finds /\ dials' = Append(dials, Task("found"))

(* A beacon of a peer that is not in the peer table.                       *)
discovery_beacon == connected = 0 /\ Spawn

(* A resolved service whose key has no link.                               *)
mdns_handle_event == connected = 0 /\ Spawn

DialStep(i) ==
    \/ dial_inner(i)
    \/ tie_break(i)
    \/ DropYielded(i)
    \/ quic_dial(i)
    \/ Wake(i)

(* The remote end changes.                                                 *)
Shift ==
    /\ shifts < outlook.changes
    /\ shifts' = shifts + 1
    /\ far' \in {"down", "refused", "closed", "up"} \ {far}
    /\ UNCHANGED <<outlook, dials, starts>>

(* The node restarts with what its configuration and cache file hold then. *)
Reboot ==
    /\ starts < Len(outlook.starts)
    /\ starts' = starts + 1
    /\ dials' = start(outlook, starts + 1)
    /\ UNCHANGED <<outlook, far, shifts>>

DialNext ==
    \/ /\ \/ discovery_beacon
          \/ mdns_handle_event
          \/ \E i \in DOMAIN dials : DialStep(i) \/ LinkEnds(i)
       /\ UNCHANGED <<outlook, far, shifts, starts>>
    \/ Shift
    \/ Reboot

(* Sleeps end and attempts come to a result.                               *)
DialFairness ==
    \A i \in 1 .. MaxDials :
        WF_dialing_vars(i \in DOMAIN dials /\ DialStep(i)
                        /\ UNCHANGED <<outlook, far, shifts, starts>>)

DialSpec == DialInit /\ [][DialNext]_dialing_vars /\ DialFairness

-----------------------------------------------------------------------------
(* Properties.                                                             *)

(* "Unauthenticated mDNS / multicast beacons must not be able to spawn     *)
(* unbounded persistent dial tasks" (DISCOVERY_DIAL_MAX_ATTEMPTS): once    *)
(* the endpoint no longer authenticates, every discovered dial ends,       *)
(* whichever of the ways to fail it meets and however long it was linked.  *)
StrangersForgotten ==
    <>[](far # "up") => <>[](\A i \in Alive \ InLink : dials[i].by # "found")

Trusted == start(outlook, starts)

(* "keep trying to reach a known, trusted endpoint indefinitely" (dial):   *)
(* however long the endpoint was away or refused, whatever other tasks     *)
(* dial it and although the node restarts, a peer that is back is linked   *)
(* again and again if it is configured, or if the last start still found   *)
(* it in the cache.  Nothing renews a cached record, so a start that comes *)
(* more than DEFAULT_MAX_AGE after it was written, or cannot read the      *)
(* file, no longer dials that peer (load_with_max_age, Node::start).       *)
PersistentReaches ==
    <>[](Len(Trusted) > 0) /\ <>[](far = "up") => []<>(connected > 0)
=============================================================================
