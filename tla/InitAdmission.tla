--------------------------- MODULE InitAdmission ---------------------------
(***************************************************************************)
(* What stands before handle_init's key exchange (session.rs): the rate    *)
(* limit per claimed source with its bounded table, the time window and    *)
(* signature of the SessionInit, and the pinned ML-DSA key.  One responder *)
(* receives the SessionInits of many sources.  Honest ones send one, and   *)
(* retransmit it with doubling intervals until an Ack arrives; the mesh    *)
(* delays and loses both.  The others send at any time.                    *)
(***************************************************************************)
EXTENDS Naturals, Sequences, FiniteSets

CONSTANTS
    Honest, Other,          \* the sources
    Scenarios,              \* which sources are active together
    WINDOW,                 \* INIT_RATE_WINDOW, seconds
    MAX_INITS,              \* MAX_INITS_PER_WINDOW
    LOG_ENTRIES,            \* MAX_INIT_RATE_LOG_ENTRIES
    PINS,                   \* MAX_PQ_PINS
    TIME_WINDOW,            \* HANDSHAKE_TIME_WINDOW_MS, seconds
    RETX_BASE, RETX_MAX,    \* backoff of pending_handshake_inits, seconds
    MaxDelay,               \* how long an honest SessionInit is under way
    MaxTime, MaxOtherTime,  \* bounds: seconds with only honest sources, and else
    MaxOther                \* bound: SessionInits of the others

Source == Honest \cup Other

ASSUME AdmissionAssumption ==
    /\ WINDOW \in Nat /\ MAX_INITS \in Nat \ {0} /\ LOG_ENTRIES \in Nat \ {0}
    /\ Honest \cap Other = {}      \* nobody sends in an honest source's name

VARIABLES
    active,         \* the sources of this behaviour
    now,            \* seconds
    pending,        \* pending[s]: s's SessionInfo as initiator
    wire,           \* SessionInits of honest sources under way
    init_rate_log,  \* times of counted inits, for the sources in the table
    counted,        \* counted[s]: the times at which s passed the rate limit
    refused,        \* refused[s]: why inits of s were refused so far
    pq_pins,        \* the sources whose ML-DSA key is pinned
    others          \* how many inits the others sent

admission_vars == <<active, now, pending, wire, init_rate_log, counted, refused, pq_pins, others>>

AdmissionInit ==
    /\ active \in Scenarios
    /\ now = 0
    /\ pending = [s \in Honest |-> [phase |-> "none", last |-> 0, count |-> 0]]
    /\ wire = {}
    /\ init_rate_log = [s \in {} |-> <<>>]
    /\ counted = [s \in Source |-> <<>>]
    /\ refused = [s \in Source |-> {}]
    /\ pq_pins = {}
    /\ others = 0

-----------------------------------------------------------------------------
(* The initiator.                                                          *)

initiate(s) ==
    /\ pending[s].phase = "none"
    /\ pending' = [pending EXCEPT ![s] = [phase |-> "sent", last |-> now, count |-> 0]]
    /\ wire' = wire \cup {[from |-> s, sent |-> now]}
    /\ UNCHANGED <<active, now, init_rate_log, counted, refused, pq_pins, others>>

interval_M(count) == RETX_BASE

(* HANDSHAKE_RETX_BASE_MS << count, at most HANDSHAKE_RETX_MAX_MS.         *)
interval(count) ==
    LET doubled == RETX_BASE * 2 ^ (IF count < 5 THEN count ELSE 5)
    IN  IF doubled < RETX_MAX THEN doubled ELSE RETX_MAX

(* The maintenance tick runs every second, so a due init is sent at once.  *)
Due(s) == pending[s].phase = "sent" /\ now - pending[s].last >= interval(pending[s].count)

pending_handshake_inits(s) ==
    /\ Due(s)
    /\ pending' = [pending EXCEPT ![s].last = now, ![s].count = @ + 1]
    /\ wire' = wire \cup {[from |-> s, sent |-> now]}
    /\ UNCHANGED <<active, now, init_rate_log, counted, refused, pq_pins, others>>

Lose(m) ==
    /\ wire' = wire \ {m}
    /\ UNCHANGED <<active, now, pending, init_rate_log, counted, refused, pq_pins, others>>

Tick ==
    /\ now < (IF active \subseteq Honest THEN MaxTime ELSE MaxOtherTime)
    /\ \A s \in Honest : ~Due(s)
    /\ \A m \in wire : now - m.sent < MaxDelay
    /\ now' = now + 1
    /\ UNCHANGED <<active, pending, wire, init_rate_log, counted, refused, pq_pins, others>>

-----------------------------------------------------------------------------
(* The responder.                                                          *)

(* t >= cutoff; checked_sub succeeds.                                      *)
Recent(t) == t + WINDOW >= now

(* Table entries an init of s may displace: those with an empty window.    *)
Dormant ==
    {v \in DOMAIN init_rate_log :
        \A i \in DOMAIN init_rate_log[v] : ~Recent(init_rate_log[v][i])}

TableFull(s) ==
    s \notin DOMAIN init_rate_log /\ Cardinality(DOMAIN init_rate_log) >= LOG_ENTRIES

(* The table without the entry that makes room for s.                      *)
Kept(victim) ==
    [v \in DOMAIN init_rate_log \ victim |-> init_rate_log[v]]

Victims_M(s) ==
    IF TableFull(s) THEN {{v} : v \in DOMAIN init_rate_log} ELSE {{}}

Victims(s) ==
    IF TableFull(s) THEN {{v} : v \in Dormant} ELSE {{}}

(* The table entry of s, empty if there is none (entry().or_default()).    *)
Logged(s) == IF s \in DOMAIN init_rate_log THEN init_rate_log[s] ELSE <<>>

(* entry.retain, before the count is compared.  Times are logged in their  *)
(* order, so those that it drops come first.                               *)
Retained(s) ==
    LET log == Logged(s)
        Old == {i \in DOMAIN log : ~Recent(log[i])}
    IN  SubSeq(log, Cardinality(Old) + 1, Len(log))

With(log, s, entry) ==
    [v \in DOMAIN log \cup {s} |-> IF v = s THEN entry ELSE log[v]]

(* rate_limited answers true.                                              *)
Limited(s) ==
    \/ /\ Victims(s) = {}
       /\ refused' = [refused EXCEPT ![s] = @ \cup {"table"}]
       /\ UNCHANGED init_rate_log
    \/ /\ Victims(s) # {}
       /\ Len(Retained(s)) >= MAX_INITS
       /\ refused' = [refused EXCEPT ![s] = @ \cup {"quota"}]
       /\ init_rate_log' = With(init_rate_log, s, Retained(s))

(* rate_limited answers false: the attempt is counted, whatever follows.   *)
Counted(s) ==
    /\ Len(Retained(s)) < MAX_INITS
    /\ \E victim \in Victims(s) :
            init_rate_log' = With(Kept(victim), s, Append(Retained(s), now))
    /\ counted' = [counted EXCEPT ![s] = Append(@, now)]

(* pq_verify_and_pin on first contact; a full table loses any pin.         *)
Pin(s) ==
    \/ s \in pq_pins /\ UNCHANGED pq_pins
    \/ /\ s \notin pq_pins /\ Cardinality(pq_pins) < PINS
       /\ pq_pins' = pq_pins \cup {s}
    \/ /\ s \notin pq_pins /\ Cardinality(pq_pins) >= PINS
       /\ \E victim \in pq_pins : pq_pins' = (pq_pins \ {victim}) \cup {s}

(* An honest init arrives.  Its signatures verify and its key is the one   *)
(* pinned; it is refused if it was too long under way.  The Ack may be     *)
(* lost, then the initiator keeps retransmitting.                          *)
handle_init(m) ==
    LET s == m.from
    IN  /\ wire' = wire \ {m}
        /\ \/ Limited(s) /\ UNCHANGED <<pending, counted, pq_pins>>
           \/ /\ Counted(s)
              /\ now - m.sent > TIME_WINDOW
              /\ refused' = [refused EXCEPT ![s] = @ \cup {"time"}]
              /\ UNCHANGED <<pending, pq_pins>>
           \/ /\ Counted(s)
              /\ now - m.sent <= TIME_WINDOW
              /\ Pin(s)
              /\ \/ pending' = [pending EXCEPT ![s].phase = "established"]
                 \/ UNCHANGED pending
              /\ UNCHANGED refused
        /\ UNCHANGED <<active, now, others>>

(* An init of another source, valid or not.                                *)
handle_init_other(s, valid) ==
    /\ others < MaxOther
    /\ others' = others + 1
    /\ \/ Limited(s) /\ UNCHANGED <<counted, pq_pins>>
       \/ /\ Counted(s)
          /\ \/ valid /\ Pin(s) /\ UNCHANGED refused
             \/ /\ ~valid /\ UNCHANGED pq_pins
                /\ refused' = [refused EXCEPT ![s] = @ \cup {"invalid"}]
    /\ UNCHANGED <<active, now, pending, wire>>

AdmissionNext ==
    \/ \E s \in Honest \cap active : initiate(s) \/ pending_handshake_inits(s)
    \/ \E m \in wire : Lose(m) \/ handle_init(m)
    \/ \E s \in Other \cap active, valid \in BOOLEAN : handle_init_other(s, valid)
    \/ Tick

AdmissionSpec == AdmissionInit /\ [][AdmissionNext]_admission_vars

-----------------------------------------------------------------------------
(* Properties.                                                             *)

(* No source passes the limit more than MAX_INITS_PER_WINDOW times in any  *)
(* INIT_RATE_WINDOW, also when entries are evicted from the full table and *)
(* come back (rate_limited).                                               *)
QuotaHeld ==
    \A s \in Source : \A i \in 1 .. Len(counted[s]) - MAX_INITS :
        counted[s][i + MAX_INITS] - counted[s][i] > WINDOW

(* The doubling intervals keep a node's own retransmissions under the      *)
(* receiver's quota, with delays of a few seconds on the way: "The         *)
(* doubling also keeps a node's own retransmits under the receiver's       *)
(* per-source init rate limit" (session.rs).                               *)
HonestWithinQuota == \A s \in Honest : "quota" \notin refused[s]
=============================================================================
