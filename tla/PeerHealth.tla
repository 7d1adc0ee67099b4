----------------------------- MODULE PeerHealth -----------------------------
(***************************************************************************)
(* How a node judges one peer (router/mod.rs, router/handlers.rs): it      *)
(* sends a SigReq every KEEPALIVE_TICKS, measures the round trip from the  *)
(* SigRes, probes a route the peer claims, raises or lowers the peer's     *)
(* trust by the outcome, and drops a peer it has not heard for             *)
(* PEER_TIMEOUT.  Frames of one peer travel over several parallel links,   *)
(* so they overtake each other.                                            *)
(*                                                                         *)
(* do_maintenance runs under the router's lock and is one step here.       *)
(***************************************************************************)
EXTENDS Naturals, Sequences, FiniteSets

CONSTANTS
    KEEPALIVE_TICKS, PROBE_INTERVAL_TICKS,
    PEER_TIMEOUT, PROBE_TIMEOUT,        \* in ticks of one second
    TRUST_INITIAL, TRUST_MAX,           \* steps of a scale on which decay_trust
                                        \* halves and boost_trust adds one
    Delays,                             \* Delays[q]: the longest a frame is under
                                        \* way on a link of quality q
    MaxTicks                            \* bound of the exploration

ASSUME HealthAssumption ==
    /\ KEEPALIVE_TICKS \in Nat \ {0} /\ PROBE_INTERVAL_TICKS \in Nat \ {0}
    /\ PEER_TIMEOUT \in Nat /\ PROBE_TIMEOUT \in Nat
    /\ TRUST_INITIAL \in Nat /\ TRUST_MAX \in Nat /\ TRUST_INITIAL <= TRUST_MAX
    /\ \A q \in DOMAIN Delays : Delays[q] \in Nat

VARIABLES
    quality,        \* "good": no frame is lost; "bad": any may be
    tick,           \* the router's tick, also the clock
    listed,         \* the peer is in the peer table
    last_rx_time,
    sig_req_seq,
    pending_sig_req,    \* pending_sig_req_time: a set of at most one [seq, sent]
    asked,          \* asked[seq]: when request seq was really sent
    pending_probes, \* the ids of probes (their tick) not yet answered
    trust,
    sample,         \* the last round trip measured: [seq, rtt], rtt 0 if none
    frames          \* frames under way, either direction

health_vars == <<quality, tick, listed, last_rx_time, sig_req_seq, pending_sig_req,
                 asked, pending_probes, trust, sample, frames>>

HealthInit ==
    /\ quality \in DOMAIN Delays
    /\ tick = 0
    /\ listed = TRUE
    /\ last_rx_time = 0
    /\ sig_req_seq = 0
    /\ pending_sig_req = {}
    /\ asked = <<>>
    /\ pending_probes = {}
    /\ trust = TRUST_INITIAL
    /\ sample = [seq |-> 0, rtt |-> 0]
    /\ frames = {}

Frame(type, seq) == [type |-> type, seq |-> seq, sent |-> tick]

decay_trust(t) == IF t \div 2 > 1 THEN t \div 2 ELSE 1
boost_trust(t) == IF t < TRUST_MAX THEN t + 1 ELSE TRUST_MAX

Expired_M(t) == {id \in pending_probes : t - id < PROBE_TIMEOUT}

(* The probes that time out at a tick.                                   *)
Expired(t) == {id \in pending_probes : t - id > PROBE_TIMEOUT}

decays(n, t) ==
    IF n = 0 THEN t ELSE IF n = 1 THEN decay_trust(t) ELSE decay_trust(decay_trust(t))

(* send_keepalives at tick t: a request still unanswered counts as lost.   *)
send_keepalives(t) == t % KEEPALIVE_TICKS = 0

missed(t) == IF send_keepalives(t) /\ pending_sig_req # {} THEN 1 ELSE 0

probe_cuckoo_claim(t) == t % PROBE_INTERVAL_TICKS = 0

expire_peers(t) == t - last_rx_time > PEER_TIMEOUT

(* The part of the tick that concerns this peer.                           *)
do_maintenance ==
    LET t == tick + 1
        seq == sig_req_seq + 1
        new == (IF send_keepalives(t) THEN {[type |-> "SigReq", seq |-> seq, sent |-> t]} ELSE {})
               \cup (IF probe_cuckoo_claim(t)
                     THEN {[type |-> "PathLookup", seq |-> t, sent |-> t]} ELSE {})
    IN  /\ listed
        /\ tick < MaxTicks
        /\ \A f \in frames : tick - f.sent < Delays[quality]
        /\ tick' = t
        /\ \/ /\ expire_peers(t)
              /\ listed' = FALSE
              /\ frames' = {}
              /\ UNCHANGED <<sig_req_seq, pending_sig_req, asked, pending_probes, trust>>
           \/ /\ ~expire_peers(t)
              /\ frames' = frames \cup new
              /\ IF send_keepalives(t)
                 THEN /\ sig_req_seq' = seq
                      /\ pending_sig_req' = {[seq |-> seq, sent |-> t]}
                      /\ asked' = Append(asked, t)
                 ELSE UNCHANGED <<sig_req_seq, pending_sig_req, asked>>
              /\ trust' = decays(missed(t) + Cardinality(Expired(t)), trust)
              /\ pending_probes' = (pending_probes \ Expired(t))
                                   \cup (IF probe_cuckoo_claim(t) THEN {t} ELSE {})
              /\ UNCHANGED listed
        /\ UNCHANGED <<quality, last_rx_time, sample>>

(* The peer's side: it answers a request, and a probe for a route it has.  *)
handle_sig_req(f) ==
    /\ f.type = "SigReq"
    /\ frames' = (frames \ {f}) \cup {Frame("SigRes", f.seq)}
    /\ UNCHANGED <<quality, tick, listed, last_rx_time, sig_req_seq, pending_sig_req,
                   asked, pending_probes, trust, sample>>

handle_path_lookup(f) ==
    /\ f.type = "PathLookup"
    /\ frames' = (frames \ {f}) \cup {Frame("PathNotify", f.seq)}
    /\ UNCHANGED <<quality, tick, listed, last_rx_time, sig_req_seq, pending_sig_req,
                   asked, pending_probes, trust, sample>>

Matching_M(p, seq) == TRUE

Matching(p, seq) == p.seq = seq

(* take() empties the pending request whatever its number; only the answer *)
(* to that very request is measured.                                       *)
handle_sig_res(f) ==
    LET hit == {p \in pending_sig_req : Matching(p, f.seq)}
    IN  /\ f.type = "SigRes"
        /\ frames' = frames \ {f}
        /\ last_rx_time' = tick
        /\ pending_sig_req' = {}
        /\ sample' = IF hit = {} THEN sample
                     ELSE [seq |-> f.seq, rtt |-> tick - (CHOOSE p \in hit : TRUE).sent]
        /\ trust' = IF hit = {} THEN trust ELSE boost_trust(trust)
        /\ UNCHANGED <<quality, tick, listed, sig_req_seq, asked, pending_probes>>

handle_path_notify(f) ==
    /\ f.type = "PathNotify"
    /\ frames' = frames \ {f}
    /\ last_rx_time' = tick
    /\ pending_probes' = pending_probes \ {f.seq}
    /\ trust' = IF f.seq \in pending_probes THEN boost_trust(trust) ELSE trust
    /\ UNCHANGED <<quality, tick, listed, sig_req_seq, pending_sig_req, asked, sample>>

LoseFrame(f) ==
    /\ quality = "bad"
    /\ frames' = frames \ {f}
    /\ UNCHANGED <<quality, tick, listed, last_rx_time, sig_req_seq, pending_sig_req,
                   asked, pending_probes, trust, sample>>

HealthNext ==
    \/ do_maintenance
    \/ \E f \in frames :
        \/ handle_sig_req(f)
        \/ handle_path_lookup(f)
        \/ handle_sig_res(f)
        \/ handle_path_notify(f)
        \/ LoseFrame(f)

HealthSpec == HealthInit /\ [][HealthNext]_health_vars

-----------------------------------------------------------------------------
(* Properties.                                                             *)

(* Every round trip that enters the lag estimate is the time from the      *)
(* sending of a request to the arrival of its own answer, however late     *)
(* other answers come (handle_sig_res).                                    *)
SamplesHonest ==
    [][sample' # sample => sample'.rtt = tick - asked[sample'.seq]]_health_vars

(* A peer on a link that loses nothing and answers before the next         *)
(* keep-alive stays in the table and never loses trust: neither timeout    *)
(* fires on it (expire_peers, send_keepalives, cleanup_stale_probes).      *)
HealthyKept == quality = "good" => listed /\ trust >= TRUST_INITIAL
=============================================================================
