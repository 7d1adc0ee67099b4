----------------------------- MODULE PeerLinks -----------------------------
(***************************************************************************)
(* The links between two nodes: the TCP listener and the dial loops of     *)
(* src/src/transport.rs (accept limits, crossing-dial tie-break, link cap, *)
(* `connected' counters), PacketConn::handle_conn with its writer task,    *)
(* and the peer table operations add_peer, remove_peer, send_to_peer's     *)
(* sweep and expire_peers of src/src/router.                               *)
(*                                                                         *)
(* A link is a TCP connection whose authenticated handshake leads to the   *)
(* other node.  Its two ends are in phases of their own; a slot is free    *)
(* when both ends are closed.  Time is abstracted to this: the sleeps of   *)
(* the dial loop (3, 5 and 30 seconds) outlast the steps that are already  *)
(* due (Settled), while a broken link may go unnoticed for any length of   *)
(* time.                                                                   *)
(***************************************************************************)
EXTENDS Integers, FiniteSets

CONSTANTS Node,          \* the two nodes, numbers ordered as their public keys
          Slots,         \* names for TCP connections
          DialChoices,   \* who may be set to dial the other: dial tasks per node
          MaxLinks,      \* MAX_PARALLEL_LINKS_PER_PEER
          MaxPerIp,      \* MAX_PER_IP_HANDSHAKES
          MaxPending,    \* MAX_PENDING_HANDSHAKES
          MaxBreaks      \* connections the network breaks

ASSUME LinksAssumption ==
    /\ Node \subseteq Nat /\ Cardinality(Node) = 2
    /\ IsFiniteSet(Node) /\ IsFiniteSet(Slots)
    /\ DialChoices \subseteq [Node -> Nat]
    /\ {MaxLinks, MaxPerIp, MaxPending} \subseteq Nat \ {0}
    /\ MaxBreaks \in Nat

VARIABLES dials,         \* dials[n]: n's dial tasks towards the other node
          dialer,        \* dialer[l]: the node that dialled l
          phase,         \* phase[l][n]: what n's task for its end of l is doing
          broken,        \* the links the network has broken
          peer,          \* peer[n].up: the other node is in n's peer table;
                         \* peer[n].txs: the links with a sender there
          connected,     \* connected[n]: n's link count for the other node
          perip,         \* perip[n]: per_ip_counts of n's listener
          hurry,         \* hurry[n]: n's dial tasks that go round without a sleep
          breaks         \* links broken so far

vars == <<dials, dialer, phase, broken, peer, connected, perip, hurry, breaks>>

\* The phases are "closed", "handshake", "accepted", "waiting", "checking",
\* "admitted", "entering", "running", "leaving" and "held".

Peer(n) == CHOOSE p \in Node : p # n

Init ==
    /\ dials \in DialChoices
    /\ dialer = [l \in Slots |-> CHOOSE n \in Node : TRUE]
    /\ phase = [l \in Slots |-> [n \in Node |-> "closed"]]
    /\ broken = {}
    /\ peer = [n \in Node |-> [up |-> FALSE, txs |-> {}]]
    /\ connected = [n \in Node |-> 0]
    /\ perip = [n \in Node |-> 0]
    /\ hurry = dials
    /\ breaks = 0

Free(l) == \A n \in Node : phase[l][n] = "closed"

Dialled(n) == {l \in Slots : dialer[l] = n /\ phase[l][n] # "closed"}

Handshaking(n) == {l \in Slots : dialer[l] # n /\ phase[l][n] = "handshake"}

\* n's task for l moves on.
Move(l, n, ph) == phase' = [phase EXCEPT ![l][n] = ph]

\* n's task for l ends; in the listener that drops the PerIpGuard.
End(l, n) == /\ Move(l, n, "closed")
             /\ perip' = IF dialer[l] = n THEN perip
                         ELSE [perip EXCEPT ![n] = IF @ > 0 THEN @ - 1 ELSE 0]

\* n's reader sees the end of the stream: the far end dropped the
\* socket, or its writer task ended because its sender is gone.
Eof(l, n) ==
    \/ phase[l][Peer(n)] = "closed"
    \/ phase[l][Peer(n)] \in {"running", "leaving"} /\ l \notin peer[Peer(n)].txs

\* No end has a step due that takes only a round trip.
Settled ==
    \A l \in Slots, n \in Node :
        /\ phase[l][n] \notin {"accepted", "checking", "admitted", "entering", "leaving"}
        /\ phase[l][n] = "running" => ~Eof(l, n)
        /\ phase[l][n] = "handshake" => l \in broken

-----------------------------------------------------------------------------
(* Connecting. *)

\* A dial task of n connects; the listener accepts the socket or drops it.
Connect(n, l) ==
    /\ Free(l)
    /\ Cardinality(Dialled(n)) < dials[n]
    /\ hurry[n] > 0 \/ Settled
    /\ hurry' = [hurry EXCEPT ![n] = IF @ > 0 THEN @ - 1 ELSE 0]
    /\ dialer' = [dialer EXCEPT ![l] = n]
    /\ broken' = broken \ {l}
    /\ LET p  == Peer(n)
           ok == Cardinality(Handshaking(p)) < MaxPending /\ perip[p] < MaxPerIp
       IN  /\ phase' = [phase EXCEPT ![l] =
                          [m \in Node |-> IF m = n \/ ok THEN "handshake" ELSE "closed"]]
           /\ perip' = IF ok THEN [perip EXCEPT ![p] = @ + 1] ELSE perip
    /\ UNCHANGED <<dials, peer, connected, breaks>>

\* handshake_over_stream succeeds at both ends.  The larger key now waits to
\* see whether the other node's own dial reaches it.
HandshakeDone(l) ==
    /\ \A n \in Node : phase[l][n] = "handshake"
    /\ l \notin broken
    /\ phase' = [phase EXCEPT ![l] = [n \in Node |->
                    IF n # dialer[l] THEN "accepted"
                    ELSE IF n > Peer(n) THEN "waiting" ELSE "checking"]]
    /\ UNCHANGED <<dials, dialer, broken, peer, connected, perip, hurry, breaks>>

HandshakeFailed(l, n) ==
    /\ phase[l][n] = "handshake"
    /\ l \in broken \/ phase[l][Peer(n)] = "closed"
    /\ End(l, n)
    /\ UNCHANGED <<dials, dialer, broken, peer, connected, hurry, breaks>>

\* listen: the cap is checked and the count taken under one lock.
AcceptCap(l, n) ==
    /\ phase[l][n] = "accepted"
    /\ IF connected[n] >= MaxLinks
       THEN End(l, n) /\ UNCHANGED connected
       ELSE /\ Move(l, n, "entering")
            /\ connected' = [connected EXCEPT ![n] = @ + 1]
            /\ UNCHANGED perip
    /\ UNCHANGED <<dials, dialer, broken, peer, hurry, breaks>>

\* The earlier form: the larger key always leaves the dial to the other node.
MutantTieBreak(l, n) ==
    /\ phase[l][n] = "waiting"
    /\ Settled
    /\ Move(l, n, "held")
    /\ UNCHANGED <<dials, dialer, broken, peer, connected, perip, hurry, breaks>>

\* dial_inner, three seconds later: yield if the peer has reached us.
TieBreak(l, n) ==
    /\ phase[l][n] = "waiting"
    /\ Settled
    /\ Move(l, n, IF connected[n] > 0 THEN "held" ELSE "checking")
    /\ UNCHANGED <<dials, dialer, broken, peer, connected, perip, hurry, breaks>>

\* dial_inner reads the count, and takes it later under another lock.
CapCheck(l, n) ==
    /\ phase[l][n] = "checking"
    /\ Move(l, n, IF connected[n] >= MaxLinks THEN "held" ELSE "admitted")
    /\ UNCHANGED <<dials, dialer, broken, peer, connected, perip, hurry, breaks>>

Admit(l, n) ==
    /\ phase[l][n] = "admitted"
    /\ Move(l, n, "entering")
    /\ connected' = [connected EXCEPT ![n] = @ + 1]
    /\ UNCHANGED <<dials, dialer, broken, peer, perip, hurry, breaks>>

\* A dial that yielded or met the cap holds its socket open for 30 seconds,
\* reading nothing, then drops it and dials again.
Release(l, n) ==
    /\ phase[l][n] = "held"
    /\ Settled
    /\ End(l, n)
    /\ hurry' = [hurry EXCEPT ![n] = @ + 1]
    /\ UNCHANGED <<dials, dialer, broken, peer, connected, breaks>>

-----------------------------------------------------------------------------
(* handle_conn. *)

\* A bug: add_peer without its cap.
MutantAddPeerNoCap(p, l) == [up |-> TRUE, txs |-> p.txs \cup {l}]

\* add_peer: a further link joins the peer's senders, up to the cap.
AddPeer(p, l) == IF p.up /\ Cardinality(p.txs) >= MaxLinks THEN p
                 ELSE [up |-> TRUE, txs |-> p.txs \cup {l}]

\* remove_peer: the whole peer goes, with the senders of all its links.
RemovePeer == [up |-> FALSE, txs |-> {}]

Enter(l, n) ==
    /\ phase[l][n] = "entering"
    /\ Move(l, n, "running")
    /\ peer' = [peer EXCEPT ![n] = AddPeer(@, l)]
    /\ UNCHANGED <<dials, dialer, broken, connected, perip, hurry, breaks>>

ReadError(l, n) ==
    /\ phase[l][n] = "running"
    /\ l \in broken \/ Eof(l, n)
    /\ Move(l, n, "leaving")
    /\ peer' = [peer EXCEPT ![n] = RemovePeer]
    /\ UNCHANGED <<dials, dialer, broken, connected, perip, hurry, breaks>>

\* A bug that forgets the decrement on disconnect.
MutantLeave(l, n) ==
    /\ phase[l][n] = "leaving"
    /\ End(l, n)
    /\ UNCHANGED <<dials, dialer, broken, peer, connected, hurry, breaks>>

\* handle_conn has returned to listen or dial_inner: the count is given back.
Leave(l, n) ==
    /\ phase[l][n] = "leaving"
    /\ End(l, n)
    /\ connected' = [connected EXCEPT ![n] = IF @ > 0 THEN @ - 1 ELSE 0]
    /\ UNCHANGED <<dials, dialer, broken, peer, hurry, breaks>>

\* send_to_peer sweeps the sender of a link whose writer task met an I/O error;
\* it gets there when no link takes the frame, the others being full or closed.
SweepClosed(l, n) ==
    /\ l \in peer[n].txs
    /\ l \in broken \/ phase[l][Peer(n)] = "closed"
    /\ peer' = [peer EXCEPT ![n].txs = @ \ {l}]
    /\ UNCHANGED <<dials, dialer, phase, broken, connected, perip, hurry, breaks>>

\* expire_peers: nothing has arrived from the peer for PEER_TIMEOUT.
expire_peers(n) ==
    /\ peer[n].up
    /\ \A l \in Slots : phase[l][n] = "running" => l \in broken
    /\ peer' = [peer EXCEPT ![n] = RemovePeer]
    /\ UNCHANGED <<dials, dialer, phase, broken, connected, perip, hurry, breaks>>

Break(l) ==
    /\ ~Free(l) /\ l \notin broken
    /\ breaks < MaxBreaks
    /\ broken' = broken \cup {l}
    /\ breaks' = breaks + 1
    /\ UNCHANGED <<dials, dialer, phase, peer, connected, perip, hurry>>

EndStep(l, n) ==
    \/ HandshakeFailed(l, n) \/ AcceptCap(l, n) \/ TieBreak(l, n) \/ CapCheck(l, n)
    \/ Admit(l, n) \/ Release(l, n) \/ Enter(l, n) \/ ReadError(l, n) \/ Leave(l, n)

Next ==
    \/ \E l \in Slots, n \in Node : Connect(n, l) \/ EndStep(l, n) \/ SweepClosed(l, n)
    \/ \E l \in Slots : HandshakeDone(l) \/ Break(l)
    \/ \E n \in Node : expire_peers(n)

Spec == Init /\ [][Next]_vars

\* Every task runs on: dial loops redial for ever, sleeps end, sockets report
\* what happened to them (keep-alive included).
FairSpec == /\ Spec
            /\ \A n \in Node : WF_vars(\E l \in Slots : Connect(n, l))
            /\ \A l \in Slots : WF_vars(HandshakeDone(l))
            /\ \A l \in Slots, n \in Node : WF_vars(EndStep(l, n))

-----------------------------------------------------------------------------
(* Properties. *)

Counted(n) == {l \in Slots : phase[l][n] \in {"entering", "running", "leaving"}}

\* The `connected' map neither leaks nor loses a link, whatever breaks or is
\* torn down and however dial and accept interleave: it counts the handle_conn
\* tasks (transport.rs 438-466, 621-641).
CountsLinks == \A n \in Node : connected[n] = Cardinality(Counted(n))

\* Every sender in the peer table belongs to a connection whose task is still
\* in handle_conn, and there are never more than the cap, although the count
\* that dial_inner checks may be stale when it is taken (transport.rs 608-624).
SendersLive ==
    \A n \in Node :
        /\ Cardinality(peer[n].txs) <= MaxLinks
        /\ \A l \in peer[n].txs : phase[l][n] = "running"

Usable(l) == \A n \in Node : phase[l][n] = "running" /\ l \in peer[n].txs /\ l \notin broken

\* Only d dials, and with one task if its key is the larger.
LoneDialer(d) ==
    /\ dials[Peer(d)] = 0 /\ dials[d] > 0
    /\ d > Peer(d) => dials[d] = 1

\* Where only the smaller key dials, with any number of tasks, or only the
\* larger with one, the two get a link over which both send and read, and keep
\* it once the network stops breaking links: the teardown of the whole peer on
\* one link's error (conn.rs 319-323) and the tie-break (transport.rs 563-600)
\* settle.  A second task of the larger key takes the link of the first for a
\* dial of the peer (transport.rs 582-585), yields to it and brings it down.
OneSidedStays == (\E d \in Node : LoneDialer(d)) => <>[](\E l \in Slots : Usable(l))

\* The same where both dial: the tie-break is there because otherwise "both
\* connections die" (transport.rs 564-567).
StaysConnected == <>[](\E l \in Slots : Usable(l))

\* The listener turns a socket away only when the handshakes of that address
\* in flight are at the limit: the cap is on "simultaneous unauthenticated
\* handshakes in-flight" and its guard "lives through the handshake and drops
\* on either path" (transport.rs 35-36, 382-383).
RefusesOnlyHandshakes ==
    [][\A l \in Slots, n \in Node :
          (Free(l) /\ phase'[l][n] = "handshake" /\ phase'[l][Peer(n)] = "closed")
             => Cardinality(Handshaking(Peer(n))) >= MaxPerIp]_vars

=============================================================================
