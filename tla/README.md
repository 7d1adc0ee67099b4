# A TLA+ model of norn-rs

norn-rs is a mesh-routing daemon. Nodes hold authenticated TCP or QUIC links to
their peers, elect the roots of three spanning trees, route over the trees'
hyperbolic embedding with cuckoo filters as fallback, and run end-to-end sessions
(X25519 and ML-KEM) across the mesh. This directory models the parts whose
correctness depends on the order of events, checks them with TLC on small
instances, and proves the central invariants with TLAPS for all instances.

Paths below are relative to `src/src/`.

## The system's parts

| part | state | operations | what makes it hard | module |
|---|---|---|---|---|
| sessions (`session.rs`) | per-peer keys, ML-KEM secret and fallback, sequence numbers, replay window | initiate, retransmit, handle_init, handle_ack, encrypt, decrypt, two rotations, remove, restart | crossing initiations, lost and reordered messages, rotation in mid-handshake, restart with old packets about | `Session`, `ReplayWindow` |
| admission of initiations (`session.rs`) | rate log, pinned keys | rate_limited, verify, pq_verify_and_pin | a full log, honest retransmissions bunched by delays | `InitAdmission` |
| write path and link stream (`router/conn.rs`, `router/mod.rs`, `obfs.rs`, `packet.rs`) | worker queue, link channel, batch, pending ciphertext, keystream positions | write_to, try_submit, encrypt_and_dispatch, batched writes, poll_write, poll_flush, read_frame | overflow to the caller, partial writes, an unflushed tail | `LinkStream` |
| wire formats (`packet.rs`, `session.rs`, `onion.rs`) | none | encode, decode, sign_bytes | truncated frames, optional trailing fields | `Codec`, `Wire` |
| TCP links (`transport.rs`, `router/conn.rs`) | `connected`, per-IP counts, peer table with one sender per link | accept, dial, handshake, tie-break, link cap, read error, expiry | both sides dial; one link's error removes the whole peer; limits are checked and taken apart | `PeerLinks` |
| dial loops (`transport.rs`, `quic.rs`, `node.rs`, `discovery.rs`, `mdns.rs`, `peercache.rs`) | one task per dial, attempts | start, dial, dial_discovered, beacons, mDNS events, restart | every branch has to count, and only discovered dials may end | `Dialing` |
| spanning trees (`router/mod.rs`, `router/handlers.rs`) | parent, root, cost, depth, peers' announces, announce cadence | fix_tree, maybe_broadcast_control, handle_announce, add_peer, remove_peer | distance-vector loops, stale announces, a cadence that must neither starve nor chatter | `SpanningTree` |
| peer health (`router/mod.rs`, `router/handlers.rs`) | pending request and probes, trust, last reception | SigReq, SigRes, probes, timeouts | late and overtaking answers | `PeerHealth` |
| cuckoo filter (`cuckoo.rs`) | buckets | add, contains, remove, merge | chains of kicks that give up | `CuckooFilter` |
| cuckoo gossip (`router/mod.rs`, `router/handlers.rs`) | a filter per peer | cuckoo_do_maintenance, handle_cuckoo, remove_peer | echoes, a node that leaves | `CuckooGossip` |
| forwarding (`router/handlers.rs`, `router/onion.rs`, `router/path_negative.rs`, `router/coords.rs`) | coordinates, negative cache, pending lookups | traffic, negative, lookup, notify, hole punch, coordinate announces | stale coordinates, false claims | `Forwarding` |
| onion routing (`onion.rs`, `sphinx.rs`, `router/onion.rs`, `router/capabilities.rs`) | key chain, known keys and capabilities, replay cache | rotate, build, peel, replay check | cache at its limit, rotation with cells under way, mixed capabilities | `Onion`, `OnionCache` |
| floods (`router/reputation.rs`, `router/capabilities.rs`, onion keys) | newest number per subject | broadcast, forward if newer | restart at number zero, full tables | `Floods` |

Links carry frames to `dispatch`; the maintenance task ticks once a second and runs
the trees, the gossip, the floods, the rotations and the retransmissions;
`remove_peer` joins links, trees and sessions, since it drops the peer, resets the
trees that hung on it and removes the session.

## Modules

| module | models |
|---|---|
| `SlidingWindow` | the 64-slot replay mask of `SessionInfo::decrypt` as operators: the set of offsets below the high mark |
| `OnceDelivery` | the abstract promise: what was sent is delivered at most once, in any order |
| `ReplayWindow` | one direction of a session: encrypt numbers packets, decrypt admits, authenticates and slides. `authentic = FALSE` stands for a packet whose tag does not verify |
| `Session` | both sides of a session, uses `SlidingWindow` |
| `InitAdmission` | what stands before `handle_init`'s key exchange |
| `FifoLink`, `LinkStream` | the abstract promise of a link (frames arrive once and in order) and the stream that implements it |
| `Codec` | how one field is written and read (little-endian numbers, varints, paths, optional and counted fields), and how a decoder goes through its checks and reads |
| `Wire` | encoders, decoders and signed bytes of the message types, from the operators of `Codec` |
| `PeerLinks` | the links between two nodes |
| `Dialing` | the dial tasks of one node for one endpoint |
| `SpanningTree` | one tree (tree 0, which carries the depth) over any topology |
| `PeerHealth` | how one node judges one peer |
| `CuckooFilter` | one filter |
| `CuckooGossip` | the filters of one settled tree |
| `Forwarding` | frames across a settled mesh; extends `CuckooGossip` |
| `OnionCache`, `Onion` | the replay cache as operators; cells over a path |
| `Floods` | numbered announces |
| `DeliveryProofs` | proofs about `ReplayWindow`, and the byte stream and the writer of `LinkStream` |
| `LinkStreamProofs` | the other steps of `LinkStream` and its theorems |
| `CodecProofs`, `WireProofs` | lemmas about the operators of `Codec`; the theorems about the formats of `Wire` |
| `RoutingProofs` | proofs about `SpanningTree`, `CuckooFilter` and `Onion` |
| `SessionProofs` | proofs about `Session` |
| `AdmissionProofs` | proofs about `InitAdmission`, `PeerHealth` and `Dialing` |
| `ForwardingProofs` | proofs about `PeerLinks`, `Forwarding`, `CuckooGossip` and `Floods` |
| `MCComponents`, `MCTraffic`, `MCPeerLinks`, `MCSpanningTree` | instances |

**Session.** `sess[n]` is the `SessionInfo` that n keeps for the other node. Keys are
symbolic: `<<n, i>>` is the i-th pair n made, a Diffie-Hellman secret is the set of
two pairs, and ML-KEM decapsulation with the wrong key gives an unrelated value
(implicit rejection). `net` is a set, so messages overtake each other, as they do
behind relays that delay each frame at random; data packets stay in it and may
arrive again. `write_to` and `encrypt_and_dispatch` are two actions because the
code releases its locks between them. Signatures, pins and the rate limit are in
`InitAdmission`: here both nodes are honest and the limit is not reached.
`DropPrev` and the next `RotateKem`, either of which discards the retired key, wait until
no handshake begun with it is in flight (`OverlapOver`); that is an assumption about the
one-minute overlap and the day between rotations.

**InitAdmission.** One responder, honest sources that retransmit with doubling
intervals over a mesh that delays and loses, and others that send at any time. The
log is a function from sources to the times of their latest initiations, with the
code's eviction of an entry whose times are all past the window. An initiation's
time stamp, signature and pin are verdicts that `handle_init` takes in the code's
order. Time is in seconds.

**LinkStream.** One direction from `write_to` to `dispatch`. A byte on the wire is a
length digit or a numbered byte of a frame; obfuscated, it carries the nonce and the
keystream position it was combined with, and is legible only at that position. The
socket takes any part of what it is offered, as `poll_write` allows, and may break.
A payload goes through the worker's queue or, when that is full, is encrypted by the
caller.

**Codec and Wire.** A format is the list of its fields and their kinds, a decoder the list
of its length checks and reads in the code's order; a read past the end that no check has
caught is a panic. Widths, the radix of the varints and the limits are constants; bytes of
keys, signatures and payloads remember the field they came from, so that a field read at
the wrong place is seen. The endpoint of a hole punch is text: its bytes are the two- and
one-byte characters of UTF-8, `Utf8` is what `from_utf8` asks of their leading bits, and the
clamp may cut a character in two, which the receiver refuses. `Decodable` names the two
structs whose own encoding the decoder refuses: that one, and a cell above the limit.
`Signs` has the types with a `sign_bytes`; the bytes that `SigRes` signs are put together in
`handlers.rs` and are not among them. The two lengths inside a peeled onion layer
(`onion.rs` 275-288) are not decoded here, and in `Onion` a layer is symbolic.

**PeerLinks.** A link has a phase at each end, which is the place its task has
reached in `listen`, `dial_inner` or `handle_conn`. The sleeps of the dial loop
(3, 5 and 30 seconds) are taken to outlast the steps that are already due
(`Settled`); a broken link may go unnoticed for any time. How the sleeps compare with each
other (the 3 seconds of the tie-break with the 5 of a redial, say) is left open. Without
that timing assumption a model reports flapping that seconds-long sleeps rule out. `hurry`
counts the dial tasks that go round again without a sleep. The difficulty policy and
the attempt limit are in `Dialing`.

**Dialing.** A task is at the top of its loop, in the wait of the tie-break, linked,
asleep or over. The remote end is down, refuses (handshake or difficulty), opens no
stream (QUIC), or is up, and changes at any time. A configured or cached dial has no
limit, a discovered one has. A start loads the cache and starts the dials: it takes from the
file the records that are no older than `DEFAULT_MAX_AGE`, and none if the file is missing
or corrupt. Nothing renews the records while the node runs (see the observations), so a
later start may find fewer; the times of the starts are part of an instance.

**SpanningTree.** Nodes are numbered by their tree metric, so the smallest is the
best root. `wire` keeps the newest announce of a link's direction. Costs saturate
and depths wrap (the release build's arithmetic) at small widths. The link costs
of a tick are any values of `LinkCosts`. `root_seq` is represented by its effect: a
node that is its own root advances it every tick, so its digest always differs.
Announce expiry, epochs and landmarks are left out: a link that is up delivers
in time, and one epoch is modelled.

**PeerHealth.** The tick is also the clock. Frames travel over parallel links and
overtake each other. Trust is a scale on which a failure halves and a success adds
one. A "good" link loses nothing and answers within `Delays`, a "bad" one may lose
and delay.

**CuckooFilter, CuckooGossip, Forwarding.** A key is its first bucket and its
fingerprint; `bucket2` is a parameter, any involution. A kick is a step, since its
slot is random. In the gossip a filter is the set of tags it holds; what a real
filter adds (false positives) appears in `Forwarding` as filters that claim too
much. There the convergence window opens and closes at any time, a coordinate is its distance
from the destination's, `own_coord` and `coord_table` are updated apart, and equal costs are
decided either way, as a hash map does. The negative cache's size limit is not reached with one destination.

**Onion.** Keys are `<<node, i>>`, a secret is the pair of an ephemeral and a key,
and a slot of a Sphinx header is the set of symbols XORed in it, so that the filler
has to cancel exactly. Cells stay in `net` and may arrive late or repeatedly.

**Floods.** One announce kind per behaviour. `record` returns the tables that may
result, since the victim of an eviction is arbitrary. A restarted node has lost its
table and its counter and has a new key.

## Composition

`Forwarding` extends `CuckooGossip` and starts from filters of which `GossipSettles`
says that the gossip reaches them. `Session` and `ReplayWindow` share
`SlidingWindow`, `Onion` and its proofs share `OnionCache`. The MC modules put
components that share no state side by side: a behaviour is about one of them, which
the initial state chooses, and the others rest. Where a component has fairness, resting
is an instance in which nothing is due (no dials, no announces, a mesh of one node), so
that the fairness of the resting components demands nothing.

## Runs

| run | result | shows |
|---|---|---|
| `components` | holds | the replay window mirrors the delivered numbers, admits exactly what is new and implements `OnceDelivery`; onion cells peel to the next hop across rotations, the replay cache forgets in order, Auto never sends Sphinx where it is not understood; no source exceeds its quota of initiations and no honest one is refused for it; a healthy peer keeps its place and trust, and each round-trip sample belongs to its request; formats round-trip, no decoder panics, no truncated frame passes as signed, signatures cover every field; filters find their members and keep fingerprints at home; a child's filter claims only its subtree, and after a node has left the gossip settles on the right filters |
| `session_handshake` | holds | crossing initiations with an ML-KEM rotation anywhere agree on a secret and on X25519 keys; one lost message is made good by one retransmission |
| `session_churn` | holds | nothing is decrypted twice or under a key without an ML-KEM secret, through removal, restart and rotation |
| `session_retransmit_secrets` | violated | see finding 1 |
| `session_ratchet` | violated | see finding 2 |
| `session_stale_check` | violated | see finding 3 |
| `peer_links` | holds | counters count, senders belong to live tasks and stay under the cap; where only the smaller key dials, or the larger with one task, a link comes and stays |
| `peer_links_crossing` | violated | see finding 4 |
| `peer_links_per_ip` | violated | see finding 5 |
| `spanning_tree` | holds | chain of three, one link failure: costs honest, parents live, announces refreshed, root agreed |
| `spanning_tree_cadence` | violated | see finding 6 |
| `traffic` | holds | while coordinates are true greedy hops never return to a node, and with stale ones too every frame with a hop limit, TTL or id comes to an end, retries get through past false claims; floods are forwarded once (on a cycle with room in the tables, on a tree also without) and the keys agree after a restart; payloads of one writer arrive in order until a worker's queue overflows, the byte stream implements `FifoLink` and strands nothing; discovered dials end, persistent ones reach their peer |

Bounds. A window of 3 with numbers to 7 lets it slide by less than, exactly and more
than its width. The session runs allow one retransmission and, per run, one loss or
one removal, which is the least that makes each interesting case happen; two
payloads of one writer fill a window of 2. Three connection slots hold the good
link, a crossing one and a new dial; a cap of 2 is reached. In the trees a cost
limit of 2 saturates, a depth modulus of 2 wraps, and an interval of up to 2 backs
off. Paths of one to three relays with two rotations make a key current, previous and
gone; a replay cache of one entry overflows at a hop that a path meets twice. A rate log of one
entry is full with the first source, and 18 seconds hold the doubling
retransmissions of a window of 10. Keep-alives every 3, probes every 5 and timeouts of 3 and
6 ticks fall together and apart within 12. Field widths of one to four
bytes, cut at every byte, reach every check of a decoder. Two buckets of two slots fill and
overflow; one fingerprint has two homes and one only one. The stream has queues, batches
and socket buffers of one or two elements, all of which fill, and frames of one to three
bytes, the last two of which need two length digits. Meshes of
four and five nodes have a branch, a chain and a cycle. Two attempts, two links and
three dials reach each limit of the dial loop. Larger instances are what the proofs
are for.

Deadlock is checked for `spanning_tree` only: elsewhere, when the bounded faults and
inputs are used up, or a link stands, nothing is left to do.

Fairness. Session: the maintenance task ticks for ever, so a due retransmission is
sent, and a handshake frame that is not lost is handled. `PeerLinks` and `Dialing`:
dial loops have no end, sleeps end and sockets report errors (keep-alive).
`SpanningTree`: ticks, delivery on links that are up, and links that come back, as
dial loops redial. `CuckooGossip` and `Floods`: the maintenance tick and delivery.
`Forwarding`: senders retry and frames that are under way are handled; nothing makes the
convergence window close, because finding 6 shows that it may be opened again for ever.
`RetriesArrive` asks for it, as a premise, only where a false claim ends in a node without
another way: that node reports it only while its window is closed. `LinkStream`: writer,
reader and workers are tasks that run when they can. All of it is weak fairness.

## Findings

1. **Secrets diverge after a retransmission** (`session.rs:1135`). Every Init, a
   repeated one too, makes `handle_init` encapsulate a new secret. If the second Ack
   is lost, or arrives before the first, both sides are established with different
   secrets. A test asserts "both sides MUST derive the same pq_shared" (1836).
2. **Both sides rotate at once** (`router/mod.rs:1301`). `rotate_local_key` drops the
   old key. If both rotate before hearing from each other, each encrypts to a key
   the other no longer has, and no packet is decrypted again. The comment expects
   the remote to "see the new pub in subsequent packets" (`session.rs:413`).
3. **The establishment check is stale** (`router/conn.rs:342`). A session removed and
   initiated again between check and encryption is used with the placeholder key,
   although `encrypt_and_dispatch` "Assumes the session with `dst` is already
   established" (`router/mod.rs:1546`); the payload is lost.
4. **Crossing dials flap** (`router/conn.rs:321`). The yielded dial keeps its socket for
   30 seconds and drops it. The other side has it as a second link, and its read
   error removes the whole peer with the good link. With both sides redialling the same can
   happen again, and TLC's behaviour does so for ever; in the program each round needs the
   two sides' sleeps to fall so that the dials cross once more. Two dial tasks of the larger
   key (a peer that is configured and cached) behave alike when only that side dials:
   the second takes the first one's link for a dial of the peer.
5. **The per-IP limit counts established links** (`transport.rs:384`). The guard lives
   until `handle_conn` returns, not only "through the handshake" (382).
6. **The cadence does not back off** (`router/mod.rs:700`). The root takes its own
   identity back from its child, depths climb, and every new depth resets the
   interval; the comment promises back-off "once the neighbourhood is quiet" (67).
   The climbing depth itself is a documented limitation of the repository's README.

## Proofs

A theorem holds for every value of the constants that the named assumptions of its module
allow; each assumption is also evaluated by the run that instantiates the module. The
temporal steps are always the same: the invariant holds initially, a step of each action
preserves it, and it implies the property.

`DeliveryProofs`, replay window: every window width and any range of numbers. The
inductive invariant is `TypeOK` with `WindowMirrors`: an offset is in the mask exactly
when that number was delivered, the high mark is the highest delivered number, and
nothing is delivered twice or unsent. Exact admission alone is not inductive: it
says nothing of how the mask and the high mark came about.

- `WindowCorrect`: `TypeOK` and `WindowMirrors` always hold.
- `AdmissionExact`: a packet is admitted exactly if it is within reach and new.
- `RefinesOnce`: `ReplayWindow` implements `OnceDelivery`.

`DeliveryProofs` and `LinkStreamProofs`, link: frames of all sizes, any radix of the length digits and all
capacities of queue, channel, batch and socket (`LinkAssumption`). The frames that the
channel has taken determine one byte stream `S` with the ends `off` of its frames
(`Layout`). `StreamInv` says where everything is in it: what has arrived, then the prefix
and body being read, the socket, the pending ciphertext, the plain buffer and the frames
still in the channel lie behind each other without a gap, and each keystream position is
the place of its byte. When the connection breaks the writer's part is given up and the
reader's stays, so what is read remains a prefix. `DecodeEncode` shows that the length
digits are read back as the length they encode. Order needs a second invariant,
`OrderInv`: frames taken, the worker's hand and its queue are in the order of the calls,
and ahead of what has no number yet; it holds until the first inline encryption.

- `LinkImplementsFifo`: `LinkStream` implements `FifoLink`.
- `OrderIsPreserved`: `SubmissionOrder`.

`RoutingProofs`, trees: every finite topology, all link costs, margins and integer
widths and any number of link failures, from the assumptions `TreeAssumption` and
`DistAssumption` (`Dist` is a lower bound: zero at the root, and a link adds at least
its growth). `CostsHonest` is not inductive, since a cost is computed from an
announce; the invariant adds `AnnouncesHonest`, the same bound for every announce
held or on its way, together with `TypeOK`, `ParentIsPeer` and `Refreshes`.

- `CostsNeverUndersell`, `ParentsArePeers`, `AnnouncesRefreshed`, `TreeTypes`.

Root agreement is liveness, but that it lasts is not. `TreeSettled` says that every node
is under the least key, that all but that node have a parent, and that no announce stored
or on its way names another root. The parent is needed: it is the peer that the node
is sure to have heard at its next tick, where otherwise it would fall back on itself. TLC finds `<>[]TreeSettled` under
the run's fairness; the theorems say what can end it.

- `AgreementIsStable`: from `TreeSettled` only the loss of a link leads out of it; ticks at
  any cadence, late announces, changing costs and new links do not.
- `AgreementStays`: once settled and with no link to lose, the roots agree for ever.

`SessionProofs`, for every window width, rotation interval and number of rotations,
retransmissions, losses, removals and payloads (`SessionAssumption`; the constant that
stands for `None` is no secret and no session). At-most-once across re-keying does not
follow from the window, which a new session empties. `SessionInv` adds that keys in
sessions and messages are keys their node has made, so that a new pair is new to
everybody, and that what has been decrypted was for a key its receiver made and, while the
receiver still has that key, is no longer admitted by its window. A packet of an earlier
session is for a key that its receiver has lost. For crossing initiations `HandshakeInv` follows, while nothing is lost, the
exchange that wins (that of the smaller key, or the only one): either it is adopted at
both ends or its Ack is under way to an end that will adopt it and can still decapsulate
it. The last part is where the rotations' timing enters: `OverlapOver` keeps a retired
key while a handshake begun with it is in flight.

- `DecryptsAtMostOnce`: `AtMostOnce`.
- `DecryptsKeyed`: `DeliveredKeyed`.
- `CrossingsConverge`: `CrossingConverges`.

`ForwardingProofs`, links: any finite number of connections, any number of dial tasks and all
limits (`LinksAssumption`). The counters are compared with the cardinalities of sets of
tasks; `LinksInv` joins the three properties with the phases an end may be in and with
`DownIsEmpty` (a node that does not have the peer has no sender for it).

- `ConnectedCountsLinks`: `CountsLinks`.
- `SendersAreLive`: `SendersLive`.
- `PerIpCountExact`: the per-address count is exact and bounded, so finding 5 is about
  what it counts and not about a leak.

That a link lasts is proved for one-sided dialling. `Steady(d)` says that only `d` dials,
that the phases of the two ends of each connection belong together (`EndsAgree`), and that
an end that reads has its sender. Then neither end can be at its cap when the other is not,
so no end is dropped, and none reads an end of stream; a single such event would take the
whole peer down with all its links. `d` may have as many dial tasks as the peer may have
links, but one only if its key is the larger: a second would yield to the first, and its
release looks to the other end like a broken link, as in finding 4. TLC finds `<>[]Steady`
under the run's fairness.

- `SteadyLinksAreKept`: in a steady state a link that both ends use stays in use, once the
  network breaks no more links.

`AdmissionProofs`, initiations: any sources, table size, window and quota
(`AdmissionAssumption`: nobody sends in an honest source's name, which the signature
ensures). `QuotaInv` relates the log, which forgets, to the history, which does not: an
entry is the part of the source's history inside the window, and a source without an entry
has none there, since only dormant entries are evicted. `PaceInv` places each
initiation of an honest source, on its way or counted, on the schedule of its
retransmissions; `Backoff` says that `MAX_INITS` consecutive intervals exceed the window
and the largest delay. `CodeBackoff` shows it of the code's constants, with delays up to
4 seconds.

- `QuotaIsHeld`: `QuotaHeld`.
- `HonestStayWithinQuota`, under `Backoff`, and `RetransmitsAdmitted`, for the code's
  constants: `HonestWithinQuota`.

`AdmissionProofs`, peer health: any intervals, timeouts and delays (`HealthAssumption`).
`AskedAt` ties the open request to the time its number was sent. That a healthy peer is
kept needs `Healthy`: the open request or its answer is under way and in time, and so is
every probe. It holds under `Prompt`: a round trip is shorter than the keep-alive interval
and not longer than the probe timeout, and one interval more fits in the peer timeout.
The code's constants satisfy it for frames that take up to 2 seconds.

- `RoundTripsAreReal`: `SamplesHonest`, without a condition on the timing.
- `HealthyPeersAreKept`: `HealthyKept`, under `Prompt`.

`AdmissionProofs`, dialling: any configuration and cache file, any attempt limit and any
behaviour of the endpoint (`DialingAssumption`: both lists hold TCP and QUIC URIs). `DialInv`
says that the tasks of the configuration and of the cache come first and are never
replaced, that only discovered dials end, and that the attempts counted stay within the
limit.

- `TrustedNeverGivenUp`: every configured peer, and every peer that the last start took from
  the cache, has a live dial task at all times, also after a restart. With fairness this is what `PersistentReaches` rests on.
- `StrangersRunOut`: while the endpoint does not authenticate, each step of a discovered
  dial without a link decreases `StepsLeft` and no other step increases it; a restart, which
  forgets discovered dials, is apart. This is the variant of `StrangersForgotten`.

`RoutingProofs`, onion: every cache size, every `MAX_HOPS` and any paths, rotations and
numbers of cells (`OnionAssumption`). What a hop lets through (`AdmitsOnce`) says nothing
of the cache, so the first invariant is `CacheInv`: the set is the range of the queue, the
queue is the latest part of what was let through, and no digest is twice within a cache's
length of it. It is proved once about the operators of `OnionCache` and carried through
the actions of `Onion`. The second is `CellInv`: each cell on the way is the one that its
sender built for some hop of its path, for keys that the hops have or had. What peeling
makes of such a cell is then a fact about the operators. For Sphinx it is that the
header a hop computes, shifted by a slot with its keystream run past the end, is in every
slot the header the sender built for the next hop; this is what the filler is for.

- `OnionAdmitsOnce`: a cell passes a second time only after as many others as the cache
  holds.
- `OnionCacheMirrors`: the set and the queue evict in step.
- `OnionPeelsToNextHop`: `PeelsToNextHop`.
- `SphinxReachesCapable`: `AutoReachesCapable`.

`ForwardingProofs`, forwarding: every mesh and distance (`SceneAssumption`). While no
coordinate has moved, the distances on file are the true ones and each node of a frame's
greedy trail is farther from the destination than the node it is at (`ForwardInv`).

- `GreedyIsLoopFree`: `GreedyNeverReturns`.
- `HopLimitHolds`: no packet exceeds `MAX_FORWARD_HOPS`, with true coordinates or not.

`ForwardingProofs`, gossip: `GossipInv` extends the property to the filters under way. The
theorem is about meshes whose links are the edges of their tree (`PlainTree`); with other
links filters are echoed (see below).

- `ChildFiltersAreHonest`: `ChildFiltersHonest`.

That the gossip stays settled is proved for meshes that are one tree with a root, of which
the leaver is a leaf (`RootedTree`; the mesh of the run is one, and the resting mesh of one
node, from which nobody leaves, is not). `GossipSettled` says that all neighbours have
removed the leaver, that a parent knows the subtree of each child and the child the rest of
the mesh, and that a filter under way says as much as the one it will replace. Its core is
`MergedSettled`: the filters of the children and the parent's together name everybody.
TLC finds `<>[]GossipSettled` under the run's fairness.

- `GossipStaysSettled`: once settled, every node has a claimer for every other for ever
  (`Routable`), and the tag of the node that left does not come back.

`ForwardingProofs`, floods: every finite mesh, all table sizes and any set of
nodes that restart (`FloodAssumption`). Where the tables have room, what a node has forwarded is on its file
with that number or a later one (`RoomInv`); on a tree an announce comes down from the
node above, which sends it once, so the tables do not matter (`TreeInv`).

- `AnnouncesForwardedOnce`: `ForwardsOnce`.
- `RecordsNeverRegress`: where the tables have room, no step of a node that is not restarting
  loses what it has on file of another node or replaces it by an older record.

`RoutingProofs`, filter: every number of buckets and slots, every set of fingerprints,
any limit of kicks and every `bucket2` that is an involution (`FilterAssumption`).
`MembersFound` is not inductive without knowing that a fingerprint in a slot, or in the
hand of a chain of kicks, is at one of its two homes; `FilterInv` joins the two with the
soundness of the chain.

- `FilterFindsMembers`: a member is found unless a chain of kicks carries or has dropped
  its fingerprint.
- `FilterHomesFingerprints`: every fingerprint is in one of the two buckets of a key that
  was put in.

`CodecProofs` and `WireProofs`: every width of every field, every varint radix above 2, every
limit of paths, cells and padding that fits the integers used for it (`CodecAssumption`,
`WireAssumption`), every struct whose fields are in range (`Proper`) and every buffer. Three
facts about one field are proved for each kind of field: what was written reads back
(`PutRead`), a read takes no notice of bytes behind it (`GetExtends`), and it runs past the
end only if fewer bytes are left than its width (`ReadOut`). A decoder is then compared with
its format once: `Fits` follows how many bytes the checks so far have secured (`w`), how many
fields have been read (`g`) and how many bytes the fields still to come take at least (`r`).
From it follow for any such pair that no read is unsecured (`RunSafe`) and that no check
fails on a whole frame (`RunTrip`). That each of the 17 decoders fits its format is a lemma
with the three lists written out. Three decoders need a word more: `Announce` reads a missing
depth as 0, `OnionPacket` refuses a cell above the limit; both are the last read of theirs.
`HolePunch` also refuses an endpoint that is not text (`StrRead`, `SplitRefused`), in the middle
of its frame.

- `DecodeIsTotal`: no buffer at all makes a decoder panic. `NoDecoderPanics`: `DecodersTotal`.
- `DecodeInvertsEncode`: whatever follows it, the frame of a proper struct decodes to the
  struct if it is `Decodable` and is refused if not. `FramesRoundTrip`: `RoundTrips`.
- `CutShortNotTrusted`: what is made of a prefix of a frame is the struct that was sent, or is
  not what was signed. `TruncationDetected`: `TruncationNotTrusted`.
- `SignBytesCover`: structs with the same signed bytes agree on every field that should be
  covered. `SignedFieldsCovered`: `SignaturesCover`.

The second theorem of each pair is about the behaviours of `Wire`; that its messages are
proper structs (`MessagesProper`) is all it adds.

Recursion over data (`encode_len`, `decode_len`, the headers and the filler of a cell, the
backoff, the recording of several reports, powers and digits, the fields of a frame, the
steps of a decoder) is written with recursive functions on finite
intervals. Where a proof needs their values it goes by the least counterexample
(`LeastNat`, from the well-foundedness of the naturals): first that a function with these
equations exists, then what each of its values is.

Only model-checked: all liveness (`HandshakeCompletes`, `GossipSettles`, `OneSidedStays`,
`RootAgreement`, `FramesEnd`, `RetriesArrive`, `KeysAgree`, `NothingStranded`,
`StrangersForgotten`, `PersistentReaches`), because the prover does not treat fairness and
`ENABLED`. Of `RootAgreement`, `GossipSettles` and `OneSidedStays` the part that is safety, that what is
reached stays, is proved, and of the two about dialling the invariant and the variant; that
the settled state is reached is not. Every invariant and every action property of a run that
holds is also the subject of a theorem.


## Observations without a run

These are places where the model follows the code and a comment reads differently, or
where a property above had to be limited.

- The peer cache is loaded and never written: `record` and `save` have no caller outside
  `peercache.rs`, although `node.rs:106` and `peercache.rs:10` say that it is rewritten
  while running. A cached peer is therefore forgotten `DEFAULT_MAX_AGE` after the file was
  written, however often it was connected since; `PersistentReaches` is about the peers that
  the last start still took from it.
- The clamp of `HolePunch::encode` (`packet.rs:773`) counts bytes and may end inside a
  character; the frame is then refused (815), although the comment at 765 speaks of the
  receiver verifying the clamped endpoint. `RoundTrips` says when.
- The generation of a gossiped filter has no effect: both branches of `handle_cuckoo`
  replace the filter. Where links besides the tree let filters be echoed, the tag of a
  node that left can go on circulating, although `handlers.rs:138` speaks of evicting
  stale entries. `GossipSettles` is therefore about trees.
- The forward semaphore drops nothing: without a permit the frame is forwarded all the
  same (`router/mod.rs:1412`), although 1338 and 1407 say that it is dropped.
- Notifies and hole punches carry neither a TTL nor a seen set (`handlers.rs:250`), and
  `FramesEnd` leaves them out.
- A table of announces that is full records nothing new about an unknown subject, yet
  forwards it each time; on a cycle it goes round. `ForwardsOnce` is about meshes where
  the tables have room (`Roomy`) and trees where they may not (`Branching`).
- A lost fingerprint makes a filter deny a member; `cuckoo.rs:208` mentions only the
  rate of false positives. `MembersFound` names the exception.
- A full worker queue makes the caller overtake it (`router/mod.rs:1631`);
  `SubmissionOrder` ends with the first overflow.
- The sender's own `lookup` and the greedy hop do not consult the negative cache
  (`handlers.rs:482`, 509); `RetriesArrive` is about senders behind transit nodes.

## Not modelled

- The geometry (`hyperbolic.rs`), the smoothing of lag and loss, and the aggregation of
  reputation (`consensus_trust`): floating-point functions without state. Their results
  appear as free choices.
- Cryptographic primitives, addresses and identities (`address.rs`, `keyshare.rs`,
  `pq_sign.rs`): symbolic where a module needs them.
- TUN, admin, configuration, metrics, diagnostics, socket statistics: I/O and reports.
- Epochs and announce expiry of the trees, the idle expiry of sessions: each adds a clock
  to a module whose state space is already at the limit of its run. The hazards at
  `session.rs:1133` and `router/mod.rs:623` depend on them and have no property.
- Durations of sleeps and back-off, priorities of parallel links, cover traffic and
  transit jitter as times: only their effect on the order of events is kept.
- `PathBroken`, which is relayed as a notify is, and the use of a punched endpoint.
- The byte encoding of a cuckoo filter, a copy of its table.
- The saving of the peer cache, which is never called.
