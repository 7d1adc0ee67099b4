------------------------------- MODULE Onion -------------------------------
(***************************************************************************)
(* Onion routing: a sender wraps a Traffic packet for a path of relays and *)
(* the destination, in the legacy format (onion.rs: nested AEAD layers) or *)
(* the Sphinx format (sphinx.rs: a header of fixed size with filler), and  *)
(* each hop checks its replay cache, peels one layer and sends the cell on *)
(* (router/onion.rs).  Every hop rotates its onion key and keeps the one   *)
(* before; the sender may know an older key, or none.                      *)
(*                                                                         *)
(* Cryptography is symbolic.  A key is <<node, i>>, i = 0 the key derived  *)
(* from the identity; the secret of an ephemeral epk and a key is the pair *)
(* of them; a slot of the Sphinx header is the set of symbols that are     *)
(* XORed together in it.  A cell on the way stays in net: it may arrive    *)
(* late, repeatedly or never.  The mesh carries it to the node of its      *)
(* routing tag (Forwarding.tla models how).                                *)
(***************************************************************************)
EXTENDS OnionCache, Integers, FiniteSets, FiniteSetsExt, Functions

CONSTANTS
    Relay,              \* the sender's peers
    Dst,                \* the destination, possibly a peer too
    Builds,             \* which sets of nodes may have the sphinx feature built in
    Paths,              \* the relay sequences select_relays may return
    MAX_HOPS,           \* hops a Sphinx header has room for
    CELL,               \* largest AEAD length OnionPacket::decode accepts
    LAYER,              \* bytes a legacy layer adds
    MAX_TRAFFIC_LEN,    \* largest traffic a Sphinx cell takes
    Sizes,              \* lengths of encoded Traffic
    MaxCells, MaxRotations, MaxPeels    \* bounds of the exploration

Hop == Relay \cup {Dst}

ASSUME OnionAssumption == MAX_HOPS \in Nat \ {0} /\ Paths \subseteq Seq(Hop)

VARIABLES
    capable,            \* the nodes built with the sphinx feature
    onion_format,       \* the configured format, "Legacy", "Sphinx" or "Auto"
    session,            \* the session with Dst: "none", "initiated", "established"
    chain,              \* chain[n]: n's OnionKeyChain
    known,              \* known[n]: the key of n the sender has, 0 if none
    capabilities,       \* nodes whose CapabilityAnnounce the sender holds
    net,                \* cells on the way
    onion_seen,         \* onion_seen[n]: the FIFO of n's replay cache
    onion_seen_set,     \* its HashSet mirror
    admitted,           \* admitted[n]: every digest n let through, in order
    made,               \* made[id]: hops and keys cell number id was built for
    received            \* the cells whose Traffic the exit handled

onion_vars == <<capable, onion_format, session, chain, known, capabilities, net, onion_seen,
          onion_seen_set, admitted, made, received>>
config == <<capable, onion_format>>
caches == <<onion_seen, onion_seen_set, admitted>>

OnionInit ==
    /\ capable \in Builds
    /\ onion_format \in {"Legacy", "Sphinx", "Auto"}
    /\ session = "none"
    /\ chain = [n \in Hop |-> [current |-> 1, previous |-> <<>>]]
    /\ known = [n \in Hop |-> 0]
    /\ capabilities = {}
    /\ net = {}
    /\ onion_seen = [n \in Hop |-> <<>>]
    /\ onion_seen_set = [n \in Hop |-> {}]
    /\ admitted = [n \in Hop |-> <<>>]
    /\ made = <<>>
    /\ received = {}

-----------------------------------------------------------------------------
(* Keys.                                                                   *)

(* The keys n tries, in order: current, previous, identity-derived.        *)
sphinx_privs(n) == <<chain[n].current>> \o chain[n].previous \o <<0>>

rotate(n) ==
    chain' = [chain EXCEPT ![n] = [current |-> @.current + 1, previous |-> <<@.current>>]]

rotate_onion_keys_if_due(n) ==
    /\ MapThenSumSet(LAMBDA m : chain[m].current - 1, Hop) < MaxRotations
    /\ rotate(n)
    /\ UNCHANGED <<config, session, known, capabilities, net, caches, made, received>>

(* An OnionKeyAnnounce or CoordAnnounce of n reaches the sender.           *)
record_remote_onion_key(n) ==
    /\ known[n] # chain[n].current
    /\ known' = [known EXCEPT ![n] = chain[n].current]
    /\ UNCHANGED <<config, session, chain, capabilities, net, caches, made, received>>

record_capability(n) ==
    /\ n \in capable \ capabilities
    /\ capabilities' = capabilities \cup {n}
    /\ UNCHANGED <<config, session, chain, known, net, caches, made, received>>

(* The key a layer for n is built with: the announced one, or else the one *)
(* derived from n's identity, which known = 0 stands for.                  *)
onion_hop_for(n) == <<n, known[n]>>

(* The secret both ends derive from an ephemeral and a hop's key.          *)
x25519_shared(key, epk) == <<epk, key>>

-----------------------------------------------------------------------------
(* The legacy format.  A layer is sealed for one key; inner holds the next *)
(* layer of a relay, and is empty for the exit.                            *)

build_layer(key, epk, type, inner, id, content) ==
    [format |-> "Legacy", routing_tag |-> key[1], epk |-> epk,
     sealed |-> x25519_shared(key, epk), type |-> type, inner |-> inner,
     traffic |-> id, aead_len |-> content + LAYER]

(* The layers of a cell, each around the next one.                         *)
onion_layers(id, keys, size) ==
    LET nu == Len(keys)
        layer[i \in 1 .. nu] ==
            IF i = nu
            THEN build_layer(keys[i], <<id, i>>, "DELIVER", <<>>, id, size)
            ELSE build_layer(keys[i], <<id, i>>, "FORWARD", <<layer[i + 1]>>, id,
                             layer[i + 1].aead_len)
    IN  layer

build_onion(id, keys, size) == onion_layers(id, keys, size)[1]

-----------------------------------------------------------------------------
(* The Sphinx format.  beta has MAX_HOPS slots of PER_HOP bytes.           *)

Xor(a, b) == (a \ b) \cup (b \ a)

(* Slot j of the keystream of secret s.                                    *)
chacha_keystream(s, j) == {<<"rho", s, j>>}

mac16(s, beta) == <<s, beta>>

(* What the sender and hop i of cell id share.                             *)
hop_secret(id, keys, i) == x25519_shared(keys[i], <<id, i>>)

filler_M(id, keys) ==
    LET f[i \in 0 .. Len(keys) - 1] ==
            [j \in 1 .. i |->
                Xor(IF j < i THEN f[i - 1][j] ELSE {},
                    chacha_keystream(hop_secret(id, keys, i), MAX_HOPS - i + j))]
    IN  f[Len(keys) - 1]

(* What the slots shifted in at the relays turn into by the exit: relay i  *)
(* appends a zero slot and XORs the end of its keystream.                  *)
filler(id, keys) ==
    LET f[i \in 0 .. Len(keys) - 1] ==
            [j \in 1 .. i |->
                Xor(IF j < i THEN f[i - 1][j] ELSE {},
                    chacha_keystream(hop_secret(id, keys, i), MAX_HOPS + 1 - i + j))]
    IN  f[Len(keys) - 1]

(* The routing information of a hop: flag, next tag, next epk, next MAC.   *)
HopPayload(flag, tag, epk, mac) == {<<"hop", flag, tag, epk, mac>>}

hop_payload(id, keys, i, mac) ==
    IF i = Len(keys) THEN HopPayload("EXIT", Dst, <<id, 0>>, mac)
    ELSE HopPayload("FORWARD", keys[i + 1][1], <<id, i + 1>>, mac)

(* newbeta of hop i: the next hop's header h moves right by one slot.  At  *)
(* the exit the filler then replaces the last slots.                       *)
newbeta(id, keys, i, h) ==
    LET kept == MAX_HOPS - (Len(keys) - 1)
    IN  [j \in 1 .. MAX_HOPS |->
            IF i = Len(keys) /\ j > kept THEN filler(id, keys)[j - kept]
            ELSE Xor(IF j = 1 THEN hop_payload(id, keys, i, h.mac) ELSE h.beta[j - 1],
                     chacha_keystream(hop_secret(id, keys, i), j))]

hop_header(id, keys, i, h) ==
    [beta |-> newbeta(id, keys, i, h),
     mac |-> mac16(hop_secret(id, keys, i), newbeta(id, keys, i, h))]

(* The headers that the hops see, built from the exit backwards.           *)
headers(id, keys) ==
    LET nu == Len(keys)
        header[i \in 1 .. nu + 1] ==
            IF i = nu + 1
            THEN [beta |-> [j \in 1 .. MAX_HOPS |-> {<<"random", id, j>>}], mac |-> <<>>]
            ELSE hop_header(id, keys, i, header[i + 1])
    IN  header

build_sphinx(id, keys) ==
    LET first == headers(id, keys)[1]
    IN  [format |-> "Sphinx", routing_tag |-> keys[1][1], epk |-> <<id, 1>>,
         gamma |-> first.mac, beta |-> first.beta,
         payload |-> [wrapped |-> [i \in 1 .. Len(keys) |-> hop_secret(id, keys, i)],
                      traffic |-> id]]

-----------------------------------------------------------------------------
(* Sending.                                                                *)

path_supports_sphinx_M(relays) ==
    /\ Len(relays) + 1 <= MAX_HOPS
    /\ \A i \in DOMAIN relays : relays[i] \in capabilities

path_supports_sphinx(relays) ==
    /\ Len(relays) + 1 <= MAX_HOPS
    /\ \A i \in DOMAIN relays : relays[i] \in capabilities
    /\ Dst \in capabilities

use_sphinx(relays) ==
    \/ onion_format = "Sphinx"
    \/ onion_format = "Auto" /\ path_supports_sphinx(relays)

(* Relays must have announced a key, the destination need not.             *)
select_relays(relays) == \A i \in DOMAIN relays : known[relays[i]] # 0

(* The cell goes out; on an oversize Sphinx packet or too long a path the  *)
(* call fails.                                                             *)
Emit(relays, size) ==
    LET keys == Append([i \in DOMAIN relays |-> onion_hop_for(relays[i])],
                       onion_hop_for(Dst))
        id == Len(made) + 1
    IN  IF use_sphinx(relays)
        THEN /\ Len(keys) <= MAX_HOPS
             /\ size <= MAX_TRAFFIC_LEN
             /\ net' = net \cup {build_sphinx(id, keys)}
             /\ made' = Append(made, keys)
        ELSE /\ net' = net \cup {build_onion(id, keys, size)}
             /\ made' = Append(made, keys)

write_to_onion(relays, size) ==
    /\ Len(made) < MaxCells
    /\ select_relays(relays)
    /\ \/ /\ session = "none"
          /\ session' = "initiated"
          /\ UNCHANGED <<net, made>>
       \/ /\ session = "established"
          /\ Emit(relays, size)
          /\ UNCHANGED session
    /\ UNCHANGED <<config, chain, known, capabilities, caches, received>>

(* The handshake completes (Session.tla).                                  *)
Established ==
    /\ session = "initiated"
    /\ session' = "established"
    /\ UNCHANGED <<config, chain, known, capabilities, net, caches, made, received>>

-----------------------------------------------------------------------------
(* Peeling.  A failed peel is [to |-> "none"].                             *)

Failed == [to |-> "none"]

peel(n, c) ==
    LET tried == {k \in Range(sphinx_privs(n)) :
                    c.sealed = x25519_shared(<<n, k>>, c.epk)}
    IN  IF tried = {} THEN Failed
        ELSE IF c.type = "DELIVER" THEN [to |-> "exit", traffic |-> c.traffic]
        ELSE [to |-> "relay", cell |-> c.inner[1]]

lioness_decrypt(s, p) ==
    [wrapped |-> IF p.wrapped # <<>> /\ Head(p.wrapped) = s THEN Tail(p.wrapped)
                 ELSE <<s>> \o p.wrapped,
     traffic |-> p.traffic]

process_sphinx(n, c) ==
    LET secrets == {x25519_shared(<<n, k>>, c.epk) : k \in Range(sphinx_privs(n))}
        mine == {s \in secrets : mac16(s, c.beta) = c.gamma}
        s == CHOOSE x \in mine : TRUE
        b == [j \in 1 .. MAX_HOPS + 1 |->
                 Xor(IF j <= MAX_HOPS THEN c.beta[j] ELSE {}, chacha_keystream(s, j))]
        hop == CHOOSE x \in b[1] : TRUE
        pl == lioness_decrypt(s, c.payload)
    IN  IF mine = {} THEN Failed
        ELSE IF hop[2] = "EXIT"
        THEN IF pl.wrapped = <<>> THEN [to |-> "exit", traffic |-> pl.traffic] ELSE Failed
        ELSE [to |-> "relay",
              cell |-> [format |-> "Sphinx", routing_tag |-> hop[3], epk |-> hop[4],
                        gamma |-> hop[5], beta |-> Tail(b), payload |-> pl]]

Peel(n, c) == IF c.format = "Legacy" THEN peel(n, c) ELSE process_sphinx(n, c)

-----------------------------------------------------------------------------
(* The replay cache.                                                       *)

is_onion_replay(c) == <<c.format, c.epk, c.sealed>>

replay_digest(c) == <<c.format, c.epk, c.beta[1]>>

Digest(c) == IF c.format = "Legacy" THEN is_onion_replay(c) ELSE replay_digest(c)

(* The branch that returns false: d was not in the set and is recorded.    *)
onion_digest_seen(n, d) ==
    /\ d \notin onion_seen_set[n]
    /\ onion_seen_set' = [onion_seen_set EXCEPT ![n] = set_after(onion_seen[n], @, d)]
    /\ onion_seen' = [onion_seen EXCEPT ![n] = queue_after(@, d)]
    /\ admitted' = [admitted EXCEPT ![n] = Append(@, d)]

(* A cell at the node of its tag: dispatch decodes it, which refuses an    *)
(* oversize legacy layer and every Sphinx cell where that is not built in; *)
(* the digest is recorded, also if the peel then fails.                    *)
dispatch(c) ==
    IF c.format = "Legacy" THEN c.aead_len <= CELL ELSE c.routing_tag \in capable

handle_onion(c) ==
    LET n == c.routing_tag
        p == Peel(n, c)
    IN  /\ dispatch(c)
        /\ Len(admitted[n]) < MaxPeels
        /\ onion_digest_seen(n, Digest(c))
        /\ \/ /\ p.to = "relay"
              /\ net' = net \cup {p.cell}
              /\ UNCHANGED received
           \/ /\ p.to = "exit"
              /\ received' = received \cup {<<n, p.traffic>>}
              /\ UNCHANGED net
           \/ /\ p.to = "none"
              /\ UNCHANGED <<net, received>>
        /\ UNCHANGED <<config, session, chain, known, capabilities, made>>

OnionNext ==
    \/ \E n \in Hop : rotate_onion_keys_if_due(n)
    \/ \E n \in Hop : record_remote_onion_key(n)
    \/ \E n \in Hop : record_capability(n)
    \/ \E relays \in Paths, size \in Sizes : write_to_onion(relays, size)
    \/ Established
    \/ \E c \in net : handle_onion(c)

OnionSpec == OnionInit /\ [][OnionNext]_onion_vars

-----------------------------------------------------------------------------
(* Properties.                                                             *)

(* Where cell c is on its way, and the key its layer was built with.       *)
CellId(c) == c.epk[1]
Position(c) == c.epk[2]
LayerKey(c) == made[CellId(c)][Position(c)]

(* A hop can still peel what was built for its identity, its current key   *)
(* or the key before: "onions built against the about-to-be-rotated pub    *)
(* can still be peeled" (onion.rs, OnionKeyChain).                         *)
WithinOverlap(key) == key[2] = 0 \/ key[2] >= chain[key[1]].current - 1

(* Every cell on the way is at the hop its sender meant, and that hop, if  *)
(* it has rotated at most once since the layer was built, peels it to the  *)
(* next hop's layer, or at the end of the path to the Traffic; a hop that  *)
(* has rotated twice does not.                                             *)
PeelsToNextHop ==
    \A c \in net :
        LET keys == made[CellId(c)]
            p == Peel(c.routing_tag, c)
        IN  /\ c.routing_tag = LayerKey(c)[1]
            /\ WithinOverlap(LayerKey(c)) <=> p # Failed
            /\ p.to = "relay" =>
                /\ CellId(p.cell) = CellId(c)
                /\ Position(p.cell) = Position(c) + 1
                /\ Position(p.cell) <= Len(keys)
            /\ p.to = "exit" =>
                /\ p.traffic = CellId(c)
                /\ Position(c) = Len(keys)

(* A hop lets the same cell through again only after as many others as its *)
(* replay cache holds, with the set and the FIFO that implement the cache  *)
(* evicting in step.                                                       *)
AdmitsOnce ==
    \A n \in Hop : \A i, j \in DOMAIN admitted[n] :
        i < j /\ admitted[n][i] = admitted[n][j] => j - i > REPLAY_CACHE_SIZE

(* Under Auto a Sphinx cell only ever reaches hops that understand it, "so *)
(* we never send a TYPE_ONION_SPHINX cell to a node that would drop it"    *)
(* (capabilities.rs).                                                      *)
AutoReachesCapable ==
    \A c \in net :
        onion_format = "Auto" /\ c.format = "Sphinx" => c.routing_tag \in capable

(* The cache's set holds exactly the digests of its FIFO, which are the    *)
(* last ones let through.                                                  *)
CacheMirrors ==
    \A n \in Hop :
        LET kept == Len(onion_seen[n])
            all == Len(admitted[n])
        IN  /\ onion_seen_set[n] = {onion_seen[n][i] : i \in 1 .. kept}
            /\ kept = (IF all < REPLAY_CACHE_SIZE THEN all ELSE REPLAY_CACHE_SIZE)
            /\ \A i \in 1 .. kept : onion_seen[n][i] = admitted[n][all - kept + i]
=============================================================================
