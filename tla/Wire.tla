-------------------------------- MODULE Wire --------------------------------
(* The wire formats of packet.rs and the handshake frames of session.rs: what  *)
(* each encode() writes, what each sign_bytes() covers, and what each decode()  *)
(* checks and reads, in the code's order.  A frame may reach the decoder whole,  *)
(* cut short, or with bytes behind it.                                           *)
EXTENDS Codec

CONSTANTS
  PadBlock,  \* PAD_BLOCK (256)
  Numbers,   \* values tried for numeric fields
  HopLists,  \* hops tried for paths
  Lengths    \* lengths tried for payloads and endpoints

(* A byte holds the version 5; lengths, hops and padded payloads fit in 64 bits.     *)
ASSUME WireAssumption ==
  /\ PadBlock \in Nat /\ PadBlock # 0 /\ Width["u16"] + U16 + PadBlock <= U64
  /\ \A n \in Numbers : n \in Nat
  /\ \A n \in Lengths : n \in Nat /\ n < U64
  /\ \A p \in HopLists : p \in Seq(Nat) /\ Len(p) <= PathMax /\ \A i \in DOMAIN p : p[i] + 1 < U64

VARIABLES
  kind,   \* format of the frame under way, or "none"
  sent,   \* the struct that was encoded
  frame,  \* its bytes
  came,   \* how many of them came through; one more if a byte was added
  got     \* what decode returned: out is "ok", "bail", "panic" or "wait"

wire_vars == <<kind, sent, frame, came, got>>
-----------------------------------------------------------------------------
(* The formats: X is what X::encode writes behind the type byte, X_decode what      *)
(* X::decode does, X_signs what X::sign_bytes covers.                               *)
W(k) == Width[k]

SigReq == << <<"tree_id", "u8">>, <<"seq", "uv">>, <<"timestamp_ms", "uv">>, <<"pub_key", "key">> >>
SigReq_decode == <<need(2), get("tree_id", "u8"), get("seq", "uv"), get("timestamp_ms", "uv"),
                   need(W("key")), get("pub_key", "key")>>

SigRes == << <<"tree_id", "u8">>, <<"seq", "uv">>, <<"timestamp_ms", "uv">>,
             <<"signature", "sig">>, <<"pub_key", "key">> >>
SigRes_decode == <<need(2), get("tree_id", "u8"), get("seq", "uv"), get("timestamp_ms", "uv"),
                   need(W("sig") + W("key")), get("signature", "sig"), get("pub_key", "key")>>

Announce == << <<"tree_id", "u8">>, <<"root", "key">>, <<"root_seq", "uv">>, <<"path_cost", "uv">>,
               <<"sender", "key">>, <<"signature", "sig">>, <<"depth", "depth">> >>
\* Mutant of Announce_signs: the depth is left out of what is signed.
Announce_signs_M == << <<"tree_id", "u8">>, <<"root", "key">>, <<"root_seq", "uv">>,
                       <<"path_cost", "uv">>, <<"sender", "key">> >>
Announce_signs == << <<"tree_id", "u8">>, <<"root", "key">>, <<"root_seq", "uv">>,
                     <<"path_cost", "uv">>, <<"sender", "key">>, <<"depth", "depth">> >>
\* Mutant of Announce_decode: the check before sender and signature forgets the signature.
Announce_decode_M == <<need(1 + W("key")), get("tree_id", "u8"), get("root", "key"),
                       get("root_seq", "uv"), get("path_cost", "uv"), need(W("key")),
                       get("sender", "key"), get("signature", "sig"), get("depth", "depth")>>
Announce_decode == <<need(1 + W("key")), get("tree_id", "u8"), get("root", "key"),
                     get("root_seq", "uv"), get("path_cost", "uv"), need(W("key") + W("sig")),
                     get("sender", "key"), get("signature", "sig"), get("depth", "depth")>>

CuckooMsg == << <<"tree_id", "u8">>, <<"generation", "uv">>, <<"data", "filter">> >>
CuckooMsg_decode == <<need(1), get("tree_id", "u8"), get("generation", "uv"),
                      need(W("filter")), get("data", "filter")>>

PathLookup == << <<"target", "key">>, <<"source", "key">>, <<"id", "uv">>, <<"path", "path">> >>
PathLookup_decode == <<need(2 * W("key")), get("target", "key"), get("source", "key"),
                       get("id", "uv"), get("path", "path")>>

PathNotify == << <<"target", "key">>, <<"source", "key">>, <<"id", "uv">>, <<"path", "path">> >>
PathNotify_decode == <<need(2 * W("key")), get("target", "key"), get("source", "key"),
                       get("id", "uv"), get("path", "path")>>

PathBroken == << <<"target", "key">>, <<"source", "key">>, <<"id", "uv">> >>
PathBroken_decode == <<need(2 * W("key")), get("target", "key"), get("source", "key"), get("id", "uv")>>

PathNegative == << <<"routing_tag", "tag">>, <<"ttl", "u8">> >>
PathNegative_decode == <<need(W("tag") + 1), get("routing_tag", "tag"), get("ttl", "u8")>>

Traffic == << <<"path", "path">>, <<"from", "key">>, <<"enc_header", "header">>,
              <<"routing_tag", "tag">>, <<"pkt_type", "u8">>, <<"dest_coord", "opt">>,
              <<"watermark", "uv">>, <<"payload", "vec">> >>
\* Mutant of Traffic_decode: the watermark is read before the destination coordinate.
Traffic_decode_M == <<get("path", "path"), need(W("key") + W("header") + W("tag") + 1),
                      get("from", "key"), get("enc_header", "header"), get("routing_tag", "tag"),
                      get("pkt_type", "u8"), get("watermark", "uv"), get("dest_coord", "opt"),
                      get("payload", "vec")>>
Traffic_decode == <<get("path", "path"), need(W("key") + W("header") + W("tag") + 1),
                    get("from", "key"), get("enc_header", "header"), get("routing_tag", "tag"),
                    get("pkt_type", "u8"), get("dest_coord", "opt"), get("watermark", "uv"),
                    get("payload", "vec")>>

OnionKeyAnnounce_signs == << <<"origin", "key">>, <<"seq", "u64">>, <<"valid_from_ms", "u64">>,
                             <<"onion_eph_pub", "key">> >>
OnionKeyAnnounce == Append(OnionKeyAnnounce_signs, <<"sig", "sig">>)
OnionKeyAnnounce_decode == <<need(2 * W("key") + 2 * W("u64") + W("sig")), get("origin", "key"),
                             get("seq", "u64"), get("valid_from_ms", "u64"),
                             get("onion_eph_pub", "key"), get("sig", "sig")>>

HolePunch_signs == << <<"initiator", "key">>, <<"target", "key">>, <<"valid_from_ms", "u64">>,
                      <<"endpoint", "str">> >>
HolePunch == Append(HolePunch_signs, <<"sig", "sig">>)
HolePunch_decode == <<need(2 * W("key") + W("u64") + 1 + W("sig")), get("initiator", "key"),
                      get("target", "key"), get("valid_from_ms", "u64"), get("endpoint", "str"),
                      get("sig", "sig")>>

ReputationReport_signs == << <<"observer", "key">>, <<"observed", "key">>, <<"score_q16", "u16">>,
                             <<"seq", "u64">>, <<"valid_from_ms", "u64">> >>
ReputationReport == Append(ReputationReport_signs, <<"sig", "sig">>)
ReputationReport_decode == <<need(2 * W("key") + W("u16") + 2 * W("u64") + W("sig")),
                             get("observer", "key"), get("observed", "key"), get("score_q16", "u16"),
                             get("seq", "u64"), get("valid_from_ms", "u64"), get("sig", "sig")>>

CoordAnnounce_signs == << <<"version", "u8">>, <<"coord", "coord">>, <<"tree_depth", "u32">>,
                          <<"onion_eph_pub", "key">> >>
CoordAnnounce == Append(CoordAnnounce_signs, <<"sig", "sig">>)
CoordAnnounce_decode == <<need(1 + W("coord") + W("u32") + W("key") + W("sig")),
                          get("version", "v5"), get("coord", "coord"), get("tree_depth", "u32"),
                          get("onion_eph_pub", "key"), get("sig", "sig")>>

CapabilityAnnounce_signs == << <<"origin", "key">>, <<"caps", "u32">>, <<"seq", "u64">>,
                               <<"valid_from_ms", "u64">> >>
CapabilityAnnounce == Append(CapabilityAnnounce_signs, <<"sig", "sig">>)
CapabilityAnnounce_decode == <<need(W("key") + W("u32") + 2 * W("u64") + W("sig")),
                               get("origin", "key"), get("caps", "u32"), get("seq", "u64"),
                               get("valid_from_ms", "u64"), get("sig", "sig")>>

OnionPacket == << <<"routing_tag", "tag">>, <<"epk", "key">>, <<"aead_payload", "vec">> >>
OnionPacket_decode == <<need(W("tag") + W("key")), get("routing_tag", "tag"), get("epk", "key"),
                        get("aead_payload", "cell")>>

(* The handshake frames start with their magic, which is signed with them.          *)
\* Mutant of SessionInit_signs: the ML-DSA key is not bound by the signatures.
SessionInit_signs_M == << <<"ed_pub", "key">>, <<"x25519_pub", "key">>, <<"timestamp_ms", "u64">>,
                          <<"recipient_ed_pub", "key">>, <<"ml_kem_pub", "kem">> >>
SessionInit_signs == << <<"ed_pub", "key">>, <<"x25519_pub", "key">>, <<"timestamp_ms", "u64">>,
                        <<"recipient_ed_pub", "key">>, <<"ml_kem_pub", "kem">>, <<"ml_dsa_pub", "dsa">> >>
SessionInit == << <<"ed_pub", "key">>, <<"signature", "sig">>, <<"x25519_pub", "key">>,
                  <<"timestamp_ms", "u64">>, <<"recipient_ed_pub", "key">>, <<"ml_kem_pub", "kem">>,
                  <<"ml_dsa_pub", "dsa">>, <<"ml_dsa_sig", "dsasig">>, <<"sender_coord", "coord">> >>
SessionInit_decode ==
  <<need(3 * W("key") + W("sig") + W("u64") + W("kem") + W("dsa") + W("dsasig") + W("coord")),
    get("ed_pub", "key"), get("signature", "sig"), get("x25519_pub", "key"),
    get("timestamp_ms", "u64"), get("recipient_ed_pub", "key"), get("ml_kem_pub", "kem"),
    get("ml_dsa_pub", "dsa"), get("ml_dsa_sig", "dsasig"), get("sender_coord", "coord")>>

SessionAck_signs == << <<"ed_pub", "key">>, <<"x25519_pub", "key">>, <<"timestamp_ms", "u64">>,
                       <<"recipient_ed_pub", "key">>, <<"ml_kem_ct", "ct">>, <<"ml_dsa_pub", "dsa">> >>
SessionAck == << <<"ed_pub", "key">>, <<"signature", "sig">>, <<"x25519_pub", "key">>,
                 <<"timestamp_ms", "u64">>, <<"recipient_ed_pub", "key">>, <<"ml_kem_ct", "ct">>,
                 <<"ml_dsa_pub", "dsa">>, <<"ml_dsa_sig", "dsasig">>, <<"sender_coord", "coord">> >>
SessionAck_decode ==
  <<need(3 * W("key") + W("sig") + W("u64") + W("ct") + W("dsa") + W("dsasig") + W("coord")),
    get("ed_pub", "key"), get("signature", "sig"), get("x25519_pub", "key"),
    get("timestamp_ms", "u64"), get("recipient_ed_pub", "key"), get("ml_kem_ct", "ct"),
    get("ml_dsa_pub", "dsa"), get("ml_dsa_sig", "dsasig"), get("sender_coord", "coord")>>

(* The type byte of each format, which dispatch branches on (for the handshake        *)
(* frames the magic, which their decoders compare).                                    *)
Type == [SigReq |-> 2, SigRes |-> 3, Announce |-> 4, CuckooMsg |-> 5, PathLookup |-> 6,
         PathNotify |-> 7, PathBroken |-> 8, Traffic |-> 9, CoordAnnounce |-> 10,
         OnionPacket |-> 11, OnionKeyAnnounce |-> 12, ReputationReport |-> 13, HolePunch |-> 14,
         PathNegative |-> 15, CapabilityAnnounce |-> 17, SessionInit |-> 116, SessionAck |-> 98]

Kinds == DOMAIN Type

Layout == [SigReq |-> SigReq, SigRes |-> SigRes, Announce |-> Announce, CuckooMsg |-> CuckooMsg,
           PathLookup |-> PathLookup, PathNotify |-> PathNotify, PathBroken |-> PathBroken,
           Traffic |-> Traffic, CoordAnnounce |-> CoordAnnounce, OnionPacket |-> OnionPacket,
           OnionKeyAnnounce |-> OnionKeyAnnounce, ReputationReport |-> ReputationReport,
           HolePunch |-> HolePunch, PathNegative |-> PathNegative,
           CapabilityAnnounce |-> CapabilityAnnounce, SessionInit |-> SessionInit,
           SessionAck |-> SessionAck]

Decoder == [SigReq |-> SigReq_decode, SigRes |-> SigRes_decode, Announce |-> Announce_decode,
            CuckooMsg |-> CuckooMsg_decode, PathLookup |-> PathLookup_decode,
            PathNotify |-> PathNotify_decode, PathBroken |-> PathBroken_decode,
            Traffic |-> Traffic_decode, CoordAnnounce |-> CoordAnnounce_decode,
            OnionPacket |-> OnionPacket_decode, OnionKeyAnnounce |-> OnionKeyAnnounce_decode,
            ReputationReport |-> ReputationReport_decode, HolePunch |-> HolePunch_decode,
            PathNegative |-> PathNegative_decode,
            CapabilityAnnounce |-> CapabilityAnnounce_decode,
            SessionInit |-> SessionInit_decode, SessionAck |-> SessionAck_decode]

Signs == [Announce |-> Announce_signs, CoordAnnounce |-> CoordAnnounce_signs,
          OnionKeyAnnounce |-> OnionKeyAnnounce_signs,
          ReputationReport |-> ReputationReport_signs, HolePunch |-> HolePunch_signs,
          CapabilityAnnounce |-> CapabilityAnnounce_signs,
          SessionInit |-> SessionInit_signs, SessionAck |-> SessionAck_signs]

Signed == DOMAIN Signs
SignBytes(k, m) == Fields(Signs[k], m)
-----------------------------------------------------------------------------
(* pad_payload: a length of two bytes, the data, zeros up to a multiple of the block.  *)
Short(v) == SubSeq(v, 1, IF Len(v) < U16 THEN Len(v) ELSE U16 - 1)
pad_payload(v) ==
  LET out == le(Width["u16"], Len(Short(v))) \o Short(v)
      fill == (PadBlock - (Len(out) % PadBlock)) % PadBlock
  IN out \o [i \in 1..fill |-> Digit(0)]

unpad_payload(d) ==
  LET n == Width["u16"] IN
  IF Len(d) < n THEN [out |-> "bail", v |-> <<>>]
  ELSE LET l == fromLe(SubSeq(d, 1, n)) IN
       IF Len(d) < n + l THEN [out |-> "bail", v |-> <<>>]
       ELSE [out |-> "ok", v |-> SubSeq(d, n + 1, n + l)]

(* What goes on the wire: the type byte and the fields; a payload is padded before it  *)
(* becomes Traffic, an onion packet is filled up to the cell after it was encoded.      *)
Encode(k, m) ==
  LET body == IF k = "Traffic" THEN [m EXCEPT !.payload = pad_payload(@)] ELSE m
      bs == <<Digit(Type[k])>> \o Fields(Layout[k], body)
  IN IF k = "OnionPacket" THEN bs \o [i \in 1..(CellSize - Len(bs)) |-> Digit(0)] ELSE bs

(* handle_traffic unpads the payload of what was decoded.                                *)
Handled(k, r) ==
  IF k = "Traffic" /\ r.out = "ok"
  THEN LET u == unpad_payload(r.m.payload) IN [out |-> u.out, m |-> [r.m EXCEPT !.payload = u.v]]
  ELSE r

(* dispatch: the type byte selects the decoder.                                          *)
Decode(d) ==
  LET ks == IF d = <<>> THEN {} ELSE {k \in Kinds : Type[k] = Value(d[1])}
      k == CHOOSE x \in ks : TRUE
  IN IF ks = {} THEN [out |-> "bail", m |-> <<>>] ELSE Handled(k, Run(Decoder[k], Tail(d)))

(* Field values to try: bytes of a field in two variants, strings of characters of one     *)
(* byte or of two, lengths and numbers that reach the ends of their ranges.                 *)
Opaque(f, n, alt) == [i \in 1..n |-> <<i % BASE, f, alt>>]
Narrow(f, n) == [i \in 1..n |-> <<i % RADIX, f, 0>>]
Wide(f, n) == [i \in 1..(2 * n) |-> <<IF i % 2 = 1 THEN RADIX + RADIX \div 2 ELSE RADIX, f, 0>>]
Fit(k, n) == IF n < pow(BASE, Width[k]) THEN n ELSE pow(BASE, Width[k]) - 1

Values(f, k) ==
  IF f = "version" THEN {COORD_FORMAT_V5}
  ELSE CASE k \in {"u8", "u16", "u32", "u64"} -> {Fit(k, n) : n \in Numbers}
         [] k = "uv" -> {Fit("u64", n) : n \in Numbers}
         [] k = "depth" -> {Fit("u32", n) : n \in Numbers}
         [] k = "path" -> HopLists
         [] k = "opt" -> {<<>>, Opaque(f, Width["coord"], 0)}
         [] k = "str" -> {Narrow(f, n) : n \in Lengths} \cup {Wide(f, n) : n \in Lengths}
         [] k = "vec" -> {Opaque(f, n, 0) : n \in Lengths}
         [] OTHER -> {Opaque(f, Width[k], alt) : alt \in {0, 1}}

Messages(k) ==
  LET l == Layout[k]
      ms[i \in 0..Len(l)] ==
        IF i = 0 THEN {<<>>}
        ELSE {Assign(m, l[i][1], v) : m \in ms[i - 1], v \in Values(l[i][1], l[i][2])}
  IN ms[Len(l)]

WireInit == /\ kind = "none" /\ sent = <<>> /\ frame = <<>> /\ came = 0
        /\ got = [out |-> "wait", m |-> <<>>]

Send(k) == /\ kind = "none"
           /\ \E m \in Messages(k) : sent' = m /\ frame' = Encode(k, m)
           /\ kind' = k
           /\ UNCHANGED <<came, got>>

(* The first n bytes arrive, or all of them and one more.                                  *)
Deliver(n) == /\ kind # "none" /\ got.out = "wait"
              /\ came' = n
              /\ got' = Decode(SubSeq(Append(frame, Digit(0)), 1, n))
              /\ UNCHANGED <<kind, sent, frame>>

WireNext == \/ \E k \in Kinds : Send(k)
            \/ \E n \in 0..(Len(frame) + 1) : Deliver(n)

WireSpec == WireInit /\ [][WireNext]_wire_vars
-----------------------------------------------------------------------------
(* What the decoder can give back of a struct: lengths beyond their fields are clamped.    *)
Carried(k, m) == IF k = "HolePunch" THEN [m EXCEPT !.endpoint = Clamp(@)]
                 ELSE IF k = "Traffic" THEN [m EXCEPT !.payload = Short(@)] ELSE m

(* What a decoder takes: an onion payload within the cell, and an endpoint whose clamp does  *)
(* not split a character.                                                                     *)
Decodable(k, m) == /\ k = "OnionPacket" => Len(m.aead_payload) <= CellSize
                   /\ k = "HolePunch" => Utf8(Clamp(m.endpoint))

(* A frame that arrives whole, whatever follows it, decodes to the struct that was encoded,  *)
(* every varint, optional field and padding included (packet.rs encode and decode); only an   *)
(* onion payload beyond the cell and an endpoint that HolePunch::encode cut inside a           *)
(* character are refused, and they always are.                                                 *)
RoundTrips == got.out # "wait" /\ came >= Len(frame)
              => IF Decodable(kind, sent) THEN got.out = "ok" /\ got.m = Carried(kind, sent)
                 ELSE got.out = "bail"

(* No frame cut short makes a decoder slice past the end: each length check covers what is   *)
(* read behind it (the `need` checks of packet.rs and session.rs).                            *)
DecodersTotal == got.out # "panic"

(* A frame cut short is refused, or decodes to the very struct that was sent, or is signed    *)
(* and the signature does not cover what was decoded (Announce::decode takes a missing depth   *)
(* for 0, packet.rs:325; the signed bytes then differ).                                         *)
TruncationNotTrusted ==
  got.out = "ok" /\ came < Len(frame) /\ got.m # Carried(kind, sent)
  => kind \in Signed /\ SignBytes(kind, got.m) # SignBytes(kind, sent)

(* The bytes that are signed for every struct of a signed format.                             *)
Unsigned == {"signature", "sig", "ml_dsa_sig", "sender_coord"}
SignedAs == [k \in Signed |-> [m \in Messages(k) |-> SignBytes(k, m)]]

(* Different contents never share their signed bytes: varints and the clamped endpoint are    *)
(* delimited, and every field but signatures and the advisory coordinate is covered.           *)
SignaturesCover ==
  kind \in Signed /\ got.out = "wait" =>
    LET as == SignedAs[kind] IN
    \A o \in DOMAIN as :
      as[o] = as[sent] =>
        \A f \in DOMAIN sent \ Unsigned : Carried(kind, o)[f] = Carried(kind, sent)[f]
=============================================================================
