------------------------------- MODULE Codec --------------------------------
(* The codec of packet.rs and session.rs: how the fields of a frame are written  *)
(* to and read from a buffer.                                                     *)
(*                                                                                *)
(* An encoder is the list of its fields; a decoder is the list of its length      *)
(* checks ("need") and reads ("get").  A read past the end of the buffer that no  *)
(* check has caught is a panic.  Widths are constants, so that small ones do.     *)
(* A byte is <<value, field, variant>>: bytes of keys, signatures and payloads     *)
(* remember where they came from, digits of numbers have the field "n".            *)
EXTENDS Naturals, Sequences

CONSTANTS
  Width,     \* Width[k]: bytes of a field of fixed kind k
  RADIX,     \* values of a varint digit (128); a byte has twice as many
  CellSize,  \* ONION_CELL_SIZE (1280)
  PathMax    \* hops decode_path accepts (1024)

BASE  == 2 * RADIX
Digit(v) == <<v, "n", 0>>
Value(b) == b[1]

(* r to the n-th power: shifting by n digits multiplies or divides by it.         *)
pow(r, n) == LET p[i \in 0..n] == IF i = 0 THEN 1 ELSE r * p[i - 1] IN p[n]

U64 == pow(BASE, Width["u64"])
U32 == pow(BASE, Width["u32"])
U16 == pow(BASE, Width["u16"])

(* A byte holds a u8.                                                              *)
ASSUME CodecAssumption ==
  /\ RADIX \in Nat /\ RADIX > 2
  /\ Width \in [{"u8", "u16", "u32", "u64", "key", "sig", "tag", "coord", "header", "filter",
                  "kem", "ct", "dsa", "dsasig"} -> Nat]
  /\ Width["u8"] = 1 /\ U32 <= U64 /\ 1 < U64
  /\ CellSize \in Nat /\ PathMax \in Nat

(* The i-th digit of v from below.                                                  *)
digit(r, v, i) == (v \div pow(r, i - 1)) % r

(* The number whose digits are bs, low digit first: each is shifted to its place.   *)
number(r, bs) ==
  LET sum[i \in 0..Len(bs)] ==
        IF i = 0 THEN 0 ELSE sum[i - 1] + (Value(bs[i]) % r) * pow(r, i - 1)
  IN sum[Len(bs)]

(* to_le_bytes and from_le_bytes.                                                   *)
le(n, v) == [i \in 1..n |-> Digit(digit(BASE, v, i))]
fromLe(bs) == number(BASE, bs)

(* encode_uvarint: low digit first until nothing is left to shift out, all but the   *)
(* last with the continuation bit.                                                    *)
digits(v) == CHOOSE i \in 1..(v + 1) : v < pow(RADIX, i) /\ \A j \in 1..(i - 1) : v >= pow(RADIX, j)
encode_uvarint(v) ==
  LET n == digits(v)
  IN [i \in 1..n |-> Digit((IF i < n THEN RADIX ELSE 0) + digit(RADIX, v, i))]

(* What a read gives: the value and the bytes it took, an error, or a slice past      *)
(* the end.                                                                            *)
Ok(v, n) == [out |-> "ok", v |-> v, n |-> n]
Bail  == [out |-> "bail", v |-> 0, n |-> 0]
Panic == [out |-> "panic", v |-> 0, n |-> 0]

(* decode_uvarint: digits up to the first without the bit.  It fails when the buffer   *)
(* ends first or when a digit would be shifted out of 64 bits entirely.                 *)
decode_uvarint(d) ==
  LET ends == {i \in DOMAIN d : Value(d[i]) < RADIX}
      n == CHOOSE i \in ends : \A j \in ends : i <= j
  IN IF ends = {} THEN Bail
     ELSE IF pow(RADIX, n - 1) >= U64 THEN Bail
     ELSE Ok(number(RADIX, SubSeq(d, 1, n)) % U64, n)

(* The pieces of ss one behind the other, as an encoder appends them to its buffer.     *)
Joined(ss) ==
  LET upTo[i \in 0..Len(ss)] == IF i = 0 THEN <<>> ELSE upTo[i - 1] \o ss[i] IN upTo[Len(ss)]

(* encode_path: every hop plus one, then zero.                                          *)
encode_path(p) == Joined([i \in DOMAIN p |-> encode_uvarint((p[i] + 1) % U64)]) \o <<Digit(0)>>

(* decode_path: varints up to a zero, at most PathMax before it.  hop[i].n is where the  *)
(* i-th ends.                                                                             *)
decode_path(d) ==
  LET hop[i \in 0..(PathMax + 1)] ==
        IF i = 0 THEN Ok(0, 0)
        ELSE LET at == hop[i - 1].n
                 u == decode_uvarint(SubSeq(d, at + 1, Len(d)))
             IN [out |-> u.out, v |-> u.v, n |-> at + u.n]
      last == {i \in 1..(PathMax + 1) :
                 \A j \in 1..i : hop[j].out = "ok" /\ (hop[j].v = 0 <=> j = i)}
      n == CHOOSE i \in last : TRUE
  IN IF last = {} THEN Bail ELSE Ok([j \in 1..(n - 1) |-> hop[j].v - 1], hop[n].n)
-----------------------------------------------------------------------------
(* Writing one field.  "str" is HolePunch's endpoint, clamped to what its length  *)
(* byte can say; "vec" a payload behind its varint length; "opt" a coordinate      *)
(* behind a presence byte.                                                         *)
Clamp(v) == SubSeq(v, 1, IF Len(v) < BASE THEN Len(v) ELSE BASE - 1)

Put(k, v) ==
  CASE k \in {"u8", "u16", "u32", "u64"} -> le(Width[k], v)
    [] k \in {"uv", "depth"} -> encode_uvarint(v)
    [] k = "path" -> encode_path(v)
    [] k = "opt"  -> IF v = <<>> THEN <<Digit(0)>> ELSE <<Digit(1)>> \o v
    [] k = "str"  -> <<Digit(Len(Clamp(v)))>> \o Clamp(v)
    [] k = "vec"  -> encode_uvarint(Len(v)) \o v
    [] OTHER      -> v

Fields(layout, m) == Joined([i \in DOMAIN layout |-> Put(layout[i][2], m[layout[i][1]])])

COORD_FORMAT_V5 == 5

(* from_utf8 accepts bs: a byte below RADIX is a character, any other starts one of two  *)
(* to four bytes or goes on with one (leading bits 110, 1110, 11110 and 10).              *)
goesOn(b) == RADIX <= Value(b) /\ Value(b) < RADIX + RADIX \div 2
following(b) ==
  IF Value(b) < RADIX + RADIX \div 2 THEN 0
  ELSE IF Value(b) < RADIX + (3 * RADIX) \div 4 THEN 1
  ELSE IF Value(b) < RADIX + (7 * RADIX) \div 8 THEN 2 ELSE 3
Utf8(bs) ==
  \A i \in DOMAIN bs :
    /\ \A j \in (i + 1)..(i + following(bs[i])) : j <= Len(bs) /\ goesOn(bs[j])
    /\ goesOn(bs[i]) => \E j \in 1..(i - 1) : i <= j + following(bs[j])

(* Reading one field from the bytes d that are left.                                    *)
Get(k, d) ==
  LET u == decode_uvarint(d)
      coord == 1 + Width["coord"]
      len == 1 + Value(d[1])
  IN
  CASE k = "uv"    -> u
    [] k = "depth" -> IF d = <<>> THEN Ok(0, 0) ELSE IF u.out = "ok" THEN Ok(u.v % U32, u.n) ELSE u
    [] k = "path"  -> decode_path(d)
    [] k = "opt"   -> IF d = <<>> THEN Bail
                      ELSE IF Value(d[1]) = 0 THEN Ok(<<>>, 1)
                      ELSE IF Len(d) < coord THEN Bail ELSE Ok(SubSeq(d, 2, coord), coord)
    [] k = "str"   -> IF d = <<>> THEN Panic
                      ELSE IF Len(d) < len + Width["sig"] THEN Bail
                      ELSE IF ~Utf8(SubSeq(d, 2, len)) THEN Bail ELSE Ok(SubSeq(d, 2, len), len)
    [] k \in {"vec", "cell"} ->
                      IF u.out # "ok" THEN u
                      ELSE IF (k = "cell" /\ u.v > CellSize) \/ Len(d) < u.n + u.v THEN Bail
                      ELSE Ok(SubSeq(d, u.n + 1, u.n + u.v), u.n + u.v)
    [] k = "v5"    -> IF d = <<>> THEN Panic
                      ELSE IF Value(d[1]) # COORD_FORMAT_V5 THEN Bail ELSE Ok(COORD_FORMAT_V5, 1)
    [] OTHER       -> IF Len(d) < Width[k] THEN Panic
                      ELSE LET bs == SubSeq(d, 1, Width[k])
                           IN Ok(IF k \in {"u8", "u16", "u32", "u64"} THEN fromLe(bs) ELSE bs, Width[k])

need(n) == <<"need", n, "">>
get(f, k) == <<"get", f, k>>

(* m with the field f set to v.                                                         *)
Assign(m, f, v) == [x \in DOMAIN m \cup {f} |-> IF x = f THEN v ELSE m[x]]

(* A decoder's state is its outcome so far, its position and the struct.  Taken is the  *)
(* state after the read r of the field f.                                               *)
Taken(st, f, r) ==
  IF r.out # "ok" THEN [out |-> r.out, pos |-> st.pos, m |-> st.m]
  ELSE [out |-> "ok", pos |-> st.pos + r.n, m |-> Assign(st.m, f, r.v)]

Step(d, st, s) ==
  IF st.out # "ok" THEN st
  ELSE IF s[1] = "need"
  THEN IF Len(d) - st.pos < s[2] THEN [out |-> "bail", pos |-> st.pos, m |-> st.m] ELSE st
  ELSE Taken(st, s[2], Get(s[3], SubSeq(d, st.pos + 1, Len(d))))

Run(steps, d) ==
  LET at[i \in 0..Len(steps)] ==
        IF i = 0 THEN [out |-> "ok", pos |-> 0, m |-> <<>>] ELSE Step(d, at[i - 1], steps[i])
      end == at[Len(steps)]
  IN [out |-> end.out, m |-> end.m]
=============================================================================
