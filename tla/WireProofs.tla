----------------------------- MODULE WireProofs -----------------------------
(* Proofs about the wire formats, for every width, radix and limit, every  *)
(* message and every buffer.                                               *)
EXTENDS CodecProofs, Wire


-----------------------------------------------------------------------------
(* Every decoder fits its encoder.                                         *)

FitsEnds(D, L, w, g, r) ==
    Len(D) \in Nat /\ w[1] = 0 /\ g[1] = 0 /\ g[Len(D) + 1] = Len(L) /\ r[Len(L) + 1] = 0

FitsAt(D, L, w, g, r, k, i) ==
    /\ w[i] \in Nat /\ w[i + 1] \in Nat /\ g[i] \in 0 .. Len(L) /\ g[i + 1] \in 0 .. Len(L)
    /\ StepFits(D[i], L, w[i], w[i + 1], g[i], g[i + 1], r)
    /\ D[i][3] \in {"cell", "depth"} => i = Len(D) /\ D[i][3] = k

\* The decoder D fits the layout L; a read that may fail on a whole frame (a cell) or give a
\* value without a byte (a depth) is its last, of kind k.
Fitted(D, L, k) ==
    \E w, g, r : /\ LayoutFits(L, r) /\ Fits(D, L, w, g, r)
                 /\ \A i \in 1 .. Len(D) : D[i][3] \in {"cell", "depth"} => i = Len(D) /\ D[i][3] = k

LEMMA FitsWith ==
    ASSUME NEW D, NEW L, NEW w, NEW g, NEW r, NEW k, LayoutFits(L, r),
           FitsEnds(D, L, w, g, r), \A i \in 1 .. Len(D) : FitsAt(D, L, w, g, r, k, i)
    PROVE  Fitted(D, L, k)
<1>1. Fits(D, L, w, g, r)
  BY Zenon DEF Fits, FitsAt, FitsEnds
<1>2. \A i \in 1 .. Len(D) : D[i][3] \in {"cell", "depth"} => i = Len(D) /\ D[i][3] = k
  BY Zenon DEF FitsAt
<1> QED BY <1>1, <1>2, Zenon DEF Fitted

LEMMA SigReqFits == Fitted(SigReq_decode, SigReq, "")
<1> DEFINE K == Width["key"]
           D == SigReq_decode
           L == SigReq
           w == <<0, 2, 1, 0, 0, K, 0>>
           g == <<0, 0, 1, 2, 3, 3, 4>>
           r == <<K + 3, K + 2, K + 1, K, 0>>
           Q(i) == FitsAt(D, L, w, g, r, "", i)
<1>1. K \in Nat /\ Width["u8"] = 1
  BY Widths, Zenon DEF Fixed, Ints, Blobs
<1> USE DEF FieldKind, Fixed, Ints, Blobs
<1>2. LayoutFits(L, r)
  BY <1>1 DEF SigReq, LayoutFits, Least
<1>3. Len(D) = 6 /\ FitsEnds(D, L, w, g, r)
  BY DEF SigReq, SigReq_decode, FitsEnds
<1> USE DEF SigReq, SigReq_decode, FitsAt, StepFits, ReadsAs, need, get, W, Needs, Left, ReadKind
<1>4. Q(1)
  BY <1>1
<1>5. Q(2)
  BY <1>1
<1>6. Q(3)
  BY <1>1
<1>7. Q(4)
  BY <1>1
<1>8. Q(5)
  BY <1>1
<1>9. Q(6)
  BY <1>1
<1> HIDE DEF Q, D, w, g, r, SigReq, FieldKind, Fixed, Ints, Blobs, SigReq_decode, FitsAt, StepFits, ReadsAs,
       need, get, W, Needs, Left, ReadKind
<1>10. \A i \in 1 .. Len(D) : Q(i)
  BY <1>3, <1>4, <1>5, <1>6, <1>7, <1>8, <1>9
<1> HIDE DEF L
<1>12. Fitted(D, L, "")
  BY <1>2, <1>3, <1>10, FitsWith, Zenon DEF Q
<1> QED BY <1>12, Zenon DEF D, L

LEMMA SigResFits == Fitted(SigRes_decode, SigRes, "")
<1> DEFINE K == Width["key"]
           S == Width["sig"]
           D == SigRes_decode
           L == SigRes
           w == <<0, 2, 1, 0, 0, K + S, K, 0>>
           g == <<0, 0, 1, 2, 3, 3, 4, 5>>
           r == <<K + S + 3, K + S + 2, K + S + 1, K + S, K, 0>>
           Q(i) == FitsAt(D, L, w, g, r, "", i)
<1>1. K \in Nat /\ S \in Nat /\ Width["u8"] = 1
  BY Widths, Zenon DEF Fixed, Ints, Blobs
<1> USE DEF FieldKind, Fixed, Ints, Blobs
<1>2. LayoutFits(L, r)
  BY <1>1 DEF SigRes, LayoutFits, Least
<1>3. Len(D) = 7 /\ FitsEnds(D, L, w, g, r)
  BY DEF SigRes, SigRes_decode, FitsEnds
<1> USE DEF SigRes, SigRes_decode, FitsAt, StepFits, ReadsAs, need, get, W, Needs, Left, ReadKind
<1>4. Q(1)
  BY <1>1
<1>5. Q(2)
  BY <1>1
<1>6. Q(3)
  BY <1>1
<1>7. Q(4)
  BY <1>1
<1>8. Q(5)
  BY <1>1
<1>9. Q(6)
  BY <1>1
<1>10. Q(7)
  BY <1>1
<1> HIDE DEF Q, D, w, g, r, SigRes, FieldKind, Fixed, Ints, Blobs, SigRes_decode, FitsAt, StepFits, ReadsAs,
       need, get, W, Needs, Left, ReadKind
<1>11. \A i \in 1 .. Len(D) : Q(i)
  BY <1>3, <1>4, <1>5, <1>6, <1>7, <1>8, <1>9, <1>10
<1> HIDE DEF L
<1>13. Fitted(D, L, "")
  BY <1>2, <1>3, <1>11, FitsWith, Zenon DEF Q
<1> QED BY <1>13, Zenon DEF D, L

LEMMA AnnounceFits == Fitted(Announce_decode, Announce, "depth")
<1> DEFINE K == Width["key"]
           S == Width["sig"]
           D == Announce_decode
           L == Announce
           w == <<0, K + 1, K, 0, 0, 0, K + S, S, 0, 0>>
           g == <<0, 0, 1, 2, 3, 4, 4, 5, 6, 7>>
           r == <<2 * K + S + 4, 2 * K + S + 3, K + S + 3, K + S + 2, K + S + 1, S + 1, 1, 0>>
           Q(i) == FitsAt(D, L, w, g, r, "depth", i)
<1>1. K \in Nat /\ S \in Nat /\ Width["u8"] = 1
  BY Widths, Zenon DEF Fixed, Ints, Blobs
<1> USE DEF FieldKind, Fixed, Ints, Blobs
<1>2. LayoutFits(L, r)
  BY <1>1 DEF Announce, LayoutFits, Least
<1>3. Len(D) = 9 /\ FitsEnds(D, L, w, g, r)
  BY DEF Announce, Announce_decode, FitsEnds
<1> USE DEF Announce, Announce_decode, FitsAt, StepFits, ReadsAs, need, get, W, Needs, Left, ReadKind
<1>4. Q(1)
  BY <1>1
<1>5. Q(2)
  BY <1>1
<1>6. Q(3)
  BY <1>1
<1>7. Q(4)
  BY <1>1
<1>8. Q(5)
  BY <1>1
<1>9. Q(6)
  BY <1>1
<1>10. Q(7)
  BY <1>1
<1>11. Q(8)
  BY <1>1
<1>12. Q(9)
  BY <1>1
<1> HIDE DEF Q, D, w, g, r, Announce, FieldKind, Fixed, Ints, Blobs, Announce_decode, FitsAt, StepFits, ReadsAs,
       need, get, W, Needs, Left, ReadKind
<1>13. \A i \in 1 .. Len(D) : Q(i)
  BY <1>3, <1>4, <1>5, <1>6, <1>7, <1>8, <1>9, <1>10, <1>11, <1>12
<1> HIDE DEF L
<1>15. Fitted(D, L, "depth")
  BY <1>2, <1>3, <1>13, FitsWith, Zenon DEF Q
<1> QED BY <1>15, Zenon DEF D, L

LEMMA CuckooMsgFits == Fitted(CuckooMsg_decode, CuckooMsg, "")
<1> DEFINE F == Width["filter"]
           D == CuckooMsg_decode
           L == CuckooMsg
           w == <<0, 1, 0, 0, F, 0>>
           g == <<0, 0, 1, 2, 2, 3>>
           r == <<F + 2, F + 1, F, 0>>
           Q(i) == FitsAt(D, L, w, g, r, "", i)
<1>1. F \in Nat /\ Width["u8"] = 1
  BY Widths, Zenon DEF Fixed, Ints, Blobs
<1> USE DEF FieldKind, Fixed, Ints, Blobs
<1>2. LayoutFits(L, r)
  BY <1>1 DEF CuckooMsg, LayoutFits, Least
<1>3. Len(D) = 5 /\ FitsEnds(D, L, w, g, r)
  BY DEF CuckooMsg, CuckooMsg_decode, FitsEnds
<1> USE DEF CuckooMsg, CuckooMsg_decode, FitsAt, StepFits, ReadsAs, need, get, W, Needs, Left, ReadKind
<1>4. Q(1)
  BY <1>1
<1>5. Q(2)
  BY <1>1
<1>6. Q(3)
  BY <1>1
<1>7. Q(4)
  BY <1>1
<1>8. Q(5)
  BY <1>1
<1> HIDE DEF Q, D, w, g, r, CuckooMsg, FieldKind, Fixed, Ints, Blobs, CuckooMsg_decode, FitsAt, StepFits, ReadsAs,
       need, get, W, Needs, Left, ReadKind
<1>9. \A i \in 1 .. Len(D) : Q(i)
  BY <1>3, <1>4, <1>5, <1>6, <1>7, <1>8
<1> HIDE DEF L
<1>11. Fitted(D, L, "")
  BY <1>2, <1>3, <1>9, FitsWith, Zenon DEF Q
<1> QED BY <1>11, Zenon DEF D, L

LEMMA PathLookupFits == Fitted(PathLookup_decode, PathLookup, "")
<1> DEFINE K == Width["key"]
           D == PathLookup_decode
           L == PathLookup
           w == <<0, 2 * K, K, 0, 0, 0>>
           g == <<0, 0, 1, 2, 3, 4>>
           r == <<2 * K + 2, K + 2, 2, 1, 0>>
           Q(i) == FitsAt(D, L, w, g, r, "", i)
<1>1. K \in Nat /\ Width["u8"] = 1
  BY Widths, Zenon DEF Fixed, Ints, Blobs
<1> USE DEF FieldKind, Fixed, Ints, Blobs
<1>2. LayoutFits(L, r)
  BY <1>1 DEF PathLookup, LayoutFits, Least
<1>3. Len(D) = 5 /\ FitsEnds(D, L, w, g, r)
  BY DEF PathLookup, PathLookup_decode, FitsEnds
<1> USE DEF PathLookup, PathLookup_decode, FitsAt, StepFits, ReadsAs, need, get, W, Needs, Left, ReadKind
<1>4. Q(1)
  BY <1>1
<1>5. Q(2)
  BY <1>1
<1>6. Q(3)
  BY <1>1
<1>7. Q(4)
  BY <1>1
<1>8. Q(5)
  BY <1>1
<1> HIDE DEF Q, D, w, g, r, PathLookup, FieldKind, Fixed, Ints, Blobs, PathLookup_decode, FitsAt, StepFits, ReadsAs,
       need, get, W, Needs, Left, ReadKind
<1>9. \A i \in 1 .. Len(D) : Q(i)
  BY <1>3, <1>4, <1>5, <1>6, <1>7, <1>8
<1> HIDE DEF L
<1>11. Fitted(D, L, "")
  BY <1>2, <1>3, <1>9, FitsWith, Zenon DEF Q
<1> QED BY <1>11, Zenon DEF D, L

LEMMA PathNotifyFits == Fitted(PathNotify_decode, PathNotify, "")
<1> DEFINE K == Width["key"]
           D == PathNotify_decode
           L == PathNotify
           w == <<0, 2 * K, K, 0, 0, 0>>
           g == <<0, 0, 1, 2, 3, 4>>
           r == <<2 * K + 2, K + 2, 2, 1, 0>>
           Q(i) == FitsAt(D, L, w, g, r, "", i)
<1>1. K \in Nat /\ Width["u8"] = 1
  BY Widths, Zenon DEF Fixed, Ints, Blobs
<1> USE DEF FieldKind, Fixed, Ints, Blobs
<1>2. LayoutFits(L, r)
  BY <1>1 DEF PathNotify, LayoutFits, Least
<1>3. Len(D) = 5 /\ FitsEnds(D, L, w, g, r)
  BY DEF PathNotify, PathNotify_decode, FitsEnds
<1> USE DEF PathNotify, PathNotify_decode, FitsAt, StepFits, ReadsAs, need, get, W, Needs, Left, ReadKind
<1>4. Q(1)
  BY <1>1
<1>5. Q(2)
  BY <1>1
<1>6. Q(3)
  BY <1>1
<1>7. Q(4)
  BY <1>1
<1>8. Q(5)
  BY <1>1
<1> HIDE DEF Q, D, w, g, r, PathNotify, FieldKind, Fixed, Ints, Blobs, PathNotify_decode, FitsAt, StepFits, ReadsAs,
       need, get, W, Needs, Left, ReadKind
<1>9. \A i \in 1 .. Len(D) : Q(i)
  BY <1>3, <1>4, <1>5, <1>6, <1>7, <1>8
<1> HIDE DEF L
<1>11. Fitted(D, L, "")
  BY <1>2, <1>3, <1>9, FitsWith, Zenon DEF Q
<1> QED BY <1>11, Zenon DEF D, L

LEMMA PathBrokenFits == Fitted(PathBroken_decode, PathBroken, "")
<1> DEFINE K == Width["key"]
           D == PathBroken_decode
           L == PathBroken
           w == <<0, 2 * K, K, 0, 0>>
           g == <<0, 0, 1, 2, 3>>
           r == <<2 * K + 1, K + 1, 1, 0>>
           Q(i) == FitsAt(D, L, w, g, r, "", i)
<1>1. K \in Nat /\ Width["u8"] = 1
  BY Widths, Zenon DEF Fixed, Ints, Blobs
<1> USE DEF FieldKind, Fixed, Ints, Blobs
<1>2. LayoutFits(L, r)
  BY <1>1 DEF PathBroken, LayoutFits, Least
<1>3. Len(D) = 4 /\ FitsEnds(D, L, w, g, r)
  BY DEF PathBroken, PathBroken_decode, FitsEnds
<1> USE DEF PathBroken, PathBroken_decode, FitsAt, StepFits, ReadsAs, need, get, W, Needs, Left, ReadKind
<1>4. Q(1)
  BY <1>1
<1>5. Q(2)
  BY <1>1
<1>6. Q(3)
  BY <1>1
<1>7. Q(4)
  BY <1>1
<1> HIDE DEF Q, D, w, g, r, PathBroken, FieldKind, Fixed, Ints, Blobs, PathBroken_decode, FitsAt, StepFits, ReadsAs,
       need, get, W, Needs, Left, ReadKind
<1>8. \A i \in 1 .. Len(D) : Q(i)
  BY <1>3, <1>4, <1>5, <1>6, <1>7
<1> HIDE DEF L
<1>10. Fitted(D, L, "")
  BY <1>2, <1>3, <1>8, FitsWith, Zenon DEF Q
<1> QED BY <1>10, Zenon DEF D, L

LEMMA PathNegativeFits == Fitted(PathNegative_decode, PathNegative, "")
<1> DEFINE T == Width["tag"]
           D == PathNegative_decode
           L == PathNegative
           w == <<0, T + 1, 1, 0>>
           g == <<0, 0, 1, 2>>
           r == <<T + 1, 1, 0>>
           Q(i) == FitsAt(D, L, w, g, r, "", i)
<1>1. T \in Nat /\ Width["u8"] = 1
  BY Widths, Zenon DEF Fixed, Ints, Blobs
<1> USE DEF FieldKind, Fixed, Ints, Blobs
<1>2. LayoutFits(L, r)
  BY <1>1 DEF PathNegative, LayoutFits, Least
<1>3. Len(D) = 3 /\ FitsEnds(D, L, w, g, r)
  BY DEF PathNegative, PathNegative_decode, FitsEnds
<1> USE DEF PathNegative, PathNegative_decode, FitsAt, StepFits, ReadsAs, need, get, W, Needs, Left, ReadKind
<1>4. Q(1)
  BY <1>1
<1>5. Q(2)
  BY <1>1
<1>6. Q(3)
  BY <1>1
<1> HIDE DEF Q, D, w, g, r, PathNegative, FieldKind, Fixed, Ints, Blobs, PathNegative_decode, FitsAt, StepFits, ReadsAs,
       need, get, W, Needs, Left, ReadKind
<1>7. \A i \in 1 .. Len(D) : Q(i)
  BY <1>3, <1>4, <1>5, <1>6
<1> HIDE DEF L
<1>9. Fitted(D, L, "")
  BY <1>2, <1>3, <1>7, FitsWith, Zenon DEF Q
<1> QED BY <1>9, Zenon DEF D, L

LEMMA TrafficFits == Fitted(Traffic_decode, Traffic, "")
<1> DEFINE K == Width["key"]
           T == Width["tag"]
           H == Width["header"]
           D == Traffic_decode
           L == Traffic
           w == <<0, 0, K + T + H + 1, T + H + 1, T + 1, 1, 0, 0, 0, 0>>
           g == <<0, 1, 1, 2, 3, 4, 5, 6, 7, 8>>
           r == <<K + T + H + 5, K + T + H + 4, T + H + 4, T + 4, 4, 3, 2, 1, 0>>
           Q(i) == FitsAt(D, L, w, g, r, "", i)
<1>1. K \in Nat /\ T \in Nat /\ H \in Nat /\ Width["u8"] = 1
  BY Widths, Zenon DEF Fixed, Ints, Blobs
<1> USE DEF FieldKind, Fixed, Ints, Blobs
<1>2. LayoutFits(L, r)
  BY <1>1 DEF Traffic, LayoutFits, Least
<1>3. Len(D) = 9 /\ FitsEnds(D, L, w, g, r)
  BY DEF Traffic, Traffic_decode, FitsEnds
<1> USE DEF Traffic, Traffic_decode, FitsAt, StepFits, ReadsAs, need, get, W, Needs, Left, ReadKind
<1>4. Q(1)
  BY <1>1
<1>5. Q(2)
  BY <1>1
<1>6. Q(3)
  BY <1>1
<1>7. Q(4)
  BY <1>1
<1>8. Q(5)
  BY <1>1
<1>9. Q(6)
  BY <1>1
<1>10. Q(7)
  BY <1>1
<1>11. Q(8)
  BY <1>1
<1>12. Q(9)
  BY <1>1
<1> HIDE DEF Q, D, w, g, r, Traffic, FieldKind, Fixed, Ints, Blobs, Traffic_decode, FitsAt, StepFits, ReadsAs,
       need, get, W, Needs, Left, ReadKind
<1>13. \A i \in 1 .. Len(D) : Q(i)
  BY <1>3, <1>4, <1>5, <1>6, <1>7, <1>8, <1>9, <1>10, <1>11, <1>12
<1> HIDE DEF L
<1>15. Fitted(D, L, "")
  BY <1>2, <1>3, <1>13, FitsWith, Zenon DEF Q
<1> QED BY <1>15, Zenon DEF D, L

LEMMA OnionKeyAnnounceFits == Fitted(OnionKeyAnnounce_decode, OnionKeyAnnounce, "")
<1> DEFINE K == Width["key"]
           S == Width["sig"]
           U == Width["u64"]
           D == OnionKeyAnnounce_decode
           L == <<<<"origin", "key">>, <<"seq", "u64">>, <<"valid_from_ms", "u64">>,
                  <<"onion_eph_pub", "key">>, <<"sig", "sig">>>>
           w == <<0, 2 * K + S + 2 * U, K + S + 2 * U, K + S + U, K + S, S, 0>>
           g == <<0, 0, 1, 2, 3, 4, 5>>
           r == <<2 * K + S + 2 * U, K + S + 2 * U, K + S + U, K + S, S, 0>>
           Q(i) == FitsAt(D, L, w, g, r, "", i)
<1>1. K \in Nat /\ S \in Nat /\ U \in Nat /\ Width["u8"] = 1
  BY Widths, Zenon DEF Fixed, Ints, Blobs
<1> USE DEF FieldKind, Fixed, Ints, Blobs
<1>2. LayoutFits(L, r)
  BY <1>1 DEF LayoutFits, Least
<1>3. Len(D) = 6 /\ FitsEnds(D, L, w, g, r)
  BY DEF OnionKeyAnnounce_decode, FitsEnds
<1> USE DEF OnionKeyAnnounce_decode, FitsAt, StepFits, ReadsAs, need, get, W, Needs, Left, ReadKind
<1>4. Q(1)
  BY <1>1
<1>5. Q(2)
  BY <1>1
<1>6. Q(3)
  BY <1>1
<1>7. Q(4)
  BY <1>1
<1>8. Q(5)
  BY <1>1
<1>9. Q(6)
  BY <1>1
<1> HIDE DEF Q, D, w, g, r, FieldKind, Fixed, Ints, Blobs, OnionKeyAnnounce_decode, FitsAt, StepFits, ReadsAs,
       need, get, W, Needs, Left, ReadKind
<1>10. \A i \in 1 .. Len(D) : Q(i)
  BY <1>3, <1>4, <1>5, <1>6, <1>7, <1>8, <1>9
<1>11. L = OnionKeyAnnounce
  BY DEF OnionKeyAnnounce, OnionKeyAnnounce_signs
<1> HIDE DEF L
<1>12. Fitted(D, L, "")
  BY <1>2, <1>3, <1>10, FitsWith, Zenon DEF Q
<1> QED BY <1>12, <1>11, Zenon DEF D

LEMMA HolePunchFits == Fitted(HolePunch_decode, HolePunch, "")
<1> DEFINE K == Width["key"]
           S == Width["sig"]
           U == Width["u64"]
           D == HolePunch_decode
           L == <<<<"initiator", "key">>, <<"target", "key">>, <<"valid_from_ms", "u64">>,
                  <<"endpoint", "str">>, <<"sig", "sig">>>>
           w == <<0, 2 * K + S + U + 1, K + S + U + 1, S + U + 1, S + 1, S, 0>>
           g == <<0, 0, 1, 2, 3, 4, 5>>
           r == <<2 * K + S + U + 1, K + S + U + 1, S + U + 1, S + 1, S, 0>>
           Q(i) == FitsAt(D, L, w, g, r, "", i)
<1>1. K \in Nat /\ S \in Nat /\ U \in Nat /\ Width["u8"] = 1
  BY Widths, Zenon DEF Fixed, Ints, Blobs
<1> USE DEF FieldKind, Fixed, Ints, Blobs
<1>2. LayoutFits(L, r)
  BY <1>1 DEF LayoutFits, Least
<1>3. Len(D) = 6 /\ FitsEnds(D, L, w, g, r)
  BY DEF HolePunch_decode, FitsEnds
<1> USE DEF HolePunch_decode, FitsAt, StepFits, ReadsAs, need, get, W, Needs, Left, ReadKind
<1>4. Q(1)
  BY <1>1
<1>5. Q(2)
  BY <1>1
<1>6. Q(3)
  BY <1>1
<1>7. Q(4)
  BY <1>1
<1>8. Q(5)
  BY <1>1
<1>9. Q(6)
  BY <1>1
<1> HIDE DEF Q, D, w, g, r, FieldKind, Fixed, Ints, Blobs, HolePunch_decode, FitsAt, StepFits, ReadsAs,
       need, get, W, Needs, Left, ReadKind
<1>10. \A i \in 1 .. Len(D) : Q(i)
  BY <1>3, <1>4, <1>5, <1>6, <1>7, <1>8, <1>9
<1>11. L = HolePunch
  BY DEF HolePunch, HolePunch_signs
<1> HIDE DEF L
<1>12. Fitted(D, L, "")
  BY <1>2, <1>3, <1>10, FitsWith, Zenon DEF Q
<1> QED BY <1>12, <1>11, Zenon DEF D

LEMMA ReputationReportFits == Fitted(ReputationReport_decode, ReputationReport, "")
<1> DEFINE K == Width["key"]
           S == Width["sig"]
           P == Width["u16"]
           U == Width["u64"]
           D == ReputationReport_decode
           L == <<<<"observer", "key">>, <<"observed", "key">>, <<"score_q16", "u16">>,
                  <<"seq", "u64">>, <<"valid_from_ms", "u64">>, <<"sig", "sig">>>>
           w == <<0, 2 * K + S + P + 2 * U, K + S + P + 2 * U, S + P + 2 * U, S + 2 * U, S + U, S,
                  0>>
           g == <<0, 0, 1, 2, 3, 4, 5, 6>>
           r == <<2 * K + S + P + 2 * U, K + S + P + 2 * U, S + P + 2 * U, S + 2 * U, S + U, S, 0>>
           Q(i) == FitsAt(D, L, w, g, r, "", i)
<1>1. K \in Nat /\ S \in Nat /\ P \in Nat /\ U \in Nat /\ Width["u8"] = 1
  BY Widths, Zenon DEF Fixed, Ints, Blobs
<1> USE DEF FieldKind, Fixed, Ints, Blobs
<1>2. LayoutFits(L, r)
  BY <1>1 DEF LayoutFits, Least
<1>3. Len(D) = 7 /\ FitsEnds(D, L, w, g, r)
  BY DEF ReputationReport_decode, FitsEnds
<1> USE DEF ReputationReport_decode, FitsAt, StepFits, ReadsAs, need, get, W, Needs, Left, ReadKind
<1>4. Q(1)
  BY <1>1
<1>5. Q(2)
  BY <1>1
<1>6. Q(3)
  BY <1>1
<1>7. Q(4)
  BY <1>1
<1>8. Q(5)
  BY <1>1
<1>9. Q(6)
  BY <1>1
<1>10. Q(7)
  BY <1>1
<1> HIDE DEF Q, D, w, g, r, FieldKind, Fixed, Ints, Blobs, ReputationReport_decode, FitsAt, StepFits, ReadsAs,
       need, get, W, Needs, Left, ReadKind
<1>11. \A i \in 1 .. Len(D) : Q(i)
  BY <1>3, <1>4, <1>5, <1>6, <1>7, <1>8, <1>9, <1>10
<1>12. L = ReputationReport
  BY DEF ReputationReport, ReputationReport_signs
<1> HIDE DEF L
<1>13. Fitted(D, L, "")
  BY <1>2, <1>3, <1>11, FitsWith, Zenon DEF Q
<1> QED BY <1>13, <1>12, Zenon DEF D

LEMMA CoordAnnounceFits == Fitted(CoordAnnounce_decode, CoordAnnounce, "")
<1> DEFINE K == Width["key"]
           S == Width["sig"]
           C == Width["coord"]
           V == Width["u32"]
           D == CoordAnnounce_decode
           L == <<<<"version", "u8">>, <<"coord", "coord">>, <<"tree_depth", "u32">>,
                  <<"onion_eph_pub", "key">>, <<"sig", "sig">>>>
           w == <<0, K + S + C + V + 1, K + S + C + V, K + S + V, K + S, S, 0>>
           g == <<0, 0, 1, 2, 3, 4, 5>>
           r == <<K + S + C + V + 1, K + S + C + V, K + S + V, K + S, S, 0>>
           Q(i) == FitsAt(D, L, w, g, r, "", i)
<1>1. K \in Nat /\ S \in Nat /\ C \in Nat /\ V \in Nat /\ Width["u8"] = 1
  BY Widths, Zenon DEF Fixed, Ints, Blobs
<1> USE DEF FieldKind, Fixed, Ints, Blobs
<1>2. LayoutFits(L, r)
  BY <1>1 DEF LayoutFits, Least
<1>3. Len(D) = 6 /\ FitsEnds(D, L, w, g, r)
  BY DEF CoordAnnounce_decode, FitsEnds
<1> USE DEF CoordAnnounce_decode, FitsAt, StepFits, ReadsAs, need, get, W, Needs, Left, ReadKind
<1>4. Q(1)
  BY <1>1
<1>5. Q(2)
  BY <1>1
<1>6. Q(3)
  BY <1>1
<1>7. Q(4)
  BY <1>1
<1>8. Q(5)
  BY <1>1
<1>9. Q(6)
  BY <1>1
<1> HIDE DEF Q, D, w, g, r, FieldKind, Fixed, Ints, Blobs, CoordAnnounce_decode, FitsAt, StepFits, ReadsAs,
       need, get, W, Needs, Left, ReadKind
<1>10. \A i \in 1 .. Len(D) : Q(i)
  BY <1>3, <1>4, <1>5, <1>6, <1>7, <1>8, <1>9
<1>11. L = CoordAnnounce
  BY DEF CoordAnnounce, CoordAnnounce_signs
<1> HIDE DEF L
<1>12. Fitted(D, L, "")
  BY <1>2, <1>3, <1>10, FitsWith, Zenon DEF Q
<1> QED BY <1>12, <1>11, Zenon DEF D

LEMMA CapabilityAnnounceFits == Fitted(CapabilityAnnounce_decode, CapabilityAnnounce, "")
<1> DEFINE K == Width["key"]
           S == Width["sig"]
           V == Width["u32"]
           U == Width["u64"]
           D == CapabilityAnnounce_decode
           L == <<<<"origin", "key">>, <<"caps", "u32">>, <<"seq", "u64">>,
                  <<"valid_from_ms", "u64">>, <<"sig", "sig">>>>
           w == <<0, K + S + V + 2 * U, S + V + 2 * U, S + 2 * U, S + U, S, 0>>
           g == <<0, 0, 1, 2, 3, 4, 5>>
           r == <<K + S + V + 2 * U, S + V + 2 * U, S + 2 * U, S + U, S, 0>>
           Q(i) == FitsAt(D, L, w, g, r, "", i)
<1>1. K \in Nat /\ S \in Nat /\ V \in Nat /\ U \in Nat /\ Width["u8"] = 1
  BY Widths, Zenon DEF Fixed, Ints, Blobs
<1> USE DEF FieldKind, Fixed, Ints, Blobs
<1>2. LayoutFits(L, r)
  BY <1>1 DEF LayoutFits, Least
<1>3. Len(D) = 6 /\ FitsEnds(D, L, w, g, r)
  BY DEF CapabilityAnnounce_decode, FitsEnds
<1> USE DEF CapabilityAnnounce_decode, FitsAt, StepFits, ReadsAs, need, get, W, Needs, Left, ReadKind
<1>4. Q(1)
  BY <1>1
<1>5. Q(2)
  BY <1>1
<1>6. Q(3)
  BY <1>1
<1>7. Q(4)
  BY <1>1
<1>8. Q(5)
  BY <1>1
<1>9. Q(6)
  BY <1>1
<1> HIDE DEF Q, D, w, g, r, FieldKind, Fixed, Ints, Blobs, CapabilityAnnounce_decode, FitsAt, StepFits, ReadsAs,
       need, get, W, Needs, Left, ReadKind
<1>10. \A i \in 1 .. Len(D) : Q(i)
  BY <1>3, <1>4, <1>5, <1>6, <1>7, <1>8, <1>9
<1>11. L = CapabilityAnnounce
  BY DEF CapabilityAnnounce, CapabilityAnnounce_signs
<1> HIDE DEF L
<1>12. Fitted(D, L, "")
  BY <1>2, <1>3, <1>10, FitsWith, Zenon DEF Q
<1> QED BY <1>12, <1>11, Zenon DEF D

LEMMA OnionPacketFits == Fitted(OnionPacket_decode, OnionPacket, "cell")
<1> DEFINE K == Width["key"]
           T == Width["tag"]
           D == OnionPacket_decode
           L == OnionPacket
           w == <<0, K + T, K, 0, 0>>
           g == <<0, 0, 1, 2, 3>>
           r == <<K + T + 1, K + 1, 1, 0>>
           Q(i) == FitsAt(D, L, w, g, r, "cell", i)
<1>1. K \in Nat /\ T \in Nat /\ Width["u8"] = 1
  BY Widths, Zenon DEF Fixed, Ints, Blobs
<1> USE DEF FieldKind, Fixed, Ints, Blobs
<1>2. LayoutFits(L, r)
  BY <1>1 DEF OnionPacket, LayoutFits, Least
<1>3. Len(D) = 4 /\ FitsEnds(D, L, w, g, r)
  BY DEF OnionPacket, OnionPacket_decode, FitsEnds
<1> USE DEF OnionPacket, OnionPacket_decode, FitsAt, StepFits, ReadsAs, need, get, W, Needs, Left, ReadKind
<1>4. Q(1)
  BY <1>1
<1>5. Q(2)
  BY <1>1
<1>6. Q(3)
  BY <1>1
<1>7. Q(4)
  BY <1>1
<1> HIDE DEF Q, D, w, g, r, OnionPacket, FieldKind, Fixed, Ints, Blobs, OnionPacket_decode, FitsAt, StepFits, ReadsAs,
       need, get, W, Needs, Left, ReadKind
<1>8. \A i \in 1 .. Len(D) : Q(i)
  BY <1>3, <1>4, <1>5, <1>6, <1>7
<1> HIDE DEF L
<1>10. Fitted(D, L, "cell")
  BY <1>2, <1>3, <1>8, FitsWith, Zenon DEF Q
<1> QED BY <1>10, Zenon DEF D, L

\* What reads of the widths of a handshake ask for and leave.
LEMMA FixedReads ==
    \A k \in {"key", "sig", "coord", "kem", "ct", "dsa", "dsasig", "u64"} :
        /\ k \in ReadKind /\ k \notin {"cell", "depth"}
        /\ Needs(k) = Width[k] /\ \A a : Left(k, a) = a - Width[k]
<1>1. \A k \in {"key", "sig", "coord", "kem", "ct", "dsa", "dsasig", "u64"} : k \in Fixed /\ k \notin {"cell", "depth"}
  BY DEF Fixed, Ints, Blobs
<1>2. \A k \in Fixed : k \in ReadKind /\ Needs(k) = Width[k] /\ \A a : Left(k, a) = a - Width[k]
  BY Zenon DEF ReadKind, FieldKind, Needs, Left
<1> QED BY <1>1, <1>2, Zenon

LEMMA SessionInitFits == Fitted(SessionInit_decode, SessionInit, "")
<1> DEFINE K == Width["key"]
           S == Width["sig"]
           C == Width["coord"]
           M == Width["kem"]
           A == Width["dsa"]
           B == Width["dsasig"]
           U == Width["u64"]
           D == SessionInit_decode
           L == SessionInit
           w == <<0, 3 * K + S + C + M + A + B + U, 2 * K + S + C + M + A + B + U,
                  2 * K + C + M + A + B + U, K + C + M + A + B + U, K + C + M + A + B,
                  C + M + A + B, C + A + B, C + B, C, 0>>
           g == <<0, 0, 1, 2, 3, 4, 5, 6, 7, 8, 9>>
           r == <<3 * K + S + C + M + A + B + U, 2 * K + S + C + M + A + B + U,
                  2 * K + C + M + A + B + U, K + C + M + A + B + U, K + C + M + A + B,
                  C + M + A + B, C + A + B, C + B, C, 0>>
           Q(i) == FitsAt(D, L, w, g, r, "", i)
<1>1. K \in Nat /\ S \in Nat /\ C \in Nat /\ M \in Nat /\ A \in Nat /\ B \in Nat /\ U \in Nat /\ Width["u8"] = 1
  BY Widths, Zenon DEF Fixed, Ints, Blobs
<1> USE DEF FieldKind, Fixed, Ints, Blobs
<1>2. LayoutFits(L, r)
  BY <1>1 DEF SessionInit, LayoutFits, Least
<1>3. Len(D) = 10 /\ FitsEnds(D, L, w, g, r)
  BY DEF SessionInit, SessionInit_decode, FitsEnds
<1> HIDE DEF FieldKind, Fixed, Ints, Blobs
<1> USE DEF SessionInit, SessionInit_decode, FitsAt, StepFits, ReadsAs, need, get, W
<1>4. Q(1)
  BY <1>1, FixedReads
<1>5. Q(2)
  BY <1>1, FixedReads
<1>6. Q(3)
  BY <1>1, FixedReads
<1>7. Q(4)
  BY <1>1, FixedReads
<1>8. Q(5)
  BY <1>1, FixedReads
<1>9. Q(6)
  BY <1>1, FixedReads
<1>10. Q(7)
  BY <1>1, FixedReads
<1>11. Q(8)
  BY <1>1, FixedReads
<1>12. Q(9)
  BY <1>1, FixedReads
<1>13. Q(10)
  BY <1>1, FixedReads
<1> HIDE DEF Q, D, w, g, r, SessionInit, SessionInit_decode, FitsAt, StepFits, ReadsAs, need, get, W
<1>14. \A i \in 1 .. Len(D) : Q(i)
  BY <1>3, <1>4, <1>5, <1>6, <1>7, <1>8, <1>9, <1>10, <1>11, <1>12, <1>13
<1> HIDE DEF L
<1>16. Fitted(D, L, "")
  BY <1>2, <1>3, <1>14, FitsWith, Zenon DEF Q
<1> QED BY <1>16, Zenon DEF D, L

LEMMA SessionAckFits == Fitted(SessionAck_decode, SessionAck, "")
<1> DEFINE K == Width["key"]
           S == Width["sig"]
           C == Width["coord"]
           E == Width["ct"]
           A == Width["dsa"]
           B == Width["dsasig"]
           U == Width["u64"]
           D == SessionAck_decode
           L == SessionAck
           w == <<0, 3 * K + S + C + E + A + B + U, 2 * K + S + C + E + A + B + U,
                  2 * K + C + E + A + B + U, K + C + E + A + B + U, K + C + E + A + B,
                  C + E + A + B, C + A + B, C + B, C, 0>>
           g == <<0, 0, 1, 2, 3, 4, 5, 6, 7, 8, 9>>
           r == <<3 * K + S + C + E + A + B + U, 2 * K + S + C + E + A + B + U,
                  2 * K + C + E + A + B + U, K + C + E + A + B + U, K + C + E + A + B,
                  C + E + A + B, C + A + B, C + B, C, 0>>
           Q(i) == FitsAt(D, L, w, g, r, "", i)
<1>1. K \in Nat /\ S \in Nat /\ C \in Nat /\ E \in Nat /\ A \in Nat /\ B \in Nat /\ U \in Nat /\ Width["u8"] = 1
  BY Widths, Zenon DEF Fixed, Ints, Blobs
<1> USE DEF FieldKind, Fixed, Ints, Blobs
<1>2. LayoutFits(L, r)
  BY <1>1 DEF SessionAck, LayoutFits, Least
<1>3. Len(D) = 10 /\ FitsEnds(D, L, w, g, r)
  BY DEF SessionAck, SessionAck_decode, FitsEnds
<1> HIDE DEF FieldKind, Fixed, Ints, Blobs
<1> USE DEF SessionAck, SessionAck_decode, FitsAt, StepFits, ReadsAs, need, get, W
<1>4. Q(1)
  BY <1>1, FixedReads
<1>5. Q(2)
  BY <1>1, FixedReads
<1>6. Q(3)
  BY <1>1, FixedReads
<1>7. Q(4)
  BY <1>1, FixedReads
<1>8. Q(5)
  BY <1>1, FixedReads
<1>9. Q(6)
  BY <1>1, FixedReads
<1>10. Q(7)
  BY <1>1, FixedReads
<1>11. Q(8)
  BY <1>1, FixedReads
<1>12. Q(9)
  BY <1>1, FixedReads
<1>13. Q(10)
  BY <1>1, FixedReads
<1> HIDE DEF Q, D, w, g, r, SessionAck, SessionAck_decode, FitsAt, StepFits, ReadsAs, need, get, W
<1>14. \A i \in 1 .. Len(D) : Q(i)
  BY <1>3, <1>4, <1>5, <1>6, <1>7, <1>8, <1>9, <1>10, <1>11, <1>12, <1>13
<1> HIDE DEF L
<1>16. Fitted(D, L, "")
  BY <1>2, <1>3, <1>14, FitsWith, Zenon DEF Q
<1> QED BY <1>16, Zenon DEF D, L


LastRead(k) == IF k = "Announce" THEN "depth" ELSE IF k = "OnionPacket" THEN "cell" ELSE ""

LEMMA KindList ==
    /\ Kinds = {"SigReq", "SigRes", "Announce", "CuckooMsg", "PathLookup", "PathNotify", "PathBroken",
                "Traffic", "CoordAnnounce", "OnionPacket", "OnionKeyAnnounce", "ReputationReport",
                "HolePunch", "PathNegative", "CapabilityAnnounce", "SessionInit", "SessionAck"}
    /\ \A k \in Kinds : Type[k] \in Nat /\ \A j \in Kinds : Type[j] = Type[k] => j = k
<1>1. Kinds = {"SigReq", "SigRes", "Announce", "CuckooMsg", "PathLookup", "PathNotify", "PathBroken",
               "Traffic", "CoordAnnounce", "OnionPacket", "OnionKeyAnnounce", "ReputationReport",
               "HolePunch", "PathNegative", "CapabilityAnnounce", "SessionInit", "SessionAck"}
  BY Zenon DEF Kinds, Type
<1>2. \A k \in Kinds : Type[k] \in Nat /\ \A j \in Kinds : Type[j] = Type[k] => j = k
  BY <1>1 DEF Type
<1> QED BY <1>1, <1>2, Zenon

LEMMA EveryFit == \A k \in Kinds : Fitted(Decoder[k], Layout[k], LastRead(k))
<1> DEFINE P(k) == Fitted(Decoder[k], Layout[k], LastRead(k))
<1>1. P("SigReq")
  BY SigReqFits, Zenon DEF Decoder, Layout, LastRead
<1>2. P("SigRes")
  BY SigResFits, Zenon DEF Decoder, Layout, LastRead
<1>3. P("Announce")
  BY AnnounceFits, Zenon DEF Decoder, Layout, LastRead
<1>4. P("CuckooMsg")
  BY CuckooMsgFits, Zenon DEF Decoder, Layout, LastRead
<1>5. P("PathLookup")
  BY PathLookupFits, Zenon DEF Decoder, Layout, LastRead
<1>6. P("PathNotify")
  BY PathNotifyFits, Zenon DEF Decoder, Layout, LastRead
<1>7. P("PathBroken")
  BY PathBrokenFits, Zenon DEF Decoder, Layout, LastRead
<1>8. P("PathNegative")
  BY PathNegativeFits, Zenon DEF Decoder, Layout, LastRead
<1>9. P("Traffic")
  BY TrafficFits, Zenon DEF Decoder, Layout, LastRead
<1>10. P("OnionKeyAnnounce")
  BY OnionKeyAnnounceFits, Zenon DEF Decoder, Layout, LastRead
<1>11. P("HolePunch")
  BY HolePunchFits, Zenon DEF Decoder, Layout, LastRead
<1>12. P("ReputationReport")
  BY ReputationReportFits, Zenon DEF Decoder, Layout, LastRead
<1>13. P("CoordAnnounce")
  BY CoordAnnounceFits, Zenon DEF Decoder, Layout, LastRead
<1>14. P("CapabilityAnnounce")
  BY CapabilityAnnounceFits, Zenon DEF Decoder, Layout, LastRead
<1>15. P("OnionPacket")
  BY OnionPacketFits, Zenon DEF Decoder, Layout, LastRead
<1>16. P("SessionInit")
  BY SessionInitFits, Zenon DEF Decoder, Layout, LastRead
<1>17. P("SessionAck")
  BY SessionAckFits, Zenon DEF Decoder, Layout, LastRead
<1> HIDE DEF P
<1>18. \A k \in Kinds : P(k)
  BY KindList, <1>1, <1>2, <1>3, <1>4, <1>5, <1>6, <1>7, <1>8, <1>9,
     <1>10, <1>11, <1>12, <1>13, <1>14, <1>15, <1>16, <1>17, Zenon
<1> QED BY <1>18, Zenon DEF P

\* Where the fields with a meaning of their own are.
FieldFacts(k, L) ==
    \A x \in 1 .. Len(L) :
      /\ L[x][1] \in Tag
      /\ L[x][2] = "str" <=> k = "HolePunch" /\ L[x][1] = "endpoint"
      /\ L[x][1] = "version" => L[x][2] = "u8"
      /\ k = "Traffic" /\ L[x][1] = "payload" => L[x][2] = "vec"

LEMMA EveryField == \A k \in Kinds : FieldFacts(k, Layout[k])
<1> DEFINE P(k) == FieldFacts(k, Layout[k])
<1>1. P("SigReq")
  <2>1. FieldFacts("SigReq", SigReq)
    BY DEF FieldFacts, Tag, SigReq
  <2> QED BY <2>1, Zenon DEF Layout
<1>2. P("SigRes")
  <2>1. FieldFacts("SigRes", SigRes)
    BY DEF FieldFacts, Tag, SigRes
  <2> QED BY <2>1, Zenon DEF Layout
<1>3. P("Announce")
  <2>1. FieldFacts("Announce", Announce)
    BY DEF FieldFacts, Tag, Announce
  <2> QED BY <2>1, Zenon DEF Layout
<1>4. P("CuckooMsg")
  <2>1. FieldFacts("CuckooMsg", CuckooMsg)
    BY DEF FieldFacts, Tag, CuckooMsg
  <2> QED BY <2>1, Zenon DEF Layout
<1>5. P("PathLookup")
  <2>1. FieldFacts("PathLookup", PathLookup)
    BY DEF FieldFacts, Tag, PathLookup
  <2> QED BY <2>1, Zenon DEF Layout
<1>6. P("PathNotify")
  <2>1. FieldFacts("PathNotify", PathNotify)
    BY DEF FieldFacts, Tag, PathNotify
  <2> QED BY <2>1, Zenon DEF Layout
<1>7. P("PathBroken")
  <2>1. FieldFacts("PathBroken", PathBroken)
    BY DEF FieldFacts, Tag, PathBroken
  <2> QED BY <2>1, Zenon DEF Layout
<1>8. P("PathNegative")
  <2>1. FieldFacts("PathNegative", PathNegative)
    BY DEF FieldFacts, Tag, PathNegative
  <2> QED BY <2>1, Zenon DEF Layout
<1>9. P("Traffic")
  <2>1. FieldFacts("Traffic", Traffic)
    BY DEF FieldFacts, Tag, Traffic
  <2> QED BY <2>1, Zenon DEF Layout
<1>10. P("OnionKeyAnnounce")
  <2>1. FieldFacts("OnionKeyAnnounce", OnionKeyAnnounce)
    BY DEF FieldFacts, Tag, OnionKeyAnnounce, OnionKeyAnnounce_signs
  <2> QED BY <2>1, Zenon DEF Layout
<1>11. P("HolePunch")
  <2>1. FieldFacts("HolePunch", HolePunch)
    BY DEF FieldFacts, Tag, HolePunch, HolePunch_signs
  <2> QED BY <2>1, Zenon DEF Layout
<1>12. P("ReputationReport")
  <2>1. FieldFacts("ReputationReport", ReputationReport)
    BY DEF FieldFacts, Tag, ReputationReport, ReputationReport_signs
  <2> QED BY <2>1, Zenon DEF Layout
<1>13. P("CoordAnnounce")
  <2>1. FieldFacts("CoordAnnounce", CoordAnnounce)
    BY DEF FieldFacts, Tag, CoordAnnounce, CoordAnnounce_signs
  <2> QED BY <2>1, Zenon DEF Layout
<1>14. P("CapabilityAnnounce")
  <2>1. FieldFacts("CapabilityAnnounce", CapabilityAnnounce)
    BY DEF FieldFacts, Tag, CapabilityAnnounce, CapabilityAnnounce_signs
  <2> QED BY <2>1, Zenon DEF Layout
<1>15. P("OnionPacket")
  <2>1. FieldFacts("OnionPacket", OnionPacket)
    BY DEF FieldFacts, Tag, OnionPacket
  <2> QED BY <2>1, Zenon DEF Layout
<1>16. P("SessionInit")
  <2>1. FieldFacts("SessionInit", SessionInit)
    BY DEF FieldFacts, Tag, SessionInit
  <2> QED BY <2>1, Zenon DEF Layout
<1>17. P("SessionAck")
  <2>1. FieldFacts("SessionAck", SessionAck)
    BY DEF FieldFacts, Tag, SessionAck
  <2> QED BY <2>1, Zenon DEF Layout
<1> HIDE DEF P
<1>18. \A k \in Kinds : P(k)
  BY KindList, <1>1, <1>2, <1>3, <1>4, <1>5, <1>6, <1>7, <1>8, <1>9,
     <1>10, <1>11, <1>12, <1>13, <1>14, <1>15, <1>16, <1>17, Zenon
<1> QED BY <1>18, Zenon DEF P

\* The signed fields are fields of the format, and all others are signatures or advisory.
SignFacts(L, G) ==
    /\ LayoutFits(G, [j \in 1 .. Len(G) + 1 |-> Width["sig"]])
    /\ \A j \in 1 .. Len(G) : \E x \in 1 .. Len(L) : L[x][1] = G[j][1] /\ L[x][2] = G[j][2]
    /\ \A x \in 1 .. Len(L) : L[x][1] \notin Unsigned =>
         \E j \in 1 .. Len(G) : L[x][1] = G[j][1] /\ L[x][2] = G[j][2]

LEMMA SignsFit == Signed \subseteq Kinds /\ \A k \in Signed : SignFacts(Layout[k], Signs[k])
<1> DEFINE P(k) == SignFacts(Layout[k], Signs[k])
<1>0. Width["sig"] \in Nat /\ \A k \in FieldKind : Least(k) \in Nat
  BY Widths, Zenon DEF Least, Fixed, Blobs
<1>1. P("Announce")
  <2> DEFINE G == Announce_signs
  <2>1. LayoutFits(G, [j \in 1 .. Len(G) + 1 |-> Width["sig"]])
    BY <1>0 DEF LayoutFits, FieldKind, Fixed, Ints, Blobs, Announce_signs
  <2>2. SignFacts(Announce, G)
    <3> HIDE DEF G
    <3>1. \A j \in 1 .. Len(G) : \E x \in 1 .. Len(Announce) : Announce[x][1] = G[j][1] /\ Announce[x][2] = G[j][2]
      BY DEF G, Announce, Announce_signs
    <3>2. \A x \in 1 .. Len(Announce) : Announce[x][1] \notin Unsigned =>
            \E j \in 1 .. Len(G) : Announce[x][1] = G[j][1] /\ Announce[x][2] = G[j][2]
      BY DEF G, Unsigned, Announce, Announce_signs
    <3> QED BY <2>1, <3>1, <3>2, Zenon DEF SignFacts
  <2> HIDE DEF G
  <2> QED BY <2>2, Zenon DEF Layout, Signs, G
<1>2. P("CoordAnnounce")
  <2> DEFINE G == CoordAnnounce_signs
  <2>1. LayoutFits(G, [j \in 1 .. Len(G) + 1 |-> Width["sig"]])
    BY <1>0 DEF LayoutFits, FieldKind, Fixed, Ints, Blobs, CoordAnnounce_signs
  <2>2. SignFacts(CoordAnnounce, G)
    <3> HIDE DEF G
    <3>1. \A j \in 1 .. Len(G) : \E x \in 1 .. Len(CoordAnnounce) : CoordAnnounce[x][1] = G[j][1] /\ CoordAnnounce[x][2] = G[j][2]
      BY DEF G, CoordAnnounce, CoordAnnounce_signs
    <3>2. \A x \in 1 .. Len(CoordAnnounce) : CoordAnnounce[x][1] \notin Unsigned =>
            \E j \in 1 .. Len(G) : CoordAnnounce[x][1] = G[j][1] /\ CoordAnnounce[x][2] = G[j][2]
      BY DEF G, Unsigned, CoordAnnounce, CoordAnnounce_signs
    <3> QED BY <2>1, <3>1, <3>2, Zenon DEF SignFacts
  <2> HIDE DEF G
  <2> QED BY <2>2, Zenon DEF Layout, Signs, G
<1>3. P("OnionKeyAnnounce")
  <2> DEFINE G == OnionKeyAnnounce_signs
  <2>1. LayoutFits(G, [j \in 1 .. Len(G) + 1 |-> Width["sig"]])
    BY <1>0 DEF LayoutFits, FieldKind, Fixed, Ints, Blobs, OnionKeyAnnounce_signs
  <2>2. SignFacts(OnionKeyAnnounce, G)
    <3> HIDE DEF G
    <3>1. \A j \in 1 .. Len(G) : \E x \in 1 .. Len(OnionKeyAnnounce) : OnionKeyAnnounce[x][1] = G[j][1] /\ OnionKeyAnnounce[x][2] = G[j][2]
      BY DEF G, OnionKeyAnnounce, OnionKeyAnnounce_signs
    <3>2. \A x \in 1 .. Len(OnionKeyAnnounce) : OnionKeyAnnounce[x][1] \notin Unsigned =>
            \E j \in 1 .. Len(G) : OnionKeyAnnounce[x][1] = G[j][1] /\ OnionKeyAnnounce[x][2] = G[j][2]
      BY DEF G, Unsigned, OnionKeyAnnounce, OnionKeyAnnounce_signs
    <3> QED BY <2>1, <3>1, <3>2, Zenon DEF SignFacts
  <2> HIDE DEF G
  <2> QED BY <2>2, Zenon DEF Layout, Signs, G
<1>4. P("ReputationReport")
  <2> DEFINE G == ReputationReport_signs
  <2>1. LayoutFits(G, [j \in 1 .. Len(G) + 1 |-> Width["sig"]])
    BY <1>0 DEF LayoutFits, FieldKind, Fixed, Ints, Blobs, ReputationReport_signs
  <2>2. SignFacts(ReputationReport, G)
    <3> HIDE DEF G
    <3>1. \A j \in 1 .. Len(G) : \E x \in 1 .. Len(ReputationReport) : ReputationReport[x][1] = G[j][1] /\ ReputationReport[x][2] = G[j][2]
      BY DEF G, ReputationReport, ReputationReport_signs
    <3>2. \A x \in 1 .. Len(ReputationReport) : ReputationReport[x][1] \notin Unsigned =>
            \E j \in 1 .. Len(G) : ReputationReport[x][1] = G[j][1] /\ ReputationReport[x][2] = G[j][2]
      BY DEF G, Unsigned, ReputationReport, ReputationReport_signs
    <3> QED BY <2>1, <3>1, <3>2, Zenon DEF SignFacts
  <2> HIDE DEF G
  <2> QED BY <2>2, Zenon DEF Layout, Signs, G
<1>5. P("HolePunch")
  <2> DEFINE G == HolePunch_signs
  <2>1. LayoutFits(G, [j \in 1 .. Len(G) + 1 |-> Width["sig"]])
    BY <1>0 DEF LayoutFits, FieldKind, Fixed, Ints, Blobs, HolePunch_signs
  <2>2. SignFacts(HolePunch, G)
    <3> HIDE DEF G
    <3>1. \A j \in 1 .. Len(G) : \E x \in 1 .. Len(HolePunch) : HolePunch[x][1] = G[j][1] /\ HolePunch[x][2] = G[j][2]
      BY DEF G, HolePunch, HolePunch_signs
    <3>2. \A x \in 1 .. Len(HolePunch) : HolePunch[x][1] \notin Unsigned =>
            \E j \in 1 .. Len(G) : HolePunch[x][1] = G[j][1] /\ HolePunch[x][2] = G[j][2]
      BY DEF G, Unsigned, HolePunch, HolePunch_signs
    <3> QED BY <2>1, <3>1, <3>2, Zenon DEF SignFacts
  <2> HIDE DEF G
  <2> QED BY <2>2, Zenon DEF Layout, Signs, G
<1>6. P("CapabilityAnnounce")
  <2> DEFINE G == CapabilityAnnounce_signs
  <2>1. LayoutFits(G, [j \in 1 .. Len(G) + 1 |-> Width["sig"]])
    BY <1>0 DEF LayoutFits, FieldKind, Fixed, Ints, Blobs, CapabilityAnnounce_signs
  <2>2. SignFacts(CapabilityAnnounce, G)
    <3> HIDE DEF G
    <3>1. \A j \in 1 .. Len(G) : \E x \in 1 .. Len(CapabilityAnnounce) : CapabilityAnnounce[x][1] = G[j][1] /\ CapabilityAnnounce[x][2] = G[j][2]
      BY DEF G, CapabilityAnnounce, CapabilityAnnounce_signs
    <3>2. \A x \in 1 .. Len(CapabilityAnnounce) : CapabilityAnnounce[x][1] \notin Unsigned =>
            \E j \in 1 .. Len(G) : CapabilityAnnounce[x][1] = G[j][1] /\ CapabilityAnnounce[x][2] = G[j][2]
      BY DEF G, Unsigned, CapabilityAnnounce, CapabilityAnnounce_signs
    <3> QED BY <2>1, <3>1, <3>2, Zenon DEF SignFacts
  <2> HIDE DEF G
  <2> QED BY <2>2, Zenon DEF Layout, Signs, G
<1>7. P("SessionInit")
  <2> DEFINE G == SessionInit_signs
  <2>1. LayoutFits(G, [j \in 1 .. Len(G) + 1 |-> Width["sig"]])
    BY <1>0 DEF LayoutFits, FieldKind, Fixed, Ints, Blobs, SessionInit_signs
  <2>2. SignFacts(SessionInit, G)
    <3> HIDE DEF G
    <3>1. \A j \in 1 .. Len(G) : \E x \in 1 .. Len(SessionInit) : SessionInit[x][1] = G[j][1] /\ SessionInit[x][2] = G[j][2]
      BY DEF G, SessionInit, SessionInit_signs
    <3>2. \A x \in 1 .. Len(SessionInit) : SessionInit[x][1] \notin Unsigned =>
            \E j \in 1 .. Len(G) : SessionInit[x][1] = G[j][1] /\ SessionInit[x][2] = G[j][2]
      BY DEF G, Unsigned, SessionInit, SessionInit_signs
    <3> QED BY <2>1, <3>1, <3>2, Zenon DEF SignFacts
  <2> HIDE DEF G
  <2> QED BY <2>2, Zenon DEF Layout, Signs, G
<1>8. P("SessionAck")
  <2> DEFINE G == SessionAck_signs
  <2>1. LayoutFits(G, [j \in 1 .. Len(G) + 1 |-> Width["sig"]])
    BY <1>0 DEF LayoutFits, FieldKind, Fixed, Ints, Blobs, SessionAck_signs
  <2>2. SignFacts(SessionAck, G)
    <3> HIDE DEF G
    <3>1. \A j \in 1 .. Len(G) : \E x \in 1 .. Len(SessionAck) : SessionAck[x][1] = G[j][1] /\ SessionAck[x][2] = G[j][2]
      BY DEF G, SessionAck, SessionAck_signs
    <3>2. \A x \in 1 .. Len(SessionAck) : SessionAck[x][1] \notin Unsigned =>
            \E j \in 1 .. Len(G) : SessionAck[x][1] = G[j][1] /\ SessionAck[x][2] = G[j][2]
      BY DEF G, Unsigned, SessionAck, SessionAck_signs
    <3> QED BY <2>1, <3>1, <3>2, Zenon DEF SignFacts
  <2> HIDE DEF G
  <2> QED BY <2>2, Zenon DEF Layout, Signs, G
<1> HIDE DEF P
<1>9. /\ Signed = {"Announce", "CoordAnnounce", "OnionKeyAnnounce", "ReputationReport", "HolePunch",
                    "CapabilityAnnounce", "SessionInit", "SessionAck"}
      /\ Signed \subseteq Kinds
  BY KindList, Zenon DEF Signed, Signs
<1>10. \A k \in Signed : P(k)
  BY <1>1, <1>2, <1>3, <1>4, <1>5, <1>6, <1>7, <1>8, <1>9, Zenon
<1> QED BY <1>9, <1>10, Zenon DEF P

-----------------------------------------------------------------------------
(* Dispatch.                                                               *)

Unpadded(r) == LET u == unpad_payload(r.m.payload) IN [out |-> u.out, m |-> [r.m EXCEPT !.payload = u.v]]
DecodeAs(k, e) ==
    IF k = "Traffic" /\ Run(Decoder[k], e).out = "ok" THEN Unpadded(Run(Decoder[k], e))
    ELSE Run(Decoder[k], e)

LEMMA DecodeKind ==
    ASSUME NEW d, NEW k \in Kinds, d # <<>>, Value(d[1]) = Type[k]
    PROVE  Decode(d) = DecodeAs(k, Tail(d))
<1> DEFINE ks == {x \in Kinds : Type[x] = Value(d[1])}
           c == CHOOSE x \in ks : TRUE
<1>1. ks = {k}
  BY KindList, Zenon
<1>2. c \in ks
  BY <1>1, Zenon
<1>3. c = k
  BY <1>1, <1>2, Zenon
<1>4. Decode(d) = IF ks = {} THEN [out |-> "bail", m |-> <<>>] ELSE DecodeAs(c, Tail(d))
  BY DEF Decode, DecodeAs, Unpadded, Handled
<1> HIDE DEF ks, c
<1> QED BY <1>1, <1>3, <1>4, Zenon

LEMMA DecodeNone ==
    ASSUME NEW d, d = <<>> \/ \A k \in Kinds : Value(d[1]) # Type[k]
    PROVE  Decode(d) = [out |-> "bail", m |-> <<>>]
<1>1. (IF d = <<>> THEN {} ELSE {k \in Kinds : Type[k] = Value(d[1])}) = {}
  BY Zenon
<1> QED BY <1>1, Zenon DEF Decode

LEMMA UnpadOut == ASSUME NEW d PROVE unpad_payload(d).out \in {"ok", "bail"}
BY Zenon DEF unpad_payload

\* No buffer makes a decoder slice past its end: every byte string is decoded or refused, whatever
\* the widths and limits are (dispatch and the decode functions of packet.rs and session.rs).
THEOREM DecodeIsTotal == \A d \in Seq(Byte) : Decode(d).out \in {"ok", "bail"}
<1> SUFFICES ASSUME NEW d \in Seq(Byte) PROVE Decode(d).out \in {"ok", "bail"}
  BY Zenon
<1>1. CASE d = <<>> \/ \A k \in Kinds : Value(d[1]) # Type[k]
  <2>1. Decode(d) = [out |-> "bail", m |-> <<>>]
    BY <1>1, DecodeNone, Zenon
  <2> QED BY <2>1
<1>2. CASE ~(d = <<>> \/ \A k \in Kinds : Value(d[1]) # Type[k])
  <2>1. PICK k \in Kinds : Value(d[1]) = Type[k]
    BY <1>2, Zenon
  <2>2. Tail(d) \in Seq(Byte) /\ d # <<>>
    BY <1>2
  <2> DEFINE e == Tail(d)
             r == Run(Decoder[k], e)
  <2>3. Decode(d) = DecodeAs(k, e)
    BY <2>1, <2>2, DecodeKind, Zenon
  <2> HIDE DEF e
  <2>4. r.out \in {"ok", "bail"}
    <3>1. Fitted(Decoder[k], Layout[k], LastRead(k))
      BY EveryFit, Zenon
    <3>2. \E w, g, s : Fits(Decoder[k], Layout[k], w, g, s)
      BY <3>1, Zenon DEF Fitted
    <3> QED BY <2>2, <3>2, RunSafe, Zenon DEF e
  <2>5. Unpadded(r).out \in {"ok", "bail"}
    BY UnpadOut, Zenon DEF Unpadded
  <2> HIDE DEF r
  <2>6. DecodeAs(k, e) = r \/ DecodeAs(k, e) = Unpadded(r)
    BY Zenon DEF DecodeAs, r
  <2> QED BY <2>3, <2>4, <2>5, <2>6, Zenon
<1> QED BY <1>1, <1>2, Zenon

-----------------------------------------------------------------------------
(* Padding.                                                                *)

LEMMA ShortFacts ==
    ASSUME NEW v \in Seq(Byte)
    PROVE  /\ Short(v) \in Seq(Byte) /\ Len(Short(v)) \in Nat /\ Len(Short(v)) < U16
           /\ Len(Short(v)) <= Len(v)
<1> DEFINE n == IF Len(v) < U16 THEN Len(v) ELSE U16 - 1
<1>1. n \in 0 .. Len(v) /\ n < U16 /\ n \in Nat
  BY Radices
<1> HIDE DEF n
<1>2. SubSeq(v, 1, n) \in Seq(Byte) /\ Len(SubSeq(v, 1, n)) = n
  BY <1>1
<1> QED BY <1>1, <1>2 DEF Short, n

LEMMA PadFacts ==
    ASSUME NEW v \in Seq(Byte)
    PROVE  /\ pad_payload(v) \in Seq(Byte) /\ Len(pad_payload(v)) < U64
           /\ unpad_payload(pad_payload(v)) = [out |-> "ok", v |-> Short(v)]
<1> DEFINE s == Short(v)
           n == Width["u16"]
           h == le(n, Len(s))
           out == h \o s
           fill == (PadBlock - (Len(out) % PadBlock)) % PadBlock
           z == [i \in 1 .. fill |-> Digit(0)]
           p == out \o z
<1>1. s \in Seq(Byte) /\ Len(s) \in Nat /\ Len(s) < U16
  BY ShortFacts, Zenon
<1>2. n \in Nat /\ U16 = pow(BASE, n)
  BY Widths, Zenon DEF Fixed, Ints, U16
<1> HIDE DEF s, n
<1>3. h \in Seq(Byte) /\ Len(h) = n /\ fromLe(h) = Len(s)
  BY <1>1, <1>2, LeRoundTrip, Zenon
<1> HIDE DEF h
<1>4. out \in Seq(Byte) /\ Len(out) = n + Len(s)
  BY <1>1, <1>2, <1>3, JoinFacts, Zenon
<1> HIDE DEF out
<1>5. PadBlock \in Nat /\ PadBlock # 0 /\ n + U16 + PadBlock <= U64
  BY WireAssumption, Zenon DEF n
<1>6. fill \in Nat /\ fill < PadBlock
  <2> DEFINE a == PadBlock - (Len(out) % PadBlock)
  <2>1. Len(out) % PadBlock \in Nat /\ Len(out) % PadBlock < PadBlock
    <3>1. Len(out) \in Nat
      BY <1>4
    <3> QED BY <1>5, <3>1, DivMod, Zenon
  <2>2. a \in Nat
    BY <1>5, <2>1
  <2> HIDE DEF a
  <2>3. a % PadBlock \in Nat /\ a % PadBlock < PadBlock
    BY <1>5, <2>2, DivMod, Zenon
  <2> QED BY <2>3, Zenon DEF a
<1> HIDE DEF fill
<1>7. z \in Seq(Byte) /\ Len(z) = fill
  BY <1>6, ByteFacts
<1> HIDE DEF z
<1>8. p \in Seq(Byte) /\ Len(p) = n + Len(s) + fill
  BY <1>1, <1>2, <1>4, <1>6, <1>7, JoinFacts, Zenon
<1>9. pad_payload(v) = p
  BY Zenon DEF pad_payload, p, z, fill, out, h, n, s
<1>10. Len(p) < U64
  BY <1>1, <1>2, <1>5, <1>6, <1>8, Radices
<1>11. SubSeq(p, 1, n) = h /\ SubSeq(p, n + 1, n + Len(s)) = s
  <2>1. s \o z \in Seq(Byte) /\ p = h \o (s \o z)
    <3>1. s \o z \in Seq(Byte)
      BY <1>1, <1>7, JoinFacts, Zenon
    <3>2. (h \o s) \o z = h \o (s \o z)
      BY <1>1, <1>3, <1>7
    <3> QED BY <3>1, <3>2, Zenon DEF out
  <2>2. SubSeq(p, 1, n) = h
    BY <1>3, <2>1, FrontPart, Zenon
  <2>3. SubSeq(p, n + 1, n + Len(s)) = s
    BY <1>1, <1>3, <1>7, <2>1, MiddlePart
  <2> QED BY <2>2, <2>3, Zenon
<1> HIDE DEF p
<1>12. unpad_payload(p) = [out |-> "ok", v |-> s]
  <2>1. ~(Len(p) < n) /\ ~(Len(p) < n + Len(s))
    BY <1>1, <1>2, <1>6, <1>8
  <2> QED BY <1>3, <1>11, <2>1, Zenon DEF unpad_payload, n
<1> QED BY <1>8, <1>9, <1>10, <1>12, Zenon DEF s


-----------------------------------------------------------------------------
(* Frames.                                                                 *)

Names(L) == {L[x][1] : x \in 1 .. Len(L)}
Body(k, m) == IF k = "Traffic" THEN [m EXCEPT !.payload = pad_payload(@)] ELSE m

\* The structs of format k that the code can build.
Proper(k, m) ==
    /\ DOMAIN m = Names(Layout[k]) /\ m = [f \in DOMAIN m |-> m[f]] /\ GoodMsg(Layout[k], m)
    /\ "version" \in DOMAIN m => m["version"] = COORD_FORMAT_V5

LEMMA LastFacts ==
    /\ Len(Announce_decode) = 9 /\ Announce_decode[9] = <<"get", "depth", "depth">>
    /\ Len(Announce) = 7 /\ Announce[7] = <<"depth", "depth">>
    /\ Len(OnionPacket_decode) = 4 /\ OnionPacket_decode[4] = <<"get", "aead_payload", "cell">>
    /\ Len(OnionPacket) = 3 /\ OnionPacket[3] = <<"aead_payload", "vec">>
    /\ Len(Traffic) = 8 /\ Traffic[8] = <<"payload", "vec">>
<1>1. Len(Announce_decode) = 9 /\ Announce_decode[9] = <<"get", "depth", "depth">>
  BY Zenon DEF Announce_decode, get
<1>2. Len(OnionPacket_decode) = 4 /\ OnionPacket_decode[4] = <<"get", "aead_payload", "cell">>
  BY Zenon DEF OnionPacket_decode, get
<1>3. Len(Announce) = 7 /\ Announce[7] = <<"depth", "depth">>
  BY Zenon DEF Announce
<1>4. Len(OnionPacket) = 3 /\ OnionPacket[3] = <<"aead_payload", "vec">>
  BY Zenon DEF OnionPacket
<1>5. Len(Traffic) = 8 /\ Traffic[8] = <<"payload", "vec">>
  BY Zenon DEF Traffic
<1> QED BY <1>1, <1>2, <1>3, <1>4, <1>5, Zenon

LEMMA BodyFacts ==
    ASSUME NEW k \in Kinds, NEW m, Proper(k, m)
    PROVE  /\ Proper(k, Body(k, m)) /\ DOMAIN Body(k, m) = DOMAIN m
           /\ \A f \in DOMAIN m : ~(k = "Traffic" /\ f = "payload") => Body(k, m)[f] = m[f]
           /\ k = "Traffic" => /\ "payload" \in DOMAIN m /\ m["payload"] \in Seq(Byte)
                               /\ Body(k, m)["payload"] = pad_payload(m["payload"])
<1> DEFINE L == Layout[k]
           b == Body(k, m)
<1>1. CASE k # "Traffic"
  <2>1. b = m
    BY <1>1, Zenon DEF Body
  <2> HIDE DEF b
  <2> QED BY <1>1, <2>1, Zenon DEF b
<1>2. CASE k = "Traffic"
  <2> DEFINE v == m["payload"]
             p == pad_payload(v)
  <2>1. L = Traffic
    BY <1>2, Zenon DEF Layout
  <2>2. 8 \in 1 .. Len(L) /\ L[8][1] = "payload" /\ L[8][2] = "vec"
    BY <2>1, LastFacts
  <2>3. "payload" \in DOMAIN m
    BY <2>2, Zenon DEF Proper, Names
  <2>4. Good("vec", v)
    BY <2>2, Zenon DEF Proper, GoodMsg
  <2>5. v \in Seq(Byte)
    BY <2>4, Zenon DEF Good
  <2>6. p \in Seq(Byte) /\ Len(p) < U64
    BY <2>5, PadFacts, Zenon
  <2> HIDE DEF p
  <2>7. b = [m EXCEPT !["payload"] = p]
    BY <1>2, Zenon DEF Body, p
  <2>8. /\ DOMAIN b = DOMAIN m /\ b["payload"] = p /\ b = [f \in DOMAIN b |-> b[f]]
        /\ \A f \in DOMAIN m : f # "payload" => b[f] = m[f]
    BY <2>3, <2>7, Zenon
  <2> HIDE DEF b
  <2>9. Good("vec", p)
    BY <2>6, Zenon DEF Good, Ints, Blobs
  <2>10. GoodMsg(L, b)
    <3> SUFFICES ASSUME NEW x \in 1 .. Len(L) PROVE Good(L[x][2], b[L[x][1]])
      BY Zenon DEF GoodMsg
    <3>1. Good(L[x][2], m[L[x][1]]) /\ L[x][1] \in DOMAIN m
      BY Zenon DEF Proper, GoodMsg, Names
    <3>2. L[x][1] = "payload" => L[x][2] = "vec"
      BY <1>2, EveryField DEF FieldFacts
    <3> QED BY <2>8, <2>9, <3>1, <3>2, Zenon
  <2>11. "version" \in DOMAIN b => b["version"] = COORD_FORMAT_V5
    BY <2>8, Zenon DEF Proper
  <2>12. DOMAIN b = Names(L)
    BY <2>8, Zenon DEF Proper
  <2>13. Proper(k, b)
    BY <2>8, <2>10, <2>11, <2>12, Zenon DEF Proper
  <2> QED BY <1>2, <2>3, <2>5, <2>8, <2>13, Zenon DEF b, p
<1> QED BY <1>1, <1>2, Zenon

FrameOf(k, m, z) == <<Digit(Type[k])>> \o (Fields(Layout[k], Body(k, m)) \o z)

LEMMA FrameShape ==
    ASSUME NEW k \in Kinds, NEW m, Proper(k, m)
    PROVE  /\ Fields(Layout[k], Body(k, m)) \in Seq(Byte) /\ <<Digit(Type[k])>> \in Seq(Byte)
           /\ \E z \in Seq(Byte) : Encode(k, m) = FrameOf(k, m, z)
<1> DEFINE L == Layout[k]
           b == Body(k, m)
           F == Fields(L, b)
           t == <<Digit(Type[k])>>
           bs == t \o F
           n == CellSize - Len(bs)
           z == [i \in 1 .. n |-> Digit(0)]
<1>1. F \in Seq(Byte)
  <2>1. GoodMsg(L, b)
    BY BodyFacts, Zenon DEF Proper
  <2>2. PICK w, g, r : LayoutFits(L, r) /\ Fits(Decoder[k], L, w, g, r)
    BY EveryFit, Zenon DEF Fitted
  <2>3. r[Len(L) + 1] = 0 /\ Len(<<>>) = 0 /\ <<>> \in Seq(Byte)
    BY <2>2 DEF Fits
  <2>4. r[Len(L) + 1] <= Len(<<>>)
    BY <2>3
  <2> HIDE DEF L, b
  <2> QED BY <2>1, <2>2, <2>3, <2>4, FrameParts, Zenon
<1>2. t \in Seq(Byte)
  BY KindList, ByteFacts
<1> HIDE DEF F, t
<1>3. bs \in Seq(Byte)
  BY <1>1, <1>2, JoinFacts, Zenon
<1>4. Encode(k, m) = IF k = "OnionPacket" THEN bs \o z ELSE bs
  BY Zenon DEF Encode, Body, F, t, L, b
<1> HIDE DEF bs
<1>5. z \in Seq(Byte)
  <2>1. n \in Int
    BY <1>3, CodecAssumption
  <2> HIDE DEF n
  <2>2. CASE n >= 0
    <3>1. n \in Nat
      BY <2>1, <2>2
    <3>2. Digit(0) \in Byte
      BY ByteFacts, Zenon
    <3> QED BY <3>1, <3>2
  <2>3. CASE ~(n >= 0)
    <3>1. 1 .. n = {}
      BY <2>1, <2>3
    <3>2. z = <<>>
      BY <3>1
    <3> HIDE DEF z
    <3>3. <<>> \in Seq(Byte)
      OBVIOUS
    <3> QED BY <3>2, <3>3, Zenon
  <2> QED BY <2>2, <2>3, Zenon
<1> HIDE DEF z
<1>6. CASE k = "OnionPacket"
  <2>1. Encode(k, m) = bs \o z
    BY <1>4, <1>6, Zenon
  <2>2. bs \o z = t \o (F \o z)
    BY <1>1, <1>2, <1>5, JoinAssoc DEF bs
  <2>3. Encode(k, m) = FrameOf(k, m, z)
    BY <2>1, <2>2, Zenon DEF FrameOf, F, t, L, b
  <2> QED BY <1>1, <1>2, <1>5, <2>3, Zenon DEF F, t, L, b
<1>7. CASE k # "OnionPacket"
  <2>1. Encode(k, m) = bs
    BY <1>4, <1>7, Zenon
  <2>2. <<>> \in Seq(Byte) /\ F = F \o <<>>
    BY <1>1
  <2>3. Encode(k, m) = FrameOf(k, m, <<>>)
    BY <2>1, <2>2, Zenon DEF FrameOf, F, t, L, b, bs
  <2> QED BY <1>1, <1>2, <2>2, <2>3, Zenon DEF F, t, L, b
<1> QED BY <1>6, <1>7, Zenon

\* The reads of HolePunch::decode: the endpoint is the fifth of them and the only text.
LEMMA PunchReads ==
    /\ Len(HolePunch_decode) = 6 /\ HolePunch_decode[5] = <<"get", "endpoint", "str">>
    /\ \A i \in 1 .. Len(HolePunch_decode) : HolePunch_decode[i][3] = "str" => i = 5
    /\ Len(HolePunch) = 5 /\ HolePunch[4] = <<"endpoint", "str">>
<1>1. Len(HolePunch_decode) = 6 /\ HolePunch_decode[5] = <<"get", "endpoint", "str">>
  BY DEF HolePunch_decode, get
<1>2. \A i \in 1 .. 6 : HolePunch_decode[i][3] = "str" => i = 5
  <2>1. /\ HolePunch_decode[1][3] = "" /\ HolePunch_decode[2][3] = "key" /\ HolePunch_decode[3][3] = "key"
        /\ HolePunch_decode[4][3] = "u64" /\ HolePunch_decode[6][3] = "sig"
    BY Zenon DEF HolePunch_decode, get, need
  <2>2. \A i \in 1 .. 6 : i = 1 \/ i = 2 \/ i = 3 \/ i = 4 \/ i = 5 \/ i = 6
    OBVIOUS
  <2> QED BY <2>1, <2>2, Zenon
<1>3. Len(HolePunch) = 5 /\ HolePunch[4] = <<"endpoint", "str">>
  BY DEF HolePunch, HolePunch_signs
<1> QED BY <1>1, <1>2, <1>3, Zenon

LEMMA ReadableFrame ==
    ASSUME NEW k \in Kinds, NEW b, Proper(k, b), NEW w, NEW g, NEW r, LayoutFits(Layout[k], r),
           Fits(Decoder[k], Layout[k], w, g, r),
           \A i \in 1 .. Len(Decoder[k]) :
             Decoder[k][i][3] \in {"cell", "depth"} => i = Len(Decoder[k]) /\ Decoder[k][i][3] = LastRead(k),
           NEW n \in 0 .. Len(Decoder[k]),
           n = Len(Decoder[k]) \/ (k = "HolePunch" /\ n > 4) => Decodable(k, b)
    PROVE  Readable(Decoder[k], Layout[k], b, g, n)
<1> DEFINE D == Decoder[k]
           L == Layout[k]
<1>1. Len(D) \in Nat /\ Len(L) \in Nat
  BY Zenon DEF Fits, LayoutFits
<1> SUFFICES ASSUME NEW i \in 1 .. n, D[i][1] = "get"
             PROVE  Reads(D[i][3], L[g[i] + 1][2], b[D[i][2]])
  BY Zenon DEF Readable
<1> DEFINE h == g[i]
           s == D[i]
<1>2. i \in 1 .. Len(D) /\ i <= n /\ n <= Len(D)
  BY <1>1
<1>3. h \in 0 .. Len(L) /\ g[i + 1] \in 0 .. Len(L) /\ StepFits(s, L, w[i], w[i + 1], h, g[i + 1], r)
  BY <1>2, Zenon DEF Fits
<1>4. g[i + 1] = h + 1 /\ L[h + 1][1] = s[2] /\ ReadsAs(s[3], s[2], L[h + 1][2])
  BY <1>3, Zenon DEF StepFits
<1>5. h + 1 \in 1 .. Len(L)
  BY <1>1, <1>3, <1>4
<1>6. s[2] \in DOMAIN b
  BY <1>4, <1>5, Zenon DEF Proper, Names
<1>7. CASE s[3] = L[h + 1][2]
  <2>1. CASE s[3] # "str"
    BY <1>7, <2>1, Zenon DEF Reads
  <2>2. CASE s[3] = "str"
    <3>1. k = "HolePunch" /\ s[2] = "endpoint"
      <4>1. FieldFacts(k, L)
        BY EveryField, Zenon
      <4> HIDE DEF L, s, h
      <4> QED BY <1>4, <1>5, <1>7, <2>2, <4>1, Zenon DEF FieldFacts
    <3>2. i = 5
      <4>1. D = HolePunch_decode
        BY <3>1, Zenon DEF Decoder
      <4> QED BY <1>2, <2>2, <4>1, PunchReads, Zenon
    <3>3. n > 4
      BY <1>1, <1>2, <3>2
    <3>4. Utf8(Clamp(b[s[2]]))
      BY <3>1, <3>3, Zenon DEF Decodable
    <3> QED BY <1>7, <3>4, Zenon DEF Reads
  <2> QED BY <2>1, <2>2, Zenon
<1>8. CASE s[3] = "v5" /\ s[2] = "version" /\ L[h + 1][2] = "u8"
  <2>1. b[s[2]] = COORD_FORMAT_V5
    BY <1>6, <1>8, Zenon DEF Proper
  <2> QED BY <1>8, <2>1, Zenon DEF Reads
<1>9. CASE s[3] = "cell" /\ L[h + 1][2] = "vec"
  <2>1. i = Len(D) /\ LastRead(k) = "cell"
    BY <1>2, <1>9, Zenon
  <2>2. k = "OnionPacket" /\ n = Len(D)
    <3>1. k = "OnionPacket"
      BY <2>1, Zenon DEF LastRead
    <3>2. n \in Nat /\ i \in Nat
      BY <1>1, <1>2
    <3> HIDE DEF D
    <3>3. n = Len(D)
      BY ONLY <1>1, <1>2, <2>1, <3>2
    <3> QED BY ONLY <3>1, <3>3, Zenon
  <2>3. s[2] = "aead_payload"
    <3>1. D = OnionPacket_decode
      BY <2>2, Zenon DEF Decoder
    <3> QED BY <2>1, <3>1, LastFacts
  <2>4. Len(b[s[2]]) <= CellSize
    BY <2>2, <2>3, Zenon DEF Decodable
  <2> QED BY <1>9, <2>4, Zenon DEF Reads
<1> QED BY <1>4, <1>7, <1>8, <1>9, Zenon DEF ReadsAs

SeenMsg(k, b) ==
    [f \in DOMAIN b |-> IF k = "HolePunch" /\ f = "endpoint" THEN Clamp(b[f]) ELSE b[f]]

LEMMA HoldsAll ==
    ASSUME NEW k \in Kinds, NEW b, Proper(k, b), NEW q, Holds(Layout[k], b, Len(Layout[k]), q)
    PROVE  q = SeenMsg(k, b)
<1> DEFINE L == Layout[k]
           p == SeenMsg(k, b)
<1>1. DOMAIN q = DOMAIN b /\ q = [f \in DOMAIN q |-> q[f]]
  BY Zenon DEF Holds, Proper, Names
<1>2. DOMAIN p = DOMAIN b /\ p = [f \in DOMAIN p |-> p[f]]
      /\ \A f \in DOMAIN b : p[f] = IF k = "HolePunch" /\ f = "endpoint" THEN Clamp(b[f]) ELSE b[f]
  BY Zenon DEF SeenMsg
<1>3. ASSUME NEW f \in DOMAIN b PROVE q[f] = p[f]
  <2>1. PICK x \in 1 .. Len(L) : f = L[x][1]
    BY Zenon DEF Proper, Names
  <2>2. q[f] = Seen(L[x][2], b[f])
    BY <2>1, Zenon DEF Holds
  <2>3. L[x][2] = "str" <=> k = "HolePunch" /\ f = "endpoint"
    BY <2>1, EveryField, Zenon DEF FieldFacts
  <2> HIDE DEF L, p
  <2> QED BY <1>2, <2>2, <2>3, Zenon DEF Seen
<1> HIDE DEF p
<1>4. q = p
  BY <1>1, <1>2, <1>3, Zenon
<1> QED BY <1>4, Zenon DEF p

FrameRun(k, b, e) ==
    \E z \in Seq(Byte) : Fields(Layout[k], b) \in Seq(Byte) /\ e = Fields(Layout[k], b) \o z

\* A whole frame is decoded to what was written.
LEMMA RunWhole ==
    ASSUME NEW k \in Kinds, NEW b, Proper(k, b), Decodable(k, b), NEW e, FrameRun(k, b, e)
    PROVE  Run(Decoder[k], e) = [out |-> "ok", m |-> SeenMsg(k, b)]
<1> DEFINE D == Decoder[k]
           L == Layout[k]
           n == Len(D)
<1>1. PICK z \in Seq(Byte) : Fields(L, b) \in Seq(Byte) /\ e = Fields(L, b) \o z
  BY Zenon DEF FrameRun
<1>2. e \in Seq(Byte)
  BY <1>1, JoinFacts, Zenon
<1>3. PICK w, g, r :
        /\ LayoutFits(L, r) /\ Fits(D, L, w, g, r)
        /\ \A i \in 1 .. Len(D) : D[i][3] \in {"cell", "depth"} => i = Len(D) /\ D[i][3] = LastRead(k)
  BY EveryFit, Zenon DEF Fitted
<1>4. GoodMsg(L, b)
  BY Zenon DEF Proper
<1>5. n \in Nat /\ n \in 0 .. n /\ g[n + 1] = Len(L) /\ r[Len(L) + 1] = 0
  BY <1>3 DEF Fits
<1>6. Readable(D, L, b, g, n)
  BY <1>3, <1>5, ReadableFrame, Zenon
<1>7. Program(D)
  <2> HIDE DEF D, L
  <2> QED BY <1>3, FitsProgram, Zenon
<1>8. PICK at : IsRun(D, e, at) /\ Run(D, e) = [out |-> at[n].out, m |-> at[n].m]
  <2> HIDE DEF D
  <2> QED BY <1>2, <1>7, RunExists, Zenon
<1>9. PICK c : Laid(L, b, r, e, c)
  <2>1. r[Len(L) + 1] <= Len(z)
    BY <1>5
  <2> HIDE DEF L
  <2>2. \E c : Laid(L, b, r, Fields(L, b) \o z, c) /\ c[Len(L)] = Fields(L, b)
    BY <1>3, <1>4, <2>1, FrameParts, Zenon
  <2> QED BY <1>1, <2>2, Zenon
<1>10. Trip(L, b, c, g[n + 1], at[n])
  <2> HIDE DEF D, L
  <2> QED BY <1>2, <1>3, <1>4, <1>5, <1>6, <1>8, <1>9, RunTrip, Zenon DEF n
<1>11. at[n].out = "ok" /\ Holds(L, b, Len(L), at[n].m)
  BY <1>5, <1>10, Zenon DEF Trip
<1>12. at[n].m = SeenMsg(k, b)
  BY <1>11, HoldsAll, Zenon
<1> HIDE DEF D, n
<1> QED BY <1>8, <1>11, <1>12, Zenon DEF D


LEMMA TailJoin ==
    ASSUME NEW t \in Byte, NEW s \in Seq(Byte)
    PROVE  /\ <<t>> \o s \in Seq(Byte) /\ <<t>> \o s # <<>> /\ (<<t>> \o s)[1] = t
           /\ Tail(<<t>> \o s) = s
<1>1. <<t>> \o s \in Seq(Byte) /\ Len(<<t>> \o s) = 1 + Len(s) /\ (<<t>> \o s)[1] = t
      /\ \A i \in 1 .. Len(s) : (<<t>> \o s)[1 + i] = s[i]
  OBVIOUS
<1> DEFINE x == <<t>> \o s
<1> HIDE DEF x
<1>2. x \in Seq(Byte) /\ Len(x) = 1 + Len(s) /\ x[1] = t /\ \A i \in 1 .. Len(s) : x[1 + i] = s[i]
  BY <1>1, Zenon DEF x
<1>3. x # <<>>
  BY <1>2
<1> DEFINE y == Tail(x)
<1>4. y \in Seq(Byte) /\ Len(y) = Len(s) /\ \A i \in 1 .. Len(s) : y[i] = x[i + 1]
  BY <1>2, <1>3
<1> HIDE DEF y
<1>5. \A i \in 1 .. Len(s) : y[i] = s[i]
  <2> SUFFICES ASSUME NEW i \in 1 .. Len(s) PROVE y[i] = s[i]
    BY Zenon
  <2>1. i + 1 = 1 + i
    OBVIOUS
  <2> QED BY <1>2, <1>4, <2>1, Zenon
<1>6. y = s
  BY <1>4, <1>5, SameSeq, Zenon
<1> QED BY <1>2, <1>3, <1>6, Zenon DEF x, y

\* What follows the type byte of a frame and of anything behind it.
LEMMA FrameTail ==
    ASSUME NEW k \in Kinds, NEW m, Proper(k, m), NEW x \in Seq(Byte)
    PROVE  LET d == Encode(k, m) \o x IN
           /\ Encode(k, m) \in Seq(Byte) /\ Encode(k, m) # <<>> /\ Value(Encode(k, m)[1]) = Type[k]
           /\ d \in Seq(Byte) /\ Decode(d) = DecodeAs(k, Tail(d)) /\ FrameRun(k, Body(k, m), Tail(d))
<1> DEFINE b == Body(k, m)
           F == Fields(Layout[k], b)
           t == Digit(Type[k])
           E == Encode(k, m)
           d == E \o x
<1>1. t \in Byte /\ Value(t) = Type[k]
  BY KindList, ByteFacts, Zenon
<1>2. F \in Seq(Byte)
  BY FrameShape, Zenon
<1>3. PICK z \in Seq(Byte) : E = <<t>> \o (F \o z)
  BY FrameShape, Zenon DEF FrameOf
<1> HIDE DEF t, F, E
<1>4. F \o z \in Seq(Byte) /\ (F \o z) \o x \in Seq(Byte) /\ z \o x \in Seq(Byte)
      /\ (F \o z) \o x = F \o (z \o x)
  BY <1>2, JoinFacts, JoinAssoc
<1>5. E \in Seq(Byte) /\ E # <<>> /\ E[1] = t
  BY <1>1, <1>3, <1>4, TailJoin, Zenon
<1>6. d = <<t>> \o ((F \o z) \o x)
  <2>1. <<t>> \in Seq(Byte)
    BY <1>1
  <2> QED BY <1>3, <1>4, <2>1, JoinAssoc
<1> HIDE DEF d
<1>7. d \in Seq(Byte) /\ d # <<>> /\ d[1] = t /\ Tail(d) = (F \o z) \o x
  BY <1>1, <1>4, <1>6, TailJoin, Zenon
<1>8. Decode(d) = DecodeAs(k, Tail(d))
  BY <1>1, <1>7, DecodeKind, Zenon
<1>9. FrameRun(k, b, Tail(d))
  <2>1. Tail(d) = F \o (z \o x)
    BY <1>4, <1>7, Zenon
  <2> HIDE DEF b
  <2> QED BY <1>2, <1>4, <2>1, Zenon DEF FrameRun, F
<1> QED BY <1>1, <1>5, <1>7, <1>8, <1>9, Zenon DEF d, E

LEMMA DecodableBody ==
    ASSUME NEW k, NEW m, Decodable(k, m)
    PROVE  Decodable(k, Body(k, m))
BY Zenon DEF Decodable, Body

LEMMA CarriedBack ==
    ASSUME NEW k \in Kinds, NEW m, Proper(k, m), NEW e,
           Run(Decoder[k], e) = [out |-> "ok", m |-> SeenMsg(k, Body(k, m))]
    PROVE  DecodeAs(k, e) = [out |-> "ok", m |-> Carried(k, m)]
<1> DEFINE b == Body(k, m)
           q == SeenMsg(k, b)
           r == [out |-> "ok", m |-> q]
<1>1. DecodeAs(k, e) = IF k = "Traffic" THEN Unpadded(r) ELSE r
  BY DEF DecodeAs
<1>2. CASE k = "Traffic"
  <2> DEFINE v == m["payload"]
             p == pad_payload(v)
             s == Short(v)
  <2>1. "payload" \in DOMAIN m /\ v \in Seq(Byte) /\ b["payload"] = p
    BY <1>2, BodyFacts, Zenon
  <2>2. unpad_payload(p) = [out |-> "ok", v |-> s]
    BY <2>1, PadFacts, Zenon
  <2> HIDE DEF p, s
  <2>3. b = [m EXCEPT !["payload"] = p]
    BY <1>2, Zenon DEF Body, p
  <2>4. q = [f \in DOMAIN b |-> b[f]] /\ b = [f \in DOMAIN b |-> b[f]]
    BY <1>2, BodyFacts, Zenon DEF SeenMsg, Proper
  <2>5. q = [m EXCEPT !["payload"] = p]
    BY <2>3, <2>4, Zenon
  <2> HIDE DEF q
  <2>6. r.m["payload"] = p
    BY <2>1, <2>5, Zenon
  <2>7. Unpadded(r) = [out |-> "ok", m |-> [q EXCEPT !["payload"] = s]]
    BY <2>2, <2>6 DEF Unpadded
  <2>8. [q EXCEPT !["payload"] = s] = [m EXCEPT !["payload"] = s]
    BY <2>1, <2>5, Zenon
  <2>9. Carried(k, m) = [m EXCEPT !["payload"] = s]
    BY <1>2, Zenon DEF Carried, s
  <2> QED BY <1>1, <1>2, <2>7, <2>8, <2>9, Zenon
<1>3. CASE k # "Traffic"
  <2>1. b = m
    BY <1>3, Zenon DEF Body
  <2>2. q = Carried(k, m)
    <3>1. m = [f \in DOMAIN m |-> m[f]]
      BY Zenon DEF Proper
    <3>2. CASE k = "HolePunch"
      BY <2>1, <3>2, Zenon DEF SeenMsg, Carried
    <3>3. CASE k # "HolePunch"
      <4>1. q = [f \in DOMAIN m |-> m[f]]
        BY <2>1, <3>3, Zenon DEF SeenMsg
      <4> HIDE DEF q
      <4> QED BY <1>3, <3>1, <3>3, <4>1, Zenon DEF Carried
    <3> QED BY <3>2, <3>3, Zenon
  <2> HIDE DEF q
  <2> QED BY <1>1, <1>3, <2>2, Zenon
<1> QED BY <1>2, <1>3, Zenon

LEMMA DecodesBack ==
    ASSUME NEW k \in Kinds, NEW m, Proper(k, m), Decodable(k, m), NEW x \in Seq(Byte)
    PROVE  Decode(Encode(k, m) \o x) = [out |-> "ok", m |-> Carried(k, m)]
<1> DEFINE b == Body(k, m)
           d == Encode(k, m) \o x
<1>1. Decode(d) = DecodeAs(k, Tail(d)) /\ FrameRun(k, b, Tail(d))
  BY FrameTail, Zenon
<1>2. Proper(k, b) /\ Decodable(k, b)
  BY BodyFacts, DecodableBody, Zenon
<1> HIDE DEF b, d
<1>3. Run(Decoder[k], Tail(d)) = [out |-> "ok", m |-> SeenMsg(k, b)]
  BY <1>1, <1>2, RunWhole, Zenon
<1>4. DecodeAs(k, Tail(d)) = [out |-> "ok", m |-> Carried(k, m)]
  BY <1>3, CarriedBack, Zenon DEF b
<1> QED BY <1>1, <1>4, Zenon DEF d


-----------------------------------------------------------------------------
(* Frames cut short.                                                       *)

\* Before its last read, a decoder with a special one holds all other fields of the frame.
LEMMA RunLast ==
    ASSUME NEW k \in Kinds, LastRead(k) # "", NEW b, Proper(k, b), NEW e, FrameRun(k, b, e),
           NEW at, IsRun(Decoder[k], e, at)
    PROVE  LET n == Len(Decoder[k])
               L == Layout[k]
               l == Len(L)
           IN  /\ at[n - 1].out = "ok" /\ Holds(L, b, l - 1, at[n - 1].m)
               /\ \E z \in Seq(Byte) : Rest(e, at[n - 1].pos) = Put(L[l][2], b[L[l][1]]) \o z
<1> DEFINE D == Decoder[k]
           L == Layout[k]
           n == Len(D)
           l == Len(L)
           ss == Written(L, b)
<1>1. n \in Nat /\ n > 1 /\ l \in 1 .. l /\ l \in Nat /\ D[n][1] = "get"
  <2>1. CASE k = "Announce"
    <3>1. D = Announce_decode /\ L = Announce
      BY <2>1, Zenon DEF Decoder, Layout
    <3> HIDE DEF D, L
    <3>2. n = 9
      BY <3>1, LastFacts, Zenon
    <3>3. l = 7
      BY <3>1, LastFacts, Zenon
    <3>4. Announce_decode[9][1] = "get"
      BY Zenon DEF Announce_decode, get
    <3> HIDE DEF n, l
    <3> QED BY ONLY <3>1, <3>2, <3>3, <3>4
  <2>2. CASE k = "OnionPacket"
    <3>1. D = OnionPacket_decode /\ L = OnionPacket
      BY <2>2, Zenon DEF Decoder, Layout
    <3> HIDE DEF D, L
    <3>2. n = 4
      BY <3>1, LastFacts, Zenon
    <3>3. l = 3
      BY <3>1, LastFacts, Zenon
    <3>4. OnionPacket_decode[4][1] = "get"
      BY Zenon DEF OnionPacket_decode, get
    <3> HIDE DEF n, l
    <3> QED BY ONLY <3>1, <3>2, <3>3, <3>4
  <2> QED BY <2>1, <2>2, Zenon DEF LastRead
<1>2. PICK x \in Seq(Byte) : Fields(L, b) \in Seq(Byte) /\ e = Fields(L, b) \o x
  BY Zenon DEF FrameRun
<1>3. e \in Seq(Byte)
  BY <1>2, JoinFacts, Zenon
<1>4. PICK w, g, r :
        /\ LayoutFits(L, r) /\ Fits(D, L, w, g, r)
        /\ \A i \in 1 .. Len(D) : D[i][3] \in {"cell", "depth"} => i = Len(D) /\ D[i][3] = LastRead(k)
  BY EveryFit, Zenon DEF Fitted
<1>5. GoodMsg(L, b)
  BY Zenon DEF Proper
<1>6. n - 1 \in 0 .. n /\ n - 1 # n /\ (n - 1) + 1 = n /\ n \in 1 .. n
  <2> HIDE DEF n
  <2> QED BY ONLY <1>1
<1>7. g[n] = l - 1 /\ r[l + 1] = 0
  <2>1. StepFits(D[n], L, w[n], w[n + 1], g[n], g[n + 1], r) /\ g[n + 1] = l /\ g[n] \in 0 .. l
        /\ r[l + 1] = 0
    BY <1>4, <1>6, Zenon DEF Fits
  <2>2. g[n + 1] = g[n] + 1
    BY <1>1, <2>1, Zenon DEF StepFits
  <2> DEFINE p == g[n]
             q == g[n + 1]
  <2>3. q = p + 1 /\ q = l /\ p \in 0 .. l /\ l \in Nat
    BY <1>1, <2>1, <2>2, Zenon
  <2> HIDE DEF n, l, p, q
  <2>4. p = l - 1
    BY ONLY <2>3
  <2> QED BY <2>1, <2>4, Zenon DEF p
<1>8. Readable(D, L, b, g, n - 1)
  <2> DEFINE j == n - 1
  <2>1. j \in 0 .. n /\ j # n
    BY <1>6, Zenon
  <2> HIDE DEF j
  <2>2. k # "HolePunch"
    BY Zenon DEF LastRead
  <2>3. Readable(D, L, b, g, j)
    BY <1>4, <2>1, <2>2, ReadableFrame, Zenon
  <2> QED BY <2>3, Zenon DEF j
<1>9. PICK c : Laid(L, b, r, e, c)
  <2>1. r[Len(L) + 1] <= Len(x)
    <3>1. r[Len(L) + 1] = 0
      <4> HIDE DEF L, n
      <4> QED BY ONLY <1>7, Zenon DEF l
    <3>2. x \in Seq(Byte)
      BY <1>2, Zenon
    <3>3. Len(x) \in Nat
      BY ONLY <3>2
    <3> QED BY ONLY <3>1, <3>3
  <2> HIDE DEF L
  <2>2. \E c : Laid(L, b, r, Fields(L, b) \o x, c) /\ c[Len(L)] = Fields(L, b)
    BY <1>4, <1>5, <2>1, FrameParts, Zenon
  <2> QED BY <1>2, <2>2, Zenon
<1>10. Trip(L, b, c, g[n], at[n - 1])
  <2> DEFINE j == n - 1
  <2>1. j \in 0 .. Len(D) /\ Readable(D, L, b, g, j) /\ j + 1 = n
    BY <1>6, <1>8, Zenon
  <2> HIDE DEF j, D, L
  <2>2. Trip(L, b, c, g[j + 1], at[j])
    BY <1>3, <1>4, <1>5, <1>9, <2>1, RunTrip, Zenon DEF D
  <2> QED BY <2>1, <2>2, Zenon DEF j
<1>11. at[n - 1].out = "ok" /\ at[n - 1].pos = Len(c[l - 1]) /\ Holds(L, b, l - 1, at[n - 1].m)
  BY <1>7, <1>10, Zenon DEF Trip
<1>12. PartAt(ss, c, e, l) /\ ss[l] = Put(L[l][2], b[L[l][1]])
  <2> HIDE DEF L
  <2>1. ss \in Seq(Seq(Byte)) /\ Len(ss) = Len(L) /\ Parts(Byte, ss, c, e)
    BY <1>9, Zenon DEF Laid
  <2>2. ss[l] = Put(L[l][2], b[L[l][1]])
    BY <1>1, <1>4, <1>5, WrittenFacts, Zenon
  <2> HIDE DEF ss
  <2> QED BY <1>1, <1>3, <2>1, <2>2, PartRead, Zenon
<1>13. /\ Rest(e, Len(c[l])) \in Seq(Byte)
       /\ Rest(e, Len(c[l - 1])) = Put(L[l][2], b[L[l][1]]) \o Rest(e, Len(c[l]))
  <2> HIDE DEF ss, L, l
  <2> QED BY <1>12, Zenon DEF PartAt
<1>14. \E z \in Seq(Byte) : Rest(e, at[n - 1].pos) = Put(L[l][2], b[L[l][1]]) \o z
  <2> HIDE DEF L, l, n
  <2> QED BY <1>11, <1>13, Zenon
<1> QED BY <1>11, <1>14, Zenon

LEMMA CellRefused ==
    ASSUME NEW v \in Seq(Byte), Len(v) < U64, Len(v) > CellSize, NEW z \in Seq(Byte)
    PROVE  Get("cell", Put("vec", v) \o z) = Bail
<1> DEFINE n == Len(v)
           u == encode_uvarint(n)
           d == u \o (v \o z)
<1>1. n \in Nat /\ n < U64 /\ n > CellSize
  OBVIOUS
<1>2. v \o z \in Seq(Byte) /\ u \in Seq(Byte)
  BY <1>1, JoinFacts, UvarintBytes, Zenon
<1>3. Put("vec", v) \o z = d
  <2>1. Put("vec", v) = u \o v
    BY PutForms, Zenon
  <2> HIDE DEF u
  <2>2. (u \o v) \o z = u \o (v \o z)
    <3>1. u \in Seq(Byte) /\ v \in Seq(Byte) /\ z \in Seq(Byte)
      BY <1>2, Zenon
    <3> QED BY ONLY <3>1, JoinAssoc
  <2> QED BY <2>1, <2>2, Zenon
<1>4. decode_uvarint(d) = Ok(n, Len(u))
  BY <1>1, <1>2, UvarintRoundTrip, Zenon
<1> HIDE DEF d, u, n
<1>5. decode_uvarint(d).out = "ok" /\ decode_uvarint(d).v = n
  BY <1>4 DEF Ok
<1>6. Get("cell", d) = Bail
  BY <1>1, <1>5, GetCounted, Zenon
<1> QED BY <1>3, <1>6, Zenon

\* An onion packet whose payload exceeds the cell is refused, however it was encoded.
LEMMA OversizeRefused ==
    ASSUME NEW k \in Kinds, NEW b, Proper(k, b),
           ~(k = "OnionPacket" => Len(b["aead_payload"]) <= CellSize), NEW e, FrameRun(k, b, e),
           NEW at, IsRun(Decoder[k], e, at)
    PROVE  at[Len(Decoder[k])].out = "bail"
<1> DEFINE v == b["aead_payload"]
           st == at[3]
           s == OnionPacket_decode[4]
<1>1. k = "OnionPacket" /\ ~(Len(v) <= CellSize)
  BY Zenon
<1>2. Decoder[k] = OnionPacket_decode /\ Layout[k] = OnionPacket /\ LastRead(k) = "cell"
  BY <1>1, Zenon DEF Decoder, Layout, LastRead
<1>3. /\ Len(OnionPacket_decode) = 4 /\ s = <<"get", "aead_payload", "cell">>
      /\ Len(OnionPacket) = 3 /\ OnionPacket[3] = <<"aead_payload", "vec">>
  BY LastFacts, Zenon
<1> HIDE DEF s
<1>4. st.out = "ok" /\ \E z \in Seq(Byte) : Rest(e, st.pos) = Put("vec", v) \o z
  <2>1. LastRead(k) # ""
    BY <1>2, Zenon
  <2>2. LET n == Len(Decoder[k])
            L == Layout[k]
            l == Len(L)
        IN  /\ at[n - 1].out = "ok"
            /\ \E z \in Seq(Byte) : Rest(e, at[n - 1].pos) = Put(L[l][2], b[L[l][1]]) \o z
    <3>1. k \in Kinds /\ Proper(k, b) /\ FrameRun(k, b, e) /\ IsRun(Decoder[k], e, at)
      BY Zenon
    <3> QED BY ONLY <2>1, <3>1, RunLast
  <2>3. 4 - 1 = 3 /\ OnionPacket[3][1] = "aead_payload" /\ OnionPacket[3][2] = "vec"
    BY <1>3
  <2> QED BY <1>2, <1>3, <2>2, <2>3, Zenon
<1>5. PICK z \in Seq(Byte) : Rest(e, st.pos) = Put("vec", v) \o z
  BY <1>4, Zenon
<1>6. v \in Seq(Byte) /\ Len(v) < U64
  <2>1. 3 \in 1 .. Len(OnionPacket) /\ OnionPacket[3][1] = "aead_payload" /\ OnionPacket[3][2] = "vec"
    BY <1>3
  <2>2. Good("vec", v)
    BY <1>2, <2>1, Zenon DEF Proper, GoodMsg
  <2> QED BY <2>2, Zenon DEF Good
<1>7. Len(v) > CellSize
  BY <1>1, <1>6, CodecAssumption
<1> HIDE DEF v
<1>8. ReadAt(e, st, s) = Bail
  <2>1. Get("cell", Put("vec", v) \o z) = Bail
    BY <1>6, <1>7, CellRefused, Zenon
  <2>2. s[3] = "cell"
    BY <1>3, Zenon
  <2> HIDE DEF st
  <2> QED BY <1>5, <2>1, <2>2, Zenon DEF ReadAt
<1>9. at[4] = Step(e, st, s)
  <2>1. 4 \in 1 .. Len(Decoder[k]) /\ 4 - 1 = 3
    BY <1>2, <1>3
  <2>2. at[4] = Step(e, at[4 - 1], Decoder[k][4])
    BY <2>1, Zenon DEF IsRun
  <2> QED BY <1>2, <2>1, <2>2, Zenon DEF s
<1> HIDE DEF st
<1>10. Step(e, st, s) = Stopped("bail", st)
  <2>1. s[1] # "need" /\ ReadAt(e, st, s).out = "bail"
    BY <1>3, <1>8 DEF Bail
  <2> QED BY <1>4, <2>1, StepCases
<1>11. at[4].out = "bail"
  BY <1>9, <1>10 DEF Stopped
<1> QED BY <1>2, <1>3, <1>11, Zenon


\* A hole punch whose endpoint was cut inside a character is refused.
LEMMA SplitRefused ==
    ASSUME NEW k \in Kinds, NEW b, Proper(k, b),
           ~(k = "HolePunch" => Utf8(Clamp(b["endpoint"]))),
           NEW e, FrameRun(k, b, e), NEW at, IsRun(Decoder[k], e, at)
    PROVE  at[Len(Decoder[k])].out = "bail"
<1> DEFINE D == Decoder[k]
           L == Layout[k]
           v == b["endpoint"]
<1>0. k = "HolePunch" /\ ~Utf8(Clamp(v))
  BY Zenon
<1>1. D = HolePunch_decode /\ L = HolePunch
  BY <1>0, Zenon DEF Decoder, Layout
<1>2. Len(D) = 6 /\ D[5] = <<"get", "endpoint", "str">> /\ Len(L) = 5 /\ L[4] = <<"endpoint", "str">>
  BY <1>1, PunchReads, Zenon
<1>3. PICK x \in Seq(Byte) : Fields(L, b) \in Seq(Byte) /\ e = Fields(L, b) \o x
  BY Zenon DEF FrameRun
<1>4. e \in Seq(Byte) /\ GoodMsg(L, b)
  BY <1>3, JoinFacts, Zenon DEF Proper
<1>5. PICK w, g, r :
        /\ LayoutFits(L, r) /\ Fits(D, L, w, g, r)
        /\ \A i \in 1 .. Len(D) : D[i][3] \in {"cell", "depth"} => i = Len(D) /\ D[i][3] = LastRead(k)
  BY EveryFit, Zenon DEF Fitted
<1>6. 4 \in 0 .. Len(D) /\ 4 # Len(D) /\ ~(4 > 4) /\ 4 \in 1 .. Len(L) /\ 5 \in 1 .. Len(D)
      /\ 6 \in 1 .. Len(D) /\ 5 - 1 = 4 /\ 6 - 1 = 5 /\ 4 + 1 = 5 /\ 3 + 1 = 4 /\ 4 - 1 = 3
  BY <1>2
<1>7. Readable(D, L, b, g, 4)
  BY <1>5, <1>6, ReadableFrame, Zenon
<1>8. g[5] = 3
  <2>1. /\ StepFits(D[5], L, w[5], w[5 + 1], g[5], g[5 + 1], r)
        /\ g[5] \in 0 .. Len(L) /\ g[5 + 1] \in 0 .. Len(L)
    BY <1>5, <1>6, Zenon DEF Fits
  <2> DEFINE h == g[5]
             t == g[5 + 1]
  <2>2. t = h + 1 /\ L[h + 1][1] = "endpoint"
    BY <1>2, <2>1 DEF StepFits
  <2>3. h \in Nat /\ t \in 0 .. Len(L)
    BY <2>1
  <2>4. h + 1 \in 1 .. Len(L)
    BY <2>2, <2>3
  <2>5. \A i, j \in 1 .. Len(L) : L[i][1] = L[j][1] => i = j
    BY <1>5, Zenon DEF LayoutFits
  <2>6. L[4][1] = "endpoint"
    BY <1>2
  <2> HIDE DEF h, t, L
  <2>7. h + 1 = 4
    BY <1>6, <2>2, <2>4, <2>5, <2>6, Zenon
  <2>8. h = 3
    BY ONLY <2>3, <2>7
  <2> QED BY <2>8, Zenon DEF h
<1>9. PICK c : Laid(L, b, r, e, c)
  <2>1. r[Len(L) + 1] = 0 /\ Len(x) \in Nat
    BY <1>5, <1>3 DEF Fits
  <2>2. r[Len(L) + 1] <= Len(x)
    BY <2>1
  <2> HIDE DEF L
  <2>3. \E c : Laid(L, b, r, Fields(L, b) \o x, c) /\ c[Len(L)] = Fields(L, b)
    BY <1>4, <1>5, <2>2, FrameParts, Zenon
  <2> QED BY <1>3, <2>3, Zenon
<1> DEFINE st == at[4]
<1>10. st.out = "ok" /\ st.pos = Len(c[3])
  <2> HIDE DEF D, L
  <2>1. Trip(L, b, c, g[4 + 1], at[4])
    BY <1>4, <1>5, <1>6, <1>7, <1>9, RunTrip, Zenon DEF D
  <2> QED BY <1>6, <1>8, <2>1, Zenon DEF Trip
<1>11. PICK z \in Seq(Byte) : Rest(e, st.pos) = Put("str", v) \o z /\ Width["sig"] <= Len(z)
  <2>1. L[4][1] = "endpoint" /\ L[4][2] = "str"
    BY <1>2
  <2> HIDE DEF L, st
  <2>2. Starts(L[4][2], b[L[4][1]], Rest(e, Len(c[4 - 1])), Len(c[4 - 1]), Len(c[4]))
    BY <1>4, <1>5, <1>6, <1>9, FieldBytes, Zenon
  <2>3. Starts("str", v, Rest(e, st.pos), Len(c[4 - 1]), Len(c[4]))
    BY <1>6, <1>10, <2>1, <2>2, Zenon
  <2> QED BY <2>3, Zenon DEF Starts
<1>12. v \in Seq(Byte)
  <2>1. Good(L[4][2], b[L[4][1]])
    BY <1>4, <1>6, Zenon DEF GoodMsg
  <2>2. L[4][1] = "endpoint" /\ L[4][2] = "str"
    BY <1>2
  <2> HIDE DEF L
  <2> QED BY <2>1, <2>2, Zenon DEF Good
<1>13. Get("str", Rest(e, st.pos)) = Bail
  <2> HIDE DEF st
  <2>1. Get("str", Put("str", v) \o z) = IF Utf8(Clamp(v)) THEN Ok(Clamp(v), Len(Put("str", v))) ELSE Bail
    BY <1>11, <1>12, StrRead, Zenon
  <2> QED BY <1>0, <1>11, <2>1, Zenon
<1> DEFINE s == D[5]
<1>14. s[1] # "need" /\ ReadAt(e, st, s).out = "bail"
  <2>1. s[1] = "get" /\ s[3] = "str"
    BY <1>2
  <2> HIDE DEF s, st
  <2>2. ReadAt(e, st, s) = Bail
    BY <1>13, <2>1, Zenon DEF ReadAt
  <2> QED BY <2>1, <2>2 DEF Bail
<1>15. at[5].out = "bail"
  <2>1. at[5] = Step(e, at[5 - 1], D[5])
    BY <1>6, Zenon DEF IsRun
  <2>2. at[5] = Step(e, st, s)
    BY <1>6, <2>1, Zenon
  <2> HIDE DEF s, st
  <2>3. Step(e, st, s) = Stopped("bail", st)
    BY <1>10, <1>14, StepCases
  <2> QED BY <2>2, <2>3 DEF Stopped
<1>16. at[6] = at[5]
  <2>1. at[6] = Step(e, at[6 - 1], D[6])
    BY <1>6, Zenon DEF IsRun
  <2>2. at[5].out # "ok"
    BY <1>15
  <2>3. at[6] = Step(e, at[5], D[6])
    BY <1>6, <2>1, Zenon
  <2> QED BY <2>2, <2>3, StepCases
<1> QED BY <1>2, <1>15, <1>16, Zenon

\* What no decoder takes is refused.
LEMMA Refused ==
    ASSUME NEW k \in Kinds, NEW b, Proper(k, b), ~Decodable(k, b), NEW e, FrameRun(k, b, e),
           NEW at, IsRun(Decoder[k], e, at)
    PROVE  at[Len(Decoder[k])].out = "bail"
<1>1. \/ ~(k = "OnionPacket" => Len(b["aead_payload"]) <= CellSize)
      \/ ~(k = "HolePunch" => Utf8(Clamp(b["endpoint"])))
  BY Zenon DEF Decodable
<1> QED BY <1>1, OversizeRefused, SplitRefused, Zenon

\* Whatever follows it, the frame of a struct decodes to the struct (its clamped lengths aside): every
\* varint, optional field, zero fill and padding of packet.rs and session.rs, for every struct.  It is
\* refused exactly when an onion payload exceeds the cell or the clamp of HolePunch::encode splits a
\* character of the endpoint.
THEOREM DecodeInvertsEncode ==
    ASSUME NEW k \in Kinds, NEW m, Proper(k, m), NEW x \in Seq(Byte)
    PROVE  IF Decodable(k, m) THEN Decode(Encode(k, m) \o x) = [out |-> "ok", m |-> Carried(k, m)]
           ELSE Decode(Encode(k, m) \o x).out = "bail"
<1>1. CASE Decodable(k, m)
  BY <1>1, DecodesBack, Zenon
<1>2. CASE ~Decodable(k, m)
  <2> DEFINE d == Encode(k, m) \o x
             e == Tail(d)
             D == Decoder[k]
  <2>1. d \in Seq(Byte) /\ Decode(d) = DecodeAs(k, e) /\ FrameRun(k, Body(k, m), e)
    BY FrameTail, Zenon
  <2>2. k # "Traffic" /\ Body(k, m) = m
    BY <1>2, Zenon DEF Decodable, Body
  <2> HIDE DEF d, e
  <2>3. PICK w, g, r : Fits(D, Layout[k], w, g, r)
    BY EveryFit, Zenon DEF Fitted
  <2>4. e \in Seq(Byte)
    BY <2>1, JoinFacts, Zenon DEF FrameRun
  <2>5. PICK at : Run(D, e) = [out |-> at[Len(D)].out, m |-> at[Len(D)].m] /\ IsRun(D, e, at)
    <3> HIDE DEF D
    <3>1. Program(D)
      BY <2>3, FitsProgram, Zenon
    <3> QED BY <2>4, <3>1, RunExists, Zenon
  <2>6. at[Len(D)].out = "bail"
    BY <1>2, <2>1, <2>2, <2>5, Refused, Zenon
  <2>7. Decode(d) = Run(D, e)
    BY <2>1, <2>2, Zenon DEF DecodeAs
  <2> HIDE DEF D
  <2>8. Decode(d).out = "bail"
    BY <2>5, <2>6, <2>7
  <2> QED BY <1>2, <2>8, Zenon DEF d
<1> QED BY <1>1, <1>2, Zenon

\* The Announce fields but the depth, which a frame cut short reads as 0.
NoDepth(m) == [m EXCEPT !["depth"] = 0]

LEMMA NoDepthProper ==
    ASSUME NEW m, Proper("Announce", m)
    PROVE  /\ Proper("Announce", NoDepth(m)) /\ "depth" \in DOMAIN m /\ m["depth"] \in Nat
           /\ DOMAIN NoDepth(m) = DOMAIN m /\ NoDepth(m)["depth"] = 0
           /\ \A f \in DOMAIN m : f # "depth" => NoDepth(m)[f] = m[f]
<1> DEFINE o == NoDepth(m)
           L == Layout["Announce"]
<1>1. L = Announce
  BY Zenon DEF Layout
<1>2. 7 \in 1 .. Len(L) /\ L[7][1] = "depth" /\ L[7][2] = "depth"
  BY <1>1, LastFacts
<1>3. DOMAIN m = Names(L) /\ GoodMsg(L, m) /\ ("version" \in DOMAIN m => m["version"] = COORD_FORMAT_V5)
  BY Zenon DEF Proper
<1>4. "depth" \in DOMAIN m
  BY <1>2, <1>3, Zenon DEF Names
<1>5. /\ DOMAIN o = DOMAIN m /\ o["depth"] = 0 /\ o = [f \in DOMAIN o |-> o[f]]
      /\ \A f \in DOMAIN m : f # "depth" => o[f] = m[f]
  BY <1>4, Zenon DEF NoDepth
<1> HIDE DEF o
<1>6. m["depth"] \in Nat
  <2>1. Good("depth", m["depth"])
    BY <1>2, <1>3, Zenon DEF GoodMsg
  <2> QED BY <2>1, Zenon DEF Good
<1>7. Good("depth", 0)
  BY Radices DEF Good, Ints, Blobs
<1>8. GoodMsg(L, o)
  <2> SUFFICES ASSUME NEW x \in 1 .. Len(L) PROVE Good(L[x][2], o[L[x][1]])
    BY Zenon DEF GoodMsg
  <2>1. Good(L[x][2], m[L[x][1]]) /\ L[x][1] \in DOMAIN m
    BY <1>3, Zenon DEF GoodMsg, Names
  <2>2. L[x][1] = "depth" => L[x][2] = "depth"
    BY <1>1 DEF Announce
  <2> QED BY <1>5, <1>7, <2>1, <2>2, Zenon
<1>9. Proper("Announce", o)
  BY <1>3, <1>5, <1>8, Zenon DEF Proper
<1> QED BY <1>4, <1>5, <1>6, <1>9, Zenon DEF o

LEMMA DepthMissing ==
    ASSUME NEW m, Proper("Announce", m), NEW e \in Seq(Byte), NEW E \in Seq(Byte), Begins(e, E),
           FrameRun("Announce", m, E), NEW at, IsRun(Announce_decode, e, at),
           NEW bt, IsRun(Announce_decode, E, bt), at[9].out = "ok", at[8].pos = Len(e)
    PROVE  at[9].m = NoDepth(m)
<1> DEFINE o == NoDepth(m)
           L == Announce
           D == Announce_decode
           s == D[9]
           st == at[8]
<1>1. Decoder["Announce"] = D /\ Layout["Announce"] = L /\ LastRead("Announce") = "depth"
  BY Zenon DEF Decoder, Layout, LastRead
<1>2. "Announce" \in Kinds
  BY KindList, Zenon
<1>3. Len(D) = 9 /\ s = <<"get", "depth", "depth">> /\ Len(L) = 7 /\ L[7] = <<"depth", "depth">>
  BY LastFacts, Zenon
<1>4. PICK w, g, r :
        /\ LayoutFits(L, r) /\ Fits(D, L, w, g, r)
        /\ \A i \in 1 .. Len(D) : D[i][3] \in {"cell", "depth"} => i = Len(D) /\ D[i][3] = "depth"
  <2>1. Fitted(D, L, "depth")
    BY <1>1, <1>2, EveryFit, Zenon
  <2> HIDE DEF D, L
  <2> QED BY <2>1, Zenon DEF Fitted
<1> HIDE DEF D, L, s
<1>5. Program(D)
  BY <1>4, FitsProgram, Zenon
<1>6. 8 \in 0 .. Len(D) /\ 9 \in 0 .. Len(D) /\ 8 \in 0 .. 9 /\ 9 \in 1 .. Len(D) /\ 9 - 1 = 8 /\ 8 \in 0 .. 8
  BY <1>3
<1>7. st.out = "ok"
  BY <1>5, <1>6, RunOk, Zenon DEF D
<1>8. st = bt[8]
  <2>1. \A i \in 1 .. 8 : D[i][1] # "need" /\ D[i][3] = "depth" => at[i - 1].pos # Len(e)
    <3> SUFFICES ASSUME NEW i \in 1 .. 8, D[i][3] = "depth" PROVE FALSE
      BY Zenon
    <3>1. i \in 1 .. Len(D) /\ i # Len(D)
      BY <1>3
    <3> QED BY <1>4, <3>1, Zenon
  <2>2. IsRun(D, e, at) /\ IsRun(D, E, bt)
    BY Zenon DEF D
  <2> DEFINE n == 8
  <2>3. /\ n \in 0 .. Len(D) /\ n \in 0 .. n /\ at[n].out = "ok"
        /\ \A i \in 1 .. n : D[i][1] # "need" /\ D[i][3] = "depth" => at[i - 1].pos # Len(e)
    BY <1>6, <1>7, <2>1, Zenon
  <2> HIDE DEF n
  <2>4. at[n] = bt[n]
    BY <1>5, <2>2, <2>3, RunExtends
  <2> QED BY <2>4, Zenon DEF n
<1>9. Holds(L, m, 6, st.m)
  <2>1. LET n == Len(Decoder["Announce"])
            l == Len(Layout["Announce"])
        IN  Holds(Layout["Announce"], m, l - 1, bt[n - 1].m)
    <3>1. LastRead("Announce") # "" /\ IsRun(Decoder["Announce"], E, bt)
      BY <1>1, Zenon DEF D
    <3> QED BY <1>2, <3>1, RunLast, Zenon
  <2>2. 9 - 1 = 8 /\ 7 - 1 = 6
    OBVIOUS
  <2> QED BY <1>1, <1>3, <1>8, <2>1, <2>2, Zenon
<1>10. /\ Proper("Announce", o) /\ o["depth"] = 0 /\ DOMAIN o = DOMAIN m
       /\ \A f \in DOMAIN m : f # "depth" => o[f] = m[f]
  BY NoDepthProper, Zenon
<1> HIDE DEF o
<1>11. Holds(L, o, 6, st.m)
  <2>1. \A x \in 1 .. 6 : o[L[x][1]] = m[L[x][1]]
    <3> SUFFICES ASSUME NEW x \in 1 .. 6 PROVE o[L[x][1]] = m[L[x][1]]
      BY Zenon
    <3>1. L[x][1] # "depth"
      BY DEF L, Announce
    <3>2. L[x][1] \in DOMAIN m
      <4>1. x \in 1 .. Len(L)
        BY <1>3
      <4> QED BY <1>1, <4>1, Zenon DEF Proper, Names
    <3> QED BY <1>10, <3>1, <3>2, Zenon
  <2> HIDE DEF st
  <2> QED BY <1>9, <2>1, Zenon DEF Holds
<1>12. Holds(L, o, 7, Assign(st.m, "depth", 0))
  <2>1. 7 \in 1 .. Len(L) /\ 7 - 1 = 6 /\ L[7][1] = "depth" /\ L[7][2] = "depth"
    BY <1>3
  <2>2. Holds(L, o, 7 - 1, st.m)
    BY <1>11, <2>1, Zenon
  <2> HIDE DEF st
  <2>3. Holds(L, o, 7, Assign(st.m, L[7][1], Seen(L[7][2], o[L[7][1]])))
    BY <1>4, <2>1, <2>2, HoldsAssign, Zenon
  <2>4. Seen("depth", o["depth"]) = 0
    BY <1>10, Zenon DEF Seen
  <2> QED BY <2>1, <2>3, <2>4, Zenon
<1>13. at[9].m = Assign(st.m, "depth", 0)
  <2>1. at[9] = Step(e, st, s)
    <3>1. at[9] = Step(e, at[9 - 1], D[9])
      BY <1>6, Zenon DEF IsRun, D
    <3> QED BY <1>6, <3>1, Zenon DEF s
  <2>2. ReadAt(e, st, s) = Ok(0, 0)
    <3>1. Rest(e, Len(e)) = <<>>
      BY DEF Rest
    <3>2. Get("depth", <<>>) = Ok(0, 0)
      BY GetOther, Zenon
    <3>3. s[3] = "depth"
      BY <1>3, Zenon
    <3> QED BY <3>1, <3>2, <3>3, Zenon DEF ReadAt
  <2>3. s[1] # "need" /\ s[2] = "depth" /\ ReadAt(e, st, s).out = "ok" /\ ReadAt(e, st, s).v = 0
    BY <1>3, <2>2 DEF Ok
  <2> HIDE DEF st
  <2>4. Step(e, st, s) = Next1(st, ReadAt(e, st, s), "depth")
    BY <1>7, <2>3, StepCases
  <2> QED BY <2>1, <2>3, <2>4 DEF Next1
<1>14. at[9].m = SeenMsg("Announce", o)
  <2>1. Holds(Layout["Announce"], o, Len(Layout["Announce"]), at[9].m)
    BY <1>1, <1>3, <1>12, <1>13, Zenon
  <2> QED BY <1>2, <1>10, <2>1, HoldsAll, Zenon
<1>15. SeenMsg("Announce", o) = o
  <2>1. o = [f \in DOMAIN o |-> o[f]]
    BY <1>10, Zenon DEF Proper
  <2>2. SeenMsg("Announce", o) = [f \in DOMAIN o |-> o[f]]
    BY Zenon DEF SeenMsg
  <2> QED BY <2>1, <2>2, Zenon
<1> QED BY <1>14, <1>15, Zenon DEF o


\* Signed bytes determine the signed fields.
LEMMA SignedSame ==
    ASSUME NEW k \in Signed, NEW m, Proper(k, m), NEW o, Proper(k, o), SignBytes(k, m) = SignBytes(k, o),
           NEW x \in 1 .. Len(Layout[k]), Layout[k][x][1] \notin Unsigned
    PROVE  Seen(Layout[k][x][2], m[Layout[k][x][1]]) = Seen(Layout[k][x][2], o[Layout[k][x][1]])
<1> DEFINE L == Layout[k]
           G == Signs[k]
           r == [j \in 1 .. Len(G) + 1 |-> Width["sig"]]
<1>1. SignFacts(L, G)
  BY SignsFit, Zenon
<1>2. GoodMsg(L, m) /\ GoodMsg(L, o)
  BY Zenon DEF Proper
<1>3. Fields(G, m) = Fields(G, o)
  BY Zenon DEF SignBytes
<1> HIDE DEF L, G
<1>4. LayoutFits(G, r)
  BY <1>1, Zenon DEF SignFacts
<1>5. GoodMsg(G, m) /\ GoodMsg(G, o)
  <2> SUFFICES ASSUME NEW j \in 1 .. Len(G)
               PROVE  Good(G[j][2], m[G[j][1]]) /\ Good(G[j][2], o[G[j][1]])
    BY Zenon DEF GoodMsg
  <2>1. PICK y \in 1 .. Len(L) : L[y][1] = G[j][1] /\ L[y][2] = G[j][2]
    BY <1>1, Zenon DEF SignFacts
  <2>2. Good(L[y][2], m[L[y][1]]) /\ Good(L[y][2], o[L[y][1]])
    BY <1>2, Zenon DEF GoodMsg
  <2> QED BY <2>1, <2>2, Zenon
<1>6. PICK j \in 1 .. Len(G) : L[x][1] = G[j][1] /\ L[x][2] = G[j][2]
  <2>1. x \in 1 .. Len(L) /\ L[x][1] \notin Unsigned
    BY Zenon DEF L
  <2> QED BY <1>1, <2>1, Zenon DEF SignFacts
<1> HIDE DEF r
<1>7. Seen(G[j][2], m[G[j][1]]) = Seen(G[j][2], o[G[j][1]])
  BY <1>3, <1>4, <1>5, SameBytes, Zenon
<1>8. Seen(L[x][2], m[L[x][1]]) = Seen(L[x][2], o[L[x][1]])
  BY <1>6, <1>7, Zenon
<1> QED BY <1>8, Zenon DEF L

\* Structs with the same signed bytes agree on every field but signatures and the advisory
\* coordinate, as far as the frame carries it (the sign_bytes of packet.rs and session.rs).
THEOREM SignBytesCover ==
    ASSUME NEW k \in Signed, NEW m, Proper(k, m), NEW o, Proper(k, o), SignBytes(k, m) = SignBytes(k, o),
           NEW f \in DOMAIN m \ Unsigned
    PROVE  Carried(k, m)[f] = Carried(k, o)[f]
<1> DEFINE L == Layout[k]
<1>1. DOMAIN m = Names(L) /\ DOMAIN o = Names(L) /\ k \in Kinds
  BY SignsFit, Zenon DEF Proper
<1>2. PICK x \in 1 .. Len(L) : L[x][1] = f
  BY <1>1, Zenon DEF Names
<1>3. Seen(L[x][2], m[f]) = Seen(L[x][2], o[f])
  BY <1>2, SignedSame, Zenon
<1>4. L[x][2] = "str" <=> k = "HolePunch" /\ f = "endpoint"
  BY <1>1, <1>2, EveryField, Zenon DEF FieldFacts
<1>5. k # "Traffic"
  BY Zenon DEF Signed, Signs
<1> HIDE DEF L
<1>6. CASE k = "HolePunch"
  <2>1. Carried(k, m)[f] = IF f = "endpoint" THEN Clamp(m[f]) ELSE m[f]
    BY <1>6, Zenon DEF Carried
  <2>2. Carried(k, o)[f] = IF f = "endpoint" THEN Clamp(o[f]) ELSE o[f]
    BY <1>1, <1>6, Zenon DEF Carried
  <2> QED BY <1>3, <1>4, <1>6, <2>1, <2>2, Zenon DEF Seen
<1>7. CASE k # "HolePunch"
  <2>1. Carried(k, m) = m /\ Carried(k, o) = o
    BY <1>5, <1>7, Zenon DEF Carried
  <2> QED BY <1>3, <1>4, <1>7, <2>1, Zenon DEF Seen
<1> QED BY <1>6, <1>7, Zenon

LEMMA DepthSigned ==
    ASSUME NEW m, Proper("Announce", m), m["depth"] # 0
    PROVE  SignBytes("Announce", NoDepth(m)) # SignBytes("Announce", m)
<1> DEFINE o == NoDepth(m)
<1>1. Proper("Announce", o) /\ "depth" \in DOMAIN m /\ DOMAIN o = DOMAIN m /\ o["depth"] = 0
  BY NoDepthProper, Zenon
<1> HIDE DEF o
<1>2. "Announce" \in Signed /\ "depth" \in DOMAIN o \ Unsigned
  BY <1>1, Zenon DEF Signed, Signs, Unsigned
<1>3. Carried("Announce", m) = m /\ Carried("Announce", o) = o
  BY Zenon DEF Carried
<1>4. SignBytes("Announce", o) = SignBytes("Announce", m) => o["depth"] = m["depth"]
  <2> SUFFICES ASSUME SignBytes("Announce", o) = SignBytes("Announce", m)
               PROVE  o["depth"] = m["depth"]
    BY Zenon
  <2>1. Carried("Announce", o)["depth"] = Carried("Announce", m)["depth"]
    BY <1>1, <1>2, SignBytesCover
  <2> QED BY <1>3, <2>1, Zenon
<1> QED BY <1>1, <1>4, Zenon DEF o

LEMMA BeginsTail ==
    ASSUME NEW d \in Seq(Byte), NEW F \in Seq(Byte), Begins(d, F), d # <<>>
    PROVE  /\ F # <<>> /\ F[1] = d[1] /\ Tail(d) \in Seq(Byte) /\ Tail(F) \in Seq(Byte)
           /\ Begins(Tail(d), Tail(F))
<1>1. Len(d) \in Nat /\ Len(F) \in Nat /\ Len(d) >= 1 /\ Len(d) <= Len(F) /\ F # <<>> /\ F[1] = d[1]
  BY BeginsSame, Zenon DEF Begins
<1> DEFINE e == Tail(d)
           E == Tail(F)
<1>2. /\ e \in Seq(Byte) /\ Len(e) = Len(d) - 1 /\ \A i \in 1 .. Len(d) - 1 : e[i] = d[i + 1]
      /\ E \in Seq(Byte) /\ Len(E) = Len(F) - 1 /\ \A i \in 1 .. Len(F) - 1 : E[i] = F[i + 1]
  BY <1>1
<1> HIDE DEF e, E
<1>3. Len(e) <= Len(E)
  BY <1>1, <1>2
<1>4. ASSUME NEW i \in 1 .. Len(e) PROVE E[i] = e[i]
  <2>1. i \in 1 .. Len(d) - 1 /\ i \in 1 .. Len(F) - 1 /\ i + 1 \in 1 .. Len(d)
    BY <1>1, <1>2
  <2>2. F[i + 1] = d[i + 1]
    BY <2>1, Zenon DEF Begins
  <2> QED BY <1>2, <2>1, <2>2, Zenon
<1>5. Begins(e, E)
  BY <1>3, <1>4, Zenon DEF Begins
<1> QED BY <1>1, <1>2, <1>5, Zenon DEF e, E


LEMMA DecodeAsOk ==
    ASSUME NEW k, NEW e, DecodeAs(k, e).out = "ok"
    PROVE  Run(Decoder[k], e).out = "ok"
BY Zenon DEF DecodeAs

LEMMA DecodeAsSame ==
    ASSUME NEW k, NEW e, NEW E, Run(Decoder[k], e) = Run(Decoder[k], E)
    PROVE  DecodeAs(k, e) = DecodeAs(k, E)
BY Zenon DEF DecodeAs

\* A frame cut short is refused, or gives the very struct that was sent, or the signature does not
\* cover what it gives: only Announce::decode reads a missing depth as 0 (packet.rs:325).
THEOREM CutShortNotTrusted ==
    ASSUME NEW k \in Kinds, NEW m, Proper(k, m), NEW d \in Seq(Byte), Begins(d, Encode(k, m)),
           Decode(d).out = "ok", Decode(d).m # Carried(k, m)
    PROVE  k \in Signed /\ SignBytes(k, Decode(d).m) # SignBytes(k, m)
<1> DEFINE F == Encode(k, m)
           b == Body(k, m)
           D == Decoder[k]
           n == Len(D)
           e == Tail(d)
           E == Tail(F)
<1>1. F \in Seq(Byte) /\ F # <<>> /\ Value(F[1]) = Type[k] /\ Decode(F) = DecodeAs(k, E) /\ FrameRun(k, b, E)
  <2>1. <<>> \in Seq(Byte)
    OBVIOUS
  <2>2. F \in Seq(Byte) /\ F # <<>> /\ Value(F[1]) = Type[k]
    BY <2>1, FrameTail, Zenon
  <2>3. Decode(F \o <<>>) = DecodeAs(k, Tail(F \o <<>>)) /\ FrameRun(k, b, Tail(F \o <<>>))
    BY <2>1, FrameTail, Zenon
  <2> HIDE DEF F, b
  <2>4. F \o <<>> = F
    BY <2>2
  <2> QED BY <2>2, <2>3, <2>4, Zenon
<1>2. d # <<>>
  <2> SUFFICES ASSUME d = <<>> PROVE FALSE
    BY Zenon
  <2>1. Decode(d) = [out |-> "bail", m |-> <<>>]
    BY DecodeNone, Zenon
  <2> QED BY <2>1
<1>3. F[1] = d[1] /\ e \in Seq(Byte) /\ E \in Seq(Byte) /\ Begins(e, E)
  <2> HIDE DEF F
  <2> QED BY <1>1, <1>2, BeginsTail, Zenon DEF F
<1>4. Decode(d) = DecodeAs(k, e)
  BY <1>1, <1>2, <1>3, DecodeKind, Zenon
<1>5. Proper(k, b)
  BY BodyFacts, Zenon
<1> HIDE DEF F, b, e, E
<1>6. Run(D, e).out = "ok"
  BY <1>4, DecodeAsOk, Zenon
<1>7. PICK w, g, r :
        /\ Fits(D, Layout[k], w, g, r)
        /\ \A i \in 1 .. Len(D) : D[i][3] \in {"cell", "depth"} => i = Len(D) /\ D[i][3] = LastRead(k)
  BY EveryFit, Zenon DEF Fitted
<1>8. Program(D) /\ n \in Nat
  <2> HIDE DEF D
  <2> QED BY <1>7, FitsProgram, Zenon DEF Fits
<1>9. PICK at : IsRun(D, e, at) /\ Run(D, e) = [out |-> at[n].out, m |-> at[n].m]
  <2> HIDE DEF D
  <2> QED BY <1>3, <1>8, RunExists, Zenon
<1>10. PICK bt : IsRun(D, E, bt) /\ Run(D, E) = [out |-> bt[n].out, m |-> bt[n].m]
  <2> HIDE DEF D
  <2> QED BY <1>3, <1>8, RunExists, Zenon
<1>11. at[n].out = "ok" /\ n \in 0 .. n
  BY <1>6, <1>8, <1>9
<1>12. CASE \A i \in 1 .. n : D[i][1] # "need" /\ D[i][3] = "depth" => at[i - 1].pos # Len(e)
  <2>1. at[n] = bt[n]
    <3> HIDE DEF D
    <3> QED BY <1>3, <1>8, <1>9, <1>10, <1>11, <1>12, RunExtends
  <2>2. Run(D, e) = Run(D, E)
    BY <1>9, <1>10, <2>1, Zenon
  <2>3. Decode(d) = Decode(F)
    BY <1>1, <1>4, <2>2, DecodeAsSame, Zenon
  <2>4. CASE Decodable(k, m)
    <3>1. <<>> \in Seq(Byte) /\ F \o <<>> = F
      BY <1>1
    <3>2. Decode(F \o <<>>) = [out |-> "ok", m |-> Carried(k, m)]
      BY <2>4, <3>1, DecodesBack, Zenon DEF F
    <3> QED BY <2>3, <3>1, <3>2
  <2>5. CASE ~Decodable(k, m)
    <3>1. b = m
      BY <2>5, Zenon DEF b, Body, Decodable
    <3>2. bt[n].out = "bail"
      BY <1>1, <1>5, <1>10, <2>5, <3>1, Refused, Zenon
    <3> QED BY <1>11, <2>1, <3>2, Zenon
  <2> QED BY <2>4, <2>5, Zenon
<1>13. CASE ~\A i \in 1 .. n : D[i][1] # "need" /\ D[i][3] = "depth" => at[i - 1].pos # Len(e)
  <2>1. PICK i \in 1 .. n : D[i][3] = "depth" /\ at[i - 1].pos = Len(e)
    BY <1>13, Zenon
  <2>2. i = n /\ LastRead(k) = "depth"
    BY <1>7, <2>1, Zenon
  <2>3. k = "Announce"
    BY <2>2, Zenon DEF LastRead
  <2>4. D = Announce_decode
    BY <2>3, Zenon DEF Decoder
  <2>5. n = 9
    BY <2>4, LastFacts, Zenon
  <2>6. at[8].pos = Len(e) /\ at[9].out = "ok"
    <3>1. i = 9 /\ 9 - 1 = 8
      BY <2>2, <2>5
    <3> QED BY <1>11, <2>1, <2>5, <3>1, Zenon
  <2>7. b = m
    BY <2>3, Zenon DEF b, Body
  <2>8. /\ Proper("Announce", m) /\ FrameRun("Announce", m, E)
        /\ IsRun(Announce_decode, e, at) /\ IsRun(Announce_decode, E, bt)
    BY <1>1, <1>5, <1>9, <1>10, <2>3, <2>4, <2>7, Zenon
  <2>9. at[9].m = NoDepth(m)
    BY <1>3, <2>6, <2>8, DepthMissing, Zenon
  <2>10. Decode(d).m = NoDepth(m)
    <3>1. DecodeAs(k, e) = Run(D, e)
      BY <2>3, Zenon DEF DecodeAs
    <3> HIDE DEF D, n
    <3>2. Run(D, e).m = at[9].m
      BY <1>9, <2>5
    <3> QED BY <1>4, <2>9, <3>1, <3>2, Zenon
  <2>11. Carried(k, m) = m
    BY <2>3, Zenon DEF Carried
  <2>12. m["depth"] # 0
    <3> SUFFICES ASSUME m["depth"] = 0 PROVE FALSE
      BY Zenon
    <3>1. m = [f \in DOMAIN m |-> m[f]] /\ "depth" \in DOMAIN m
      BY <2>8, NoDepthProper, Zenon DEF Proper
    <3>2. NoDepth(m) = m
      BY <3>1, Zenon DEF NoDepth
    <3> QED BY <2>10, <2>11, <3>2, Zenon
  <2>13. SignBytes("Announce", NoDepth(m)) # SignBytes("Announce", m)
    BY <2>8, <2>12, DepthSigned
  <2>14. k \in Signed
    BY <2>3, Zenon DEF Signed, Signs
  <2> QED BY <2>3, <2>10, <2>13, <2>14
<1> QED BY <1>12, <1>13, Zenon


-----------------------------------------------------------------------------
(* The structs the instance sends are such structs.                          *)

MsgNext(l, i, ms) == {Assign(m, l[i][1], v) : m \in ms, v \in Values(l[i][1], l[i][2])}
MsgEqs(l, g) == g = [i \in 0 .. Len(l) |-> IF i = 0 THEN {<<>>} ELSE MsgNext(l, i, g[i - 1])]

LEMMA MessagesChosen == \A k : Messages(k) = (CHOOSE g : MsgEqs(Layout[k], g))[Len(Layout[k])]
BY DEF Messages, MsgEqs, MsgNext

LEMMA MsgExists ==
    ASSUME NEW l, Len(l) \in Nat
    PROVE  \E g : MsgEqs(l, g)
<1> DEFINE n == Len(l)
           V == UNION {Values(l[i][1], l[i][2]) : i \in 1 .. n}
           N == {l[i][1] : i \in 1 .. n}
           M == UNION {[T -> V] : T \in SUBSET N}
           S == SUBSET M
           F == [i \in 1 .. n |-> [ms \in S |-> MsgNext(l, i, ms)]]
<1>1. ASSUME NEW i \in 1 .. n, NEW ms \in S PROVE MsgNext(l, i, ms) \in S
  <2> SUFFICES ASSUME NEW m \in ms, NEW v \in Values(l[i][1], l[i][2]) PROVE Assign(m, l[i][1], v) \in M
    BY DEF MsgNext
  <2>1. PICK T \in SUBSET N : m \in [T -> V]
    BY Zenon
  <2>2. v \in V /\ l[i][1] \in N
    BY Zenon
  <2>3. T \cup {l[i][1]} \in SUBSET N /\ DOMAIN m = T
    BY <2>1, <2>2, Zenon
  <2> HIDE DEF V, N
  <2>4. Assign(m, l[i][1], v) \in [T \cup {l[i][1]} -> V]
    BY <2>1, <2>2, <2>3, Zenon DEF Assign
  <2> QED BY <2>3, <2>4, Zenon
<1>2. F \in [1 .. n -> [S -> S]]
  <2> HIDE DEF S, n
  <2> QED BY <1>1, Zenon
<1>3. {<<>>} \in S
  <2>1. {} \in SUBSET N /\ <<>> \in [{} -> V]
    OBVIOUS
  <2> QED BY <2>1, Zenon
<1> HIDE DEF S
<1>4. PICK g \in [0 .. n -> S] : g[0] = {<<>>} /\ \A i \in 1 .. n : g[i] = F[i][g[i - 1]]
  <2> HIDE DEF F
  <2>2. Iteration(n, S, {<<>>}, F)
    BY <1>2, <1>3, Iterates, Zenon
  <2> QED BY <2>2, Zenon DEF Iteration
<1>5. ASSUME NEW i \in 0 .. n PROVE g[i] = IF i = 0 THEN {<<>>} ELSE MsgNext(l, i, g[i - 1])
  <2>1. CASE i = 0
    BY <1>4, <2>1, Zenon
  <2>2. CASE i # 0
    <3>1. i \in 1 .. n /\ i - 1 \in 0 .. n
      BY <2>2
    <3>2. g[i - 1] \in S
      BY <3>1, Zenon
    <3> QED BY <1>4, <2>2, <3>1, <3>2, Zenon
  <2> QED BY <2>1, <2>2, Zenon
<1>6. g = [i \in 0 .. n |-> g[i]]
  BY Zenon
<1>7. MsgEqs(l, g)
  BY <1>5, <1>6, Zenon DEF MsgEqs
<1> QED BY <1>7, Zenon

\* The first i fields of m are set, each to a value of its kind.
Filled(l, m, i) ==
    /\ DOMAIN m = {l[x][1] : x \in 1 .. i} /\ m = [f \in DOMAIN m |-> m[f]]
    /\ \A x \in 1 .. i : m[l[x][1]] \in Values(l[x][1], l[x][2])

LEMMA FilledNext ==
    ASSUME NEW l, Len(l) \in Nat, \A i, j \in 1 .. Len(l) : l[i][1] = l[j][1] => i = j,
           NEW i \in 1 .. Len(l), NEW m, Filled(l, m, i - 1), NEW v \in Values(l[i][1], l[i][2])
    PROVE  Filled(l, Assign(m, l[i][1], v), i)
<1> DEFINE f == l[i][1]
           w == Assign(m, f, v)
<1>1. DOMAIN w = DOMAIN m \cup {f} /\ w = [x \in DOMAIN w |-> w[x]] /\ w[f] = v
      /\ \A x \in DOMAIN m : x # f => w[x] = m[x]
  BY Zenon DEF Assign
<1>2. 1 .. i = (1 .. i - 1) \cup {i}
  OBVIOUS
<1>3. DOMAIN w = {l[x][1] : x \in 1 .. i}
  <2> HIDE DEF w
  <2> QED BY <1>1, <1>2 DEF Filled
<1>4. ASSUME NEW x \in 1 .. i PROVE w[l[x][1]] \in Values(l[x][1], l[x][2])
  <2>1. CASE x = i
    BY <1>1, <2>1, Zenon
  <2>2. CASE x # i
    <3>1. x \in 1 .. i - 1 /\ x \in 1 .. Len(l)
      BY <2>2
    <3>2. l[x][1] # f /\ l[x][1] \in DOMAIN m
      BY <2>2, <3>1, Zenon DEF Filled
    <3>3. w[l[x][1]] = m[l[x][1]]
      BY <1>1, <3>2, Zenon
    <3> QED BY <3>1, <3>3, Zenon DEF Filled
  <2> QED BY <2>1, <2>2, Zenon
<1> QED BY <1>1, <1>3, <1>4, Zenon DEF Filled

LEMMA MessagesFilled ==
    ASSUME NEW l, Len(l) \in Nat, \A i, j \in 1 .. Len(l) : l[i][1] = l[j][1] => i = j,
           NEW g, MsgEqs(l, g)
    PROVE  \A m \in g[Len(l)] : Filled(l, m, Len(l))
<1> DEFINE n == Len(l)
           T == {i \in 0 .. n : \E m \in g[i] : ~Filled(l, m, i)}
<1> SUFFICES ASSUME T # {} PROVE FALSE
  <2>1. n \in 0 .. n
    OBVIOUS
  <2> QED BY <2>1, Zenon
<1>1. PICK i \in T : \A y \in T : i <= y
  <2>1. T \in SUBSET Nat
    OBVIOUS
  <2> HIDE DEF T
  <2> QED BY <2>1, LeastNat, Zenon
<1>2. PICK m \in g[i] : ~Filled(l, m, i)
  BY Zenon
<1>3. i \in 0 .. n
  BY Zenon
<1>4. CASE i = 0
  <2>1. m = <<>>
    BY <1>4, Zenon DEF MsgEqs
  <2> QED BY <1>2, <1>4, <2>1 DEF Filled
<1>5. CASE i # 0
  <2>1. i \in 1 .. n /\ i - 1 \in 0 .. n /\ i - 1 \notin T
    <3> HIDE DEF T
    <3> QED BY <1>1, <1>3, <1>5
  <2>2. m \in MsgNext(l, i, g[i - 1])
    BY <1>3, <1>5, Zenon DEF MsgEqs
  <2>3. PICK x \in g[i - 1], v \in Values(l[i][1], l[i][2]) : m = Assign(x, l[i][1], v)
    BY <2>2 DEF MsgNext
  <2>4. Filled(l, x, i - 1)
    BY <2>1, Zenon
  <2> HIDE DEF T
  <2> QED BY <1>2, <2>1, <2>3, <2>4, FilledNext, Zenon
<1> QED BY <1>4, <1>5, Zenon


LEMMA FitBound ==
    ASSUME NEW k \in Ints, NEW n \in Nat
    PROVE  Fit(k, n) \in Nat /\ Fit(k, n) < pow(BASE, Width[k])
<1>1. Width[k] \in Nat
  BY Widths, Zenon DEF Fixed
<1> DEFINE B == pow(BASE, Width[k])
<1>2. B \in Nat /\ B # 0
  <2>1. BASE \in Nat /\ BASE # 0
    BY Radices
  <2> HIDE DEF BASE
  <2> QED BY ONLY <1>1, <2>1, PowFacts, Zenon
<1>3. Fit(k, n) = IF n < B THEN n ELSE B - 1
  BY Zenon DEF Fit
<1> HIDE DEF B
<1>4. Fit(k, n) \in Nat /\ Fit(k, n) < B
  BY <1>2, <1>3
<1> QED BY <1>4, Zenon DEF B

LEMMA OpaqueBytes ==
    ASSUME NEW f \in Tag, NEW n \in Nat, NEW alt \in {0, 1}
    PROVE  Opaque(f, n, alt) \in Seq(Byte) /\ Len(Opaque(f, n, alt)) = n
<1>1. ASSUME NEW i \in 1 .. n PROVE <<i % BASE, f, alt>> \in Byte
  <2>1. i % BASE \in Nat /\ alt \in Nat
    BY Radices
  <2> HIDE DEF BASE
  <2>2. <<i % BASE, f, alt>> \in Nat \X Tag \X Nat
    BY <2>1, Zenon
  <2> QED BY <2>2, Zenon DEF Byte
<1>2. Opaque(f, n, alt) \in [1 .. n -> Byte]
  BY <1>1, Zenon DEF Opaque
<1> QED BY <1>2

LEMMA TextBytes ==
    ASSUME NEW f \in Tag, NEW n \in Nat
    PROVE  Narrow(f, n) \in Seq(Byte) /\ Wide(f, n) \in Seq(Byte)
<1>1. RADIX \in Nat /\ RADIX > 0 /\ RADIX + RADIX \div 2 \in Nat /\ 2 * n \in Nat
  BY CodecAssumption
<1>2. ASSUME NEW i \in Nat PROVE <<i % RADIX, f, 0>> \in Byte
  <2>1. i % RADIX \in Nat /\ 0 \in Nat
    BY <1>1
  <2> QED BY <2>1, Zenon DEF Byte
<1>3. ASSUME NEW i \in Nat
      PROVE  <<IF i % 2 = 1 THEN RADIX + RADIX \div 2 ELSE RADIX, f, 0>> \in Byte
  <2> DEFINE a == IF i % 2 = 1 THEN RADIX + RADIX \div 2 ELSE RADIX
  <2>1. a \in Nat /\ 0 \in Nat
    BY <1>1
  <2> HIDE DEF a
  <2>2. <<a, f, 0>> \in Byte
    BY <2>1, Zenon DEF Byte
  <2> QED BY <2>2, Zenon DEF a
<1>4. (\A i \in 1 .. n : i \in Nat) /\ (\A i \in 1 .. (2 * n) : i \in Nat)
  OBVIOUS
<1>5. Narrow(f, n) \in [1 .. n -> Byte] /\ Wide(f, n) \in [1 .. (2 * n) -> Byte]
  BY <1>2, <1>3, <1>4, Zenon DEF Narrow, Wide
<1> QED BY <1>1, <1>5

LEMMA SmallVersion == COORD_FORMAT_V5 \in Nat /\ COORD_FORMAT_V5 < pow(BASE, Width["u8"])
<1>1. BASE \in Nat /\ BASE > 5 /\ Width["u8"] = 0 + 1
  BY Radices, Widths
<1>2. pow(BASE, 0 + 1) = BASE * pow(BASE, 0) /\ pow(BASE, 0) = 1
  <2>1. 0 \in Nat
    BY Zenon
  <2> QED BY ONLY <1>1, <2>1, PowFacts, Zenon
<1>3. pow(BASE, Width["u8"]) = BASE * 1
  BY ONLY <1>1, <1>2, Zenon
<1> QED BY <1>1, <1>3 DEF COORD_FORMAT_V5

LEMMA ValuesGood ==
    ASSUME NEW f \in Tag, NEW k \in FieldKind, f = "version" => k = "u8", NEW v \in Values(f, k)
    PROVE  Good(k, v) /\ (f = "version" => v = COORD_FORMAT_V5)
<1>0. 0 \in {0, 1}
  BY Zenon
<1>1. CASE f = "version"
  <2>1. k = "u8" /\ v = COORD_FORMAT_V5
    BY <1>1, Zenon DEF Values
  <2> QED BY <2>1, SmallVersion, Zenon DEF Good, Blobs
<1>2. CASE f # "version" /\ k \in Ints
  <2>1. PICK n \in Numbers : v = Fit(k, n)
    BY <1>2, Zenon DEF Values, Ints
  <2>2. n \in Nat
    BY WireAssumption, Zenon
  <2>3. v \in Nat /\ v < pow(BASE, Width[k])
    BY <1>2, <2>1, <2>2, FitBound, Zenon
  <2> QED BY <1>2, <2>3, Zenon DEF Good, Ints, Blobs
<1>3. CASE f # "version" /\ k = "uv"
  <2>1. PICK n \in Numbers : v = Fit("u64", n)
    BY <1>3, Zenon DEF Values
  <2>2. n \in Nat /\ "u64" \in Ints
    BY WireAssumption, Zenon DEF Ints
  <2>3. v \in Nat /\ v < U64
    BY <2>1, <2>2, FitBound, Zenon DEF U64
  <2> QED BY <1>3, <2>3, Zenon DEF Good, Ints, Blobs
<1>4. CASE f # "version" /\ k = "depth"
  <2>1. PICK n \in Numbers : v = Fit("u32", n)
    BY <1>4, Zenon DEF Values
  <2>2. n \in Nat /\ "u32" \in Ints
    BY WireAssumption, Zenon DEF Ints
  <2>3. v \in Nat /\ v < U32
    BY <2>1, <2>2, FitBound, Zenon DEF U32
  <2> QED BY <1>4, <2>3, Zenon DEF Good, Ints, Blobs
<1>5. CASE f # "version" /\ k = "path"
  <2>1. v \in HopLists
    BY <1>5, Zenon DEF Values
  <2>2. GoodPath(v)
    BY <2>1, WireAssumption, Zenon DEF GoodPath
  <2> QED BY <1>5, <2>2, Zenon DEF Good, Ints, Blobs
<1>6. CASE f # "version" /\ k = "opt"
  <2>1. v = <<>> \/ v = Opaque(f, Width["coord"], 0)
    BY <1>6, Zenon DEF Values
  <2>2. v = <<>> \/ (v \in Seq(Byte) /\ Len(v) = Width["coord"])
    BY <1>0, <2>1, Widths, OpaqueBytes, Zenon
  <2> QED BY <1>6, <2>2, Zenon DEF Good, Ints, Blobs
<1>7. CASE f # "version" /\ k = "vec"
  <2>1. PICK n \in Lengths : v = Opaque(f, n, 0)
    BY <1>7, Zenon DEF Values
  <2>2. n \in Nat /\ n < U64
    BY WireAssumption, Zenon
  <2>3. v \in Seq(Byte) /\ Len(v) = n
    BY <1>0, <2>1, <2>2, OpaqueBytes
  <2> QED BY <1>7, <2>2, <2>3, Zenon DEF Good, Ints, Blobs
<1>9. CASE f # "version" /\ k = "str"
  <2>1. PICK n \in Lengths : v = Narrow(f, n) \/ v = Wide(f, n)
    BY <1>9, Zenon DEF Values
  <2>2. n \in Nat
    BY WireAssumption, Zenon
  <2>3. v \in Seq(Byte)
    BY <2>1, <2>2, TextBytes, Zenon
  <2> QED BY <1>9, <2>3, Zenon DEF Good, Ints, Blobs
<1>8. CASE f # "version" /\ k \in Blobs
  <2>1. PICK alt \in {0, 1} : v = Opaque(f, Width[k], alt)
    BY <1>8, Zenon DEF Values, Blobs
  <2>2. Width[k] \in Nat
    BY <1>8, Widths, Zenon DEF Fixed
  <2>3. v \in Seq(Byte) /\ Len(v) = Width[k]
    BY <2>1, <2>2, OpaqueBytes, Zenon
  <2> QED BY <1>8, <2>3, Zenon DEF Good, Ints, Blobs
<1> QED BY <1>1, <1>2, <1>3, <1>4, <1>5, <1>6, <1>7, <1>8, <1>9, Zenon DEF FieldKind, Fixed

LEMMA MessagesProper ==
    ASSUME NEW k \in Kinds, NEW m \in Messages(k)
    PROVE  Proper(k, m)
<1> DEFINE l == Layout[k]
           n == Len(l)
<1>1. FieldFacts(k, l)
  BY EveryField, Zenon
<1>2. PICK r : LayoutFits(l, r)
  BY EveryFit, Zenon DEF Fitted
<1> HIDE DEF l
<1>3. /\ n \in Nat /\ \A i, j \in 1 .. n : l[i][1] = l[j][1] => i = j
      /\ \A j \in 1 .. n : l[j][2] \in FieldKind
  BY <1>2, Zenon DEF LayoutFits
<1>4. Filled(l, m, n)
  <2> DEFINE g == CHOOSE x : MsgEqs(l, x)
  <2>1. m \in g[n]
    BY MessagesChosen, Zenon DEF l
  <2>2. MsgEqs(l, g)
    BY <1>3, MsgExists, Zenon
  <2> HIDE DEF g
  <2> QED BY <1>3, <2>1, <2>2, MessagesFilled, Zenon
<1>5. ASSUME NEW j \in 1 .. n
      PROVE  Good(l[j][2], m[l[j][1]]) /\ (l[j][1] = "version" => m[l[j][1]] = COORD_FORMAT_V5)
  <2>1. l[j][1] \in Tag /\ (l[j][1] = "version" => l[j][2] = "u8")
    BY <1>1, Zenon DEF FieldFacts
  <2>2. m[l[j][1]] \in Values(l[j][1], l[j][2])
    BY <1>4, Zenon DEF Filled
  <2> QED BY <1>3, <2>1, <2>2, ValuesGood, Zenon
<1>6. DOMAIN m = Names(l) /\ m = [f \in DOMAIN m |-> m[f]]
  BY <1>4, Zenon DEF Filled, Names
<1>7. GoodMsg(l, m)
  BY <1>5, Zenon DEF GoodMsg
<1>8. "version" \in DOMAIN m => m["version"] = COORD_FORMAT_V5
  BY <1>5, <1>6, Zenon DEF Names
<1> QED BY <1>6, <1>7, <1>8, Zenon DEF Proper, l


-----------------------------------------------------------------------------
(* The specification: one struct is encoded and what comes of it is decoded.  *)

LEMMA CutFacts ==
    ASSUME NEW F \in Seq(Byte), NEW n \in 0 .. Len(F) + 1
    PROVE  LET d == SubSeq(Append(F, Digit(0)), 1, n) IN
           /\ d \in Seq(Byte)
           /\ n <= Len(F) => Begins(d, F)
           /\ n >= Len(F) => \E x \in Seq(Byte) : d = F \o x
<1> DEFINE z == Digit(0)
           A == Append(F, z)
           d == SubSeq(A, 1, n)
<1>1. z \in Byte /\ Len(F) \in Nat /\ n \in Nat
  BY ByteFacts
<1> HIDE DEF z
<1>2. /\ A \in Seq(Byte) /\ Len(A) = Len(F) + 1 /\ A[Len(F) + 1] = z
      /\ \A i \in 1 .. Len(F) : A[i] = F[i]
  BY <1>1
<1> HIDE DEF A
<1>3. d \in Seq(Byte) /\ Len(d) = n /\ \A i \in 1 .. n : d[i] = A[i]
  BY <1>1, <1>2
<1> HIDE DEF d
<1>4. n <= Len(F) => Begins(d, F)
  BY <1>1, <1>2, <1>3 DEF Begins
<1>5. CASE n = Len(F)
  <2>1. d = F \o <<>>
    BY <1>2, <1>3, <1>5
  <2>2. <<>> \in Seq(Byte)
    OBVIOUS
  <2> QED BY <1>3, <1>4, <2>1, <2>2, Zenon DEF d, A, z
<1>6. CASE n = Len(F) + 1
  <2>1. <<z>> \in Seq(Byte)
    BY <1>1
  <2>2. d = F \o <<z>>
    <3>1. F \o <<z>> \in Seq(Byte) /\ Len(F \o <<z>>) = n /\ \A i \in 1 .. n : (F \o <<z>>)[i] = A[i]
      BY <1>1, <1>2, <1>6
    <3> DEFINE y == F \o <<z>>
    <3> HIDE DEF y
    <3>2. Len(d) = Len(y) /\ \A i \in 1 .. Len(d) : d[i] = y[i]
      BY <1>3, <3>1, Zenon DEF y
    <3>3. d = y
      BY <1>3, <3>1, <3>2, SameSeq, Zenon DEF y
    <3> QED BY <3>3, Zenon DEF y
  <2> QED BY <1>3, <1>4, <2>1, <2>2, Zenon DEF d, A, z
<1>7. CASE n < Len(F)
  <2>1. ~(n >= Len(F))
    BY <1>1, <1>7
  <2> QED BY <1>3, <1>4, <2>1, Zenon DEF d, A, z
<1> QED BY <1>1, <1>5, <1>6, <1>7

\* What was sent is a struct of its format, and what was decoded is what came of its frame.
WireInv ==
    /\ kind \in Kinds \cup {"none"}
    /\ kind # "none" => sent \in Messages(kind) /\ frame = Encode(kind, sent)
    /\ got.out # "wait" => /\ kind # "none" /\ came \in 0 .. (Len(frame) + 1)
                           /\ got = Decode(SubSeq(Append(frame, Digit(0)), 1, came))

LEMMA WireInvInductive == WireSpec => []WireInv
<1>1. WireInit => WireInv
  BY DEF WireInit, WireInv
<1>2. WireInv /\ [WireNext]_wire_vars => WireInv'
  <2> SUFFICES ASSUME WireInv, [WireNext]_wire_vars PROVE WireInv'
    BY Zenon
  <2>0. "none" \notin Kinds
    BY Zenon DEF Kinds, Type
  <2> USE DEF WireInv
  <2>1. CASE \E k \in Kinds : Send(k)
    <3>1. PICK k \in Kinds : Send(k)
      BY <2>1, Zenon
    <3>2. /\ kind = "none" /\ kind' = k /\ sent' \in Messages(k) /\ frame' = Encode(k, sent')
          /\ came' = came /\ got' = got
      BY <3>1, Zenon DEF Send
    <3> QED BY <2>0, <3>2, Zenon
  <2>2. CASE \E n \in 0 .. (Len(frame) + 1) : Deliver(n)
    <3>1. PICK n \in 0 .. (Len(frame) + 1) : Deliver(n)
      BY <2>2, Zenon
    <3>2. /\ kind # "none" /\ kind' = kind /\ sent' = sent /\ frame' = frame /\ came' = n
          /\ got' = Decode(SubSeq(Append(frame, Digit(0)), 1, n))
      BY <3>1 DEF Deliver
    <3> QED BY <3>2, Zenon
  <2>3. CASE UNCHANGED wire_vars
    BY <2>3, Zenon DEF wire_vars
  <2> QED BY <2>1, <2>2, <2>3, Zenon DEF WireNext
<1> QED BY <1>1, <1>2, PTL DEF WireSpec

\* What a state of the specification says of the frame and of what came of it.
Arrived ==
    LET d == SubSeq(Append(frame, Digit(0)), 1, came) IN
    /\ kind \in Kinds /\ Proper(kind, sent) /\ frame = Encode(kind, sent) /\ got = Decode(d)
    /\ d \in Seq(Byte) /\ (came < Len(frame) => Begins(d, frame))
    /\ came >= Len(frame) => \E x \in Seq(Byte) : d = frame \o x

LEMMA ArrivedHolds ==
    ASSUME WireInv, got.out # "wait"
    PROVE  Arrived
<1>1. kind \in Kinds /\ frame = Encode(kind, sent) /\ came \in 0 .. (Len(frame) + 1)
  BY Zenon DEF WireInv
<1>2. Proper(kind, sent)
  BY <1>1, MessagesProper, Zenon DEF WireInv
<1>3. <<>> \in Seq(Byte)
  OBVIOUS
<1>4. frame \in Seq(Byte)
  BY <1>1, <1>2, <1>3, FrameTail, Zenon
<1>5. got = Decode(SubSeq(Append(frame, Digit(0)), 1, came))
  BY Zenon DEF WireInv
<1> DEFINE d == SubSeq(Append(frame, Digit(0)), 1, came)
<1>6. /\ d \in Seq(Byte)
      /\ came <= Len(frame) => Begins(d, frame)
      /\ came >= Len(frame) => \E x \in Seq(Byte) : d = frame \o x
  BY ONLY <1>1, <1>4, CutFacts, Zenon
<1>7. came < Len(frame) => came <= Len(frame)
  BY <1>1, <1>4
<1> QED BY <1>1, <1>2, <1>5, <1>6, <1>7, Zenon DEF Arrived

\* A frame that arrives whole, whatever follows it, decodes to the struct that was encoded, or is
\* refused if its onion payload exceeds the cell or its endpoint was cut inside a character, for
\* every width, radix and limit (encode and decode of packet.rs and session.rs).
THEOREM FramesRoundTrip == WireSpec => []RoundTrips
<1>1. WireInv => RoundTrips
  <2> SUFFICES ASSUME WireInv, got.out # "wait", came >= Len(frame)
               PROVE  IF Decodable(kind, sent) THEN got.out = "ok" /\ got.m = Carried(kind, sent)
                      ELSE got.out = "bail"
    BY Zenon DEF RoundTrips
  <2>1. Arrived
    BY ArrivedHolds, Zenon
  <2>2. PICK x \in Seq(Byte) : got = Decode(Encode(kind, sent) \o x)
    BY <2>1, Zenon DEF Arrived
  <2>3. IF Decodable(kind, sent) THEN got = [out |-> "ok", m |-> Carried(kind, sent)] ELSE got.out = "bail"
    BY <2>1, <2>2, DecodeInvertsEncode, Zenon DEF Arrived
  <2> QED BY <2>3
<1> QED BY <1>1, WireInvInductive, PTL

\* No frame, cut short or not, makes a decoder slice past the end of its buffer: each check covers
\* what is read behind it (the `need` checks of packet.rs and session.rs).
THEOREM NoDecoderPanics == WireSpec => []DecodersTotal
<1>1. WireInv => DecodersTotal
  <2> SUFFICES ASSUME WireInv, got.out # "wait" PROVE got.out # "panic"
    BY Zenon DEF DecodersTotal
  <2>1. Arrived
    BY ArrivedHolds, Zenon
  <2>2. got.out \in {"ok", "bail"}
    BY <2>1, DecodeIsTotal, Zenon DEF Arrived
  <2> QED BY <2>2, Zenon
<1> QED BY <1>1, WireInvInductive, PTL

\* A frame cut short is refused, gives the struct that was sent, or gives one its signature does
\* not cover (Announce::decode takes a missing depth for 0, packet.rs:325).
THEOREM TruncationDetected == WireSpec => []TruncationNotTrusted
<1>1. WireInv => TruncationNotTrusted
  <2> SUFFICES ASSUME WireInv, got.out = "ok", came < Len(frame), got.m # Carried(kind, sent)
               PROVE  kind \in Signed /\ SignBytes(kind, got.m) # SignBytes(kind, sent)
    BY Zenon DEF TruncationNotTrusted
  <2>1. Arrived
    BY ArrivedHolds, Zenon
  <2> DEFINE d == SubSeq(Append(frame, Digit(0)), 1, came)
  <2>2. /\ kind \in Kinds /\ Proper(kind, sent) /\ got = Decode(d) /\ d \in Seq(Byte)
        /\ Begins(d, Encode(kind, sent))
    BY <2>1, Zenon DEF Arrived
  <2> HIDE DEF d
  <2> QED BY <2>2, CutShortNotTrusted, Zenon
<1> QED BY <1>1, WireInvInductive, PTL

\* Two structs with the same signed bytes agree on every field that is not a signature or the
\* advisory coordinate (the sign_bytes of packet.rs and session.rs).
THEOREM SignedFieldsCovered == WireSpec => []SignaturesCover
<1>1. WireInv => SignaturesCover
  <2> SUFFICES ASSUME WireInv, kind \in Signed, NEW o \in DOMAIN SignedAs[kind],
                      SignedAs[kind][o] = SignedAs[kind][sent], NEW f \in DOMAIN sent \ Unsigned
               PROVE  Carried(kind, o)[f] = Carried(kind, sent)[f]
    BY Zenon DEF SignaturesCover
  <2>1. kind \in Kinds /\ kind # "none"
    BY SignsFit, Zenon DEF Kinds, Type
  <2>2. sent \in Messages(kind)
    BY <2>1, Zenon DEF WireInv
  <2>3. SignedAs[kind] = [m \in Messages(kind) |-> SignBytes(kind, m)]
    BY Zenon DEF SignedAs
  <2>4. o \in Messages(kind) /\ SignBytes(kind, o) = SignBytes(kind, sent)
    BY <2>2, <2>3, Zenon
  <2>5. Proper(kind, sent) /\ Proper(kind, o)
    BY <2>1, <2>2, <2>4, MessagesProper, Zenon
  <2> QED BY <2>5, <2>4, SignBytesCover
<1> QED BY <1>1, WireInvInductive, PTL

=============================================================================
