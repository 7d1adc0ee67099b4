-------------------------- MODULE LinkStreamProofs --------------------------
(***************************************************************************)
(* Proofs about LinkStream, for every number and size of frames and every  *)
(* capacity of its queues: with the writer's steps of DeliveryProofs, the  *)
(* reader, the crypto worker and the callers preserve the stream           *)
(* invariant, so the link implements FifoLink; and payloads keep the order *)
(* of their calls.                                                         *)
(***************************************************************************)
EXTENDS DeliveryProofs

-----------------------------------------------------------------------------
(* The reader.                                                             *)

LEMMA CodedFields ==
    ASSUME NEW b, NEW p
    PROVE  Coded(b, p).b = b /\ (obfs => Coded(b, p).nonce = "tx" /\ Coded(b, p).pos = p)
<1>1. CASE obfs
  <2>1. Coded(b, p) = [b |-> b, nonce |-> "tx", pos |-> p]
    BY <1>1 DEF Coded
  <2> QED BY <2>1
<1>2. CASE ~obfs
  <2>1. Coded(b, p) = [b |-> b, nonce |-> "none", pos |-> 0]
    BY <1>2 DEF Coded
  <2> QED BY <1>2, <2>1
<1> QED BY <1>1, <1>2

\* Both cipher ends count the bytes of the stream, so what is read is legible.
LEMMA PollReads ==
    ASSUME NEW S, NEW off, StreamInv(S, off), NEW n \in 1 .. Len(sock)
    PROVE  /\ poll_read(n) \in Seq(WireByte) /\ Len(poll_read(n)) = n
           /\ \A i \in 1 .. n : poll_read(n)[i] = S[ReadAt(off) + i]
<1>1. sock \in Seq(Cell) /\ Len(sock) \in Nat /\ n \in Nat /\ n <= Len(sock)
      /\ obfs \in BOOLEAN
  BY DEF StreamInv, StreamType
<1>2. \A i \in 1 .. n : i \in 1 .. Len(sock)
  BY <1>1
<1>3. \A i \in 1 .. n : sock[i] \in Cell
  BY <1>1, <1>2
<1>4. \A i \in 1 .. n : sock[i] = Coded(S[ReadAt(off) + i], ReadAt(off) + i)
  BY <1>2 DEF StreamInv, ReadInv
<1>5. \A i \in 1 .. n : sock[i].b = S[ReadAt(off) + i] /\ sock[i].b \in WireByte
  <2>1. \A i \in 1 .. n : sock[i].b \in WireByte
    BY <1>3 DEF Cell
  <2> QED BY <1>4, <2>1, CodedFields
<1>6. CASE ~obfs
  <2>1. poll_read(n) = [i \in 1 .. n |-> sock[i].b]
    BY <1>6 DEF poll_read
  <2> QED BY <1>1, <1>5, <2>1
<1>7. CASE obfs
  <2> DEFINE w == SubSeq(sock, 1, n)
  <2>1. DOMAIN w = 1 .. n /\ \A i \in 1 .. n : w[i] = sock[i]
    BY <1>1
  <2>2. keystream["rx"] = ReadAt(off)
    BY <1>7 DEF StreamInv, ReadInv
  <2>3. poll_read(n) = [i \in 1 .. n |-> IF w[i].nonce = "tx" /\ w[i].pos = ReadAt(off) + i
                                         THEN w[i].b ELSE Illegible]
    BY <1>7, <2>1, <2>2 DEF poll_read, unapply
  <2> HIDE DEF w
  <2>4. \A i \in 1 .. n : w[i].nonce = "tx" /\ w[i].pos = ReadAt(off) + i
    BY <1>4, <1>7, <2>1, CodedFields
  <2>5. poll_read(n) = [i \in 1 .. n |-> sock[i].b]
    BY <2>1, <2>3, <2>4
  <2> QED BY <1>1, <1>5, <2>5
<1> QED BY <1>1, <1>6, <1>7

\* Reading n bytes moves the reader and leaves the end of the socket where it was.
LEMMA Consumed ==
    ASSUME NEW S, NEW off, StreamInv(S, off), NEW n \in 1 .. Len(sock), Consume(n),
           obfs' = obfs, ReadAt(off)' = ReadAt(off) + n
    PROVE  /\ sock' \in Seq(Cell) /\ SockEnd(off)' = SockEnd(off)
           /\ keystream' \in [Sides -> Nat] /\ keystream'["tx"] = keystream["tx"]
           /\ (\A i \in 1 .. Len(sock) : sock[i] = Coded(S[ReadAt(off) + i], ReadAt(off) + i))'
           /\ obfs' => keystream'["rx"] = ReadAt(off)'
<1>1. sock \in Seq(Cell) /\ Len(sock) \in Nat /\ n \in Nat /\ n <= Len(sock)
      /\ obfs \in BOOLEAN /\ keystream \in [Sides -> Nat] /\ ReadAt(off) \in Nat
  BY PlaceFacts DEF StreamInv, StreamType
<1>2. /\ sock' \in Seq(Cell) /\ Len(sock') = Len(sock) - n
      /\ \A i \in 1 .. Len(sock) - n : sock'[i] = sock[n + i]
  <2>1. sock' = SubSeq(sock, n + 1, Len(sock)) /\ Len(sock) <= Len(sock)
    BY <1>1 DEF Consume
  <2> QED BY <1>1, <2>1, SliceFacts
<1>3. SockEnd(off)' = SockEnd(off)
  BY <1>1, <1>2 DEF SockEnd
<1>4. keystream' \in [Sides -> Nat] /\ keystream'["tx"] = keystream["tx"]
      /\ (obfs => keystream'["rx"] = keystream["rx"] + n)
  BY <1>1 DEF Consume, Sides
<1>5. obfs => keystream["rx"] = ReadAt(off)
  BY DEF StreamInv, ReadInv
<1>6. \A b, p : Coded(b, p)' = Coded(b, p)
  BY DEF Coded
<1>7. (\A i \in 1 .. Len(sock) : sock[i] = Coded(S[ReadAt(off) + i], ReadAt(off) + i))'
  <2> SUFFICES ASSUME NEW i \in 1 .. Len(sock) - n
               PROVE  sock'[i] = Coded(S[(ReadAt(off) + n) + i], (ReadAt(off) + n) + i)
    BY <1>2, <1>6
  <2>1. n + i \in 1 .. Len(sock) /\ (ReadAt(off) + n) + i = ReadAt(off) + (n + i)
    BY <1>1
  <2>2. sock[n + i] = Coded(S[ReadAt(off) + (n + i)], ReadAt(off) + (n + i))
    BY <2>1 DEF StreamInv, ReadInv
  <2> QED BY <1>2, <2>1, <2>2
<1> QED BY <1>2, <1>3, <1>4, <1>5, <1>7

LEMMA WriteStays ==
    ASSUME NEW S, NEW off, WriteInv(S, off), UNCHANGED <<chan, taken, wvars, obfs>>,
           SockEnd(off)' = SockEnd(off), keystream'["tx"] = keystream["tx"]
    PROVE  WriteInv(S, off)'
<1>1. UNCHANGED <<wphase, outbuf, pending>>
  BY DEF wvars
<1>2. \A b, p : Coded(b, p)' = Coded(b, p)
  BY DEF Coded
<1> QED BY <1>1, <1>2 DEF WriteInv

\* A reader that finds a byte is inside a frame that the channel has taken.
LEMMA InFrame ==
    ASSUME NEW S, NEW off, StreamInv(S, off), Len(sock) # 0, rphase # "dead"
    PROVE  /\ Len(arrived) < Len(taken) /\ Len(arrived) + 1 \in 1 .. Len(taken)
           /\ Reading \in LinkFrame
           /\ off[Len(arrived) + 1] = off[Len(arrived)] + Len(LenOf(Reading)) + Size[Reading.id]
           /\ \A i \in 1 .. Len(LenOf(Reading)) :
                S[off[Len(arrived)] + i] = [frame |-> Idle, at |-> 0, v |-> LenOf(Reading)[i]]
           /\ \A i \in 1 .. Size[Reading.id] :
                S[(off[Len(arrived)] + Len(LenOf(Reading))) + i]
                  = [frame |-> Reading, at |-> i, v |-> 0]
<1>1. Len(arrived) < Len(taken)
  <2>1. /\ Len(arrived) \in Nat /\ Len(taken) \in Nat /\ Len(arrived) <= Len(taken)
        /\ Len(prefix) \in Nat /\ Len(partial) \in Nat /\ Len(sock) \in Nat /\ Len(S) \in Nat
        /\ off[Len(taken)] = Len(S) /\ SockEnd(off) <= Len(S) /\ off[Len(arrived)] \in Nat
    BY PlaceFacts
  <2>2. SockEnd(off) = off[Len(arrived)] + Len(prefix) + Len(partial) + Len(sock)
    BY DEF SockEnd, ReadAt
  <2>3. off[Len(arrived)] # Len(S)
    BY <2>1, <2>2
  <2> QED BY <2>1, <2>3
<1> DEFINE k == Len(arrived) + 1
           f == taken[k]
<1>2. k \in 1 .. Len(taken) /\ k - 1 = Len(arrived) /\ Reading = f
  BY <1>1, PlaceFacts DEF Reading
<1>3. Layout(taken, off, S)
  BY DEF StreamInv
<1> HIDE DEF k
<1>4. /\ f \in LinkFrame /\ off[k - 1] \in Nat /\ off[k] = off[k - 1] + Len(Wire(f))
      /\ \A i \in 1 .. Len(Wire(f)) : S[off[k - 1] + i] = Wire(f)[i]
  BY <1>2, <1>3, LayoutFrame
<1> HIDE DEF f
<1>5. /\ Size[f.id] \in Nat /\ Len(LenOf(f)) \in Nat
      /\ Len(Wire(f)) = Len(LenOf(f)) + Size[f.id]
      /\ \A i \in 1 .. Len(LenOf(f)) :
           Wire(f)[i] = [frame |-> Idle, at |-> 0, v |-> LenOf(f)[i]]
      /\ \A i \in 1 .. Size[f.id] :
           Wire(f)[Len(LenOf(f)) + i] = [frame |-> f, at |-> i, v |-> 0]
  BY <1>4, WireFacts
<1>6. off[k] = off[k - 1] + Len(LenOf(f)) + Size[f.id]
  BY <1>4, <1>5
<1>7. \A i \in 1 .. Len(LenOf(f)) :
        S[off[k - 1] + i] = [frame |-> Idle, at |-> 0, v |-> LenOf(f)[i]]
  <2>1. \A i \in 1 .. Len(LenOf(f)) : i \in 1 .. Len(Wire(f))
    BY <1>5
  <2> QED BY <1>4, <1>5, <2>1
<1>8. ASSUME NEW i \in 1 .. Size[f.id]
      PROVE  S[(off[k - 1] + Len(LenOf(f))) + i] = [frame |-> f, at |-> i, v |-> 0]
  <2>1. Len(LenOf(f)) + i \in 1 .. Len(Wire(f))
        /\ (off[k - 1] + Len(LenOf(f))) + i = off[k - 1] + (Len(LenOf(f)) + i)
    BY <1>4, <1>5
  <2> QED BY <1>4, <1>5, <2>1
<1> QED BY <1>1, <1>2, <1>4, <1>6, <1>7, <1>8 DEF k


\* read_frame reads one digit of the length.
LEMMA ReadLengthStep ==
    ASSUME NEW S, NEW off, StreamInv(S, off), ReadLength
    PROVE  StreamInv(S, off)'
<1>1. /\ rphase = "length" /\ Consume(1)
      /\ UNCHANGED <<chan, taken, wvars, partial, arrived, obfs, broken>>
  BY DEF ReadLength, link
<1>2. Len(sock) # 0 /\ 1 \in 1 .. Len(sock)
  BY DEF ReadLength, StreamInv, StreamType
<1>3. PICK d : /\ d = poll_read(1)[1].v /\ prefix' = Append(prefix, d)
               /\ rphase' = IF d < LEN_RADIX THEN "body" ELSE "length"
  BY DEF ReadLength
<1> DEFINE f == Reading
           e == LenOf(Reading)
           a == off[Len(arrived)]
<1>4. /\ Len(arrived) < Len(taken) /\ f \in LinkFrame
      /\ \A i \in 1 .. Len(e) : S[a + i] = [frame |-> Idle, at |-> 0, v |-> e[i]]
  BY <1>1, <1>2, InFrame
<1>5. /\ Len(prefix) < Len(e) /\ Len(partial) = 0 /\ Len(prefix) \in Nat
      /\ \A i \in 1 .. Len(prefix) : prefix[i] = e[i]
  BY <1>1, <1>4, PlaceFacts DEF StreamInv, ReadInv, HeadInv
<1>6. /\ Size[f.id] \in Nat \ {0} /\ e \in Seq(Nat) /\ Len(e) \in Nat
  BY <1>4, WireFacts
<1>7. Len(e) = Width(Size[f.id]) /\ e[Len(e)] < LEN_RADIX
      /\ \A i \in 1 .. Len(e) - 1 : e[i] >= LEN_RADIX
  BY <1>6, EncodeFacts DEF LenOf
<1> DEFINE m == Len(prefix) + 1
<1>8. m \in 1 .. Len(e) /\ m \in Nat
  BY <1>5, <1>6
<1>9. ReadAt(off) + 1 = a + m
  <2>1. a \in Nat /\ Len(prefix) \in Nat /\ ReadAt(off) = a + Len(prefix) + Len(partial)
    BY PlaceFacts DEF ReadAt
  <2> HIDE DEF a
  <2> QED BY <1>5, <2>1
<1>10. d = e[m]
  <2>1. poll_read(1)[1] = S[ReadAt(off) + 1]
    <3>1. 1 \in 1 .. 1
      OBVIOUS
    <3> QED BY <1>2, <3>1, PollReads
  <2> HIDE DEF m, a, e
  <2>2. S[a + m] = [frame |-> Idle, at |-> 0, v |-> e[m]]
    BY <1>4, <1>8
  <2>3. S[a + m].v = e[m]
    BY <2>2
  <2> QED BY <1>3, <1>9, <2>1, <2>3
<1>11. e[m] \in Nat /\ LEN_RADIX \in Nat /\ (e[m] < LEN_RADIX <=> m = Len(e))
  <2> HIDE DEF m, e
  <2>1. m # Len(e) => m \in 1 .. Len(e) - 1
    BY <1>6, <1>8
  <2>2. e[m] \in Nat /\ LEN_RADIX \in Nat
    BY <1>6, <1>8, LinkAssumption
  <2> QED BY <1>7, <2>1, <2>2
<1>12. /\ prefix' \in Seq(Nat) /\ Len(prefix') = m
       /\ \A i \in 1 .. m : prefix'[i] = e[i]
  <2>1. prefix \in Seq(Nat) /\ d \in Nat
    BY <1>10, <1>11 DEF StreamInv, StreamType
  <2>2. prefix' \in Seq(Nat) /\ Len(prefix') = m /\ prefix'[m] = d
        /\ \A i \in 1 .. Len(prefix) : prefix'[i] = prefix[i]
    BY <1>3, <2>1
  <2>3. \A i \in 1 .. m : i = m \/ i \in 1 .. Len(prefix)
    BY <1>5
  <2> QED BY <1>5, <1>10, <2>2, <2>3
<1>13. Reading' = Reading /\ LenOf(Reading)' = LenOf(Reading)
  BY <1>1 DEF Reading, LenOf
<1>14. HeadInv'
  <2> HIDE DEF m
  <2>1. Len(partial') = 0 /\ Len(arrived') < Len(taken') /\ Len(arrived') # Len(taken')
    BY <1>1, <1>4, <1>5, PlaceFacts
  <2>2. rphase' = "length" => Len(prefix') < Len(e)
    BY <1>3, <1>6, <1>8, <1>10, <1>11, <1>12
  <2>3. rphase' = "body" => Len(prefix') = Len(e) /\ Len(partial') < Size[f.id]
    BY <1>3, <1>6, <1>10, <1>11, <1>12, <2>1
  <2>4. \A i \in 1 .. Len(prefix') : prefix'[i] = e[i]
    BY <1>12
  <2>5. \A i \in 1 .. Len(partial') : FALSE
    BY <2>1
  <2> QED BY <1>13, <2>1, <2>2, <2>3, <2>4, <2>5 DEF HeadInv
<1>15. ReadAt(off)' = ReadAt(off) + 1
  BY <1>1, <1>5, <1>12, PlaceFacts DEF ReadAt
<1>16. /\ sock' \in Seq(Cell) /\ SockEnd(off)' = SockEnd(off)
       /\ keystream' \in [Sides -> Nat] /\ keystream'["tx"] = keystream["tx"]
       /\ (\A i \in 1 .. Len(sock) : sock[i] = Coded(S[ReadAt(off) + i], ReadAt(off) + i))'
       /\ obfs' => keystream'["rx"] = ReadAt(off)'
  BY <1>1, <1>2, <1>15, Consumed
<1>17. StreamType'
  <2>1. rphase' \in {"length", "body", "dead"} /\ wphase' = wphase
    BY <1>1, <1>3 DEF wvars
  <2> QED BY <1>1, <1>12, <1>16, <2>1 DEF StreamInv, StreamType
<1>18. ReadInv(S, off)'
  BY <1>1, <1>14, <1>16 DEF StreamInv, ReadInv
<1>19. Layout(taken, off, S)'
  BY <1>1 DEF StreamInv
<1>20. ~broken' => WriteInv(S, off)'
  <2>1. ~broken => WriteInv(S, off)
    BY DEF StreamInv
  <2> QED BY <1>1, <1>16, <2>1, WriteStays
<1> QED BY <1>17, <1>18, <1>19, <1>20 DEF StreamInv


\* What read_frame has when it has read n more bytes of a frame's body.
LEMMA BodyFacts ==
    ASSUME NEW S, NEW off, StreamInv(S, off), rphase = "body", Len(sock) # 0,
           NEW n \in 1 .. Min({Len(sock), Need - Len(partial)})
    PROVE  LET bs == partial \o poll_read(n) IN
           /\ n \in 1 .. Len(sock) /\ Need = Size[Reading.id] /\ Reading \in LinkFrame
           /\ Len(arrived) + 1 \in 1 .. Len(taken) /\ Len(prefix) = Len(LenOf(Reading))
           /\ off[Len(arrived) + 1] = off[Len(arrived)] + Len(LenOf(Reading)) + Size[Reading.id]
           /\ bs \in Seq(WireByte) /\ Len(bs) = Len(partial) + n /\ Len(bs) <= Size[Reading.id]
           /\ \A i \in 1 .. Len(bs) : bs[i] = [frame |-> Reading, at |-> i, v |-> 0]
<1> DEFINE f == Reading
           e == LenOf(Reading)
           a == off[Len(arrived)]
           z == Size[Reading.id]
           p == Len(partial)
           ps == poll_read(n)
<1>1. /\ Len(arrived) + 1 \in 1 .. Len(taken) /\ Len(arrived) < Len(taken) /\ f \in LinkFrame
      /\ off[Len(arrived) + 1] = a + Len(e) + z
      /\ \A i \in 1 .. z : S[(a + Len(e)) + i] = [frame |-> f, at |-> i, v |-> 0]
  BY InFrame
<1>2. /\ Len(prefix) = Len(e) /\ p < z /\ p \in Nat
      /\ \A i \in 1 .. Len(prefix) : prefix[i] = e[i]
      /\ \A i \in 1 .. p : partial[i] = [frame |-> f, at |-> i, v |-> 0]
  BY <1>1, PlaceFacts DEF StreamInv, ReadInv, HeadInv
<1>3. z \in Nat /\ z # 0 /\ e \in Seq(Nat) /\ Len(e) \in Nat
  BY <1>1, WireFacts
<1>4. Need = z
  <2>1. prefix \in Seq(Nat)
    BY DEF StreamInv, StreamType
  <2> HIDE DEF e
  <2>2. prefix = e
    BY <1>2, <1>3, <2>1, SameSeq
  <2>3. decode_len(encode_len(z)) = z
    BY <1>3, DecodeEncode
  <2> QED BY <2>2, <2>3 DEF Need, e, LenOf
<1>5. n \in Nat /\ n # 0 /\ n <= Len(sock) /\ p + n <= z /\ n \in 1 .. Len(sock)
  <2>1. PICK q : q = z - p /\ q \in Nat
    BY <1>2, <1>3
  <2>2. {Len(sock), q} \in SUBSET Nat
    BY <2>1, PlaceFacts
  <2>3. Min({Len(sock), q}) \in {Len(sock), q} /\ \A y \in {Len(sock), q} : Min({Len(sock), q}) <= y
    BY <2>2, MinFacts
  <2>4. n \in 1 .. Min({Len(sock), q})
    BY <1>4, <2>1
  <2>5. PICK k \in Nat : n \in 1 .. k /\ k <= Len(sock) /\ k <= q
    BY <2>2, <2>3, <2>4
  <2>6. Len(sock) \in Nat
    BY PlaceFacts
  <2> HIDE DEF z, p
  <2> QED BY <1>2, <1>3, <2>1, <2>5, <2>6
<1>6. /\ ps \in Seq(WireByte) /\ Len(ps) = n
      /\ \A i \in 1 .. n : ps[i] = S[ReadAt(off) + i]
  BY <1>5, PollReads
<1>7. ReadAt(off) = (a + Len(e)) + p /\ a \in Nat
  BY <1>2, PlaceFacts DEF ReadAt
<1> HIDE DEF f, e, a, z, p, ps
<1>8. \A i \in 1 .. n : ps[i] = [frame |-> f, at |-> p + i, v |-> 0]
  <2> SUFFICES ASSUME NEW i \in 1 .. n PROVE ps[i] = [frame |-> f, at |-> p + i, v |-> 0]
    OBVIOUS
  <2>1. p + i \in 1 .. z /\ ReadAt(off) + i = (a + Len(e)) + (p + i)
    BY <1>2, <1>3, <1>5, <1>7
  <2> QED BY <1>1, <1>6, <2>1
<1>9. partial \in Seq(WireByte) /\ Len(partial) = p
  BY DEF StreamInv, StreamType, p
<1>10. /\ partial \o ps \in Seq(WireByte) /\ Len(partial \o ps) = p + n
       /\ \A i \in 1 .. p : (partial \o ps)[i] = partial[i]
       /\ \A i \in 1 .. n : (partial \o ps)[p + i] = ps[i]
  <2>1. ps \in Seq(WireByte) /\ partial \in Seq(WireByte)
    BY <1>6, <1>9
  <2>2. /\ partial \o ps \in Seq(WireByte) /\ Len(partial \o ps) = Len(partial) + Len(ps)
        /\ \A i \in 1 .. Len(partial) : (partial \o ps)[i] = partial[i]
        /\ \A i \in 1 .. Len(ps) : (partial \o ps)[Len(partial) + i] = ps[i]
    BY ONLY <2>1, JoinFacts
  <2> QED BY <1>6, <1>9, <2>2
<1>11. ASSUME NEW i \in 1 .. p + n
       PROVE  (partial \o ps)[i] = [frame |-> f, at |-> i, v |-> 0]
  <2>1. CASE i <= p
    <3>1. i \in 1 .. p
      BY <1>2, <2>1
    <3> QED BY <1>2, <1>10, <3>1
  <2>2. CASE ~(i <= p)
    <3>1. PICK j \in 1 .. n : i = p + j
      BY <1>2, <1>5, <2>2
    <3> QED BY <1>8, <1>10, <3>1
  <2> QED BY <1>2, <2>1, <2>2
<1> QED BY <1>1, <1>2, <1>4, <1>5, <1>10, <1>11 DEF f, e, a, z, p, ps


\* The frame that dispatch is given is the one whose bytes were read.
LEMMA FrameOfBytes ==
    ASSUME NEW f \in LinkFrame, NEW bs \in Seq(WireByte), Len(bs) = Size[f.id],
           \A i \in 1 .. Len(bs) : bs[i] = [frame |-> f, at |-> i, v |-> 0]
    PROVE  FrameOf(bs) = f
<1>1. Size[f.id] \in Nat /\ Size[f.id] # 0
  BY WireFacts
<1>2. bs = Bytes(f)
  <2>1. bs = [i \in 1 .. Len(bs) |-> bs[i]]
    OBVIOUS
  <2>2. bs = [i \in 1 .. Size[f.id] |-> [frame |-> f, at |-> i, v |-> 0]]
    BY <2>1
  <2> QED BY <2>2 DEF Bytes
<1>3. bs[1] = [frame |-> f, at |-> 1, v |-> 0]
  BY <1>1
<1>4. bs[1].frame = f
  BY <1>3
<1>5. f # Idle
  <2>1. f.id \in Payloads /\ 0 \notin Payloads
    BY LinkAssumption DEF LinkFrame, Payloads
  <2> QED BY <2>1 DEF Idle
<1> QED BY <1>2, <1>4, <1>5 DEF FrameOf

\* read_frame reads bytes of the body; a complete frame is the next one taken.
LEMMA ReadBodyStep ==
    ASSUME NEW S, NEW off, StreamInv(S, off), ReadBody
    PROVE  /\ StreamInv(S, off)'
           /\ \/ UNCHANGED arrived
              \/ Len(arrived) < Len(taken) /\ arrived' = Append(arrived, taken[Len(arrived) + 1])
<1>1. /\ rphase = "body" /\ Len(sock) # 0
      /\ UNCHANGED <<chan, taken, wvars, obfs, broken>>
  BY DEF ReadBody, link, StreamInv, StreamType
<1>2. PICK n \in 1 .. Min({Len(sock), Need - Len(partial)}) :
          /\ Consume(n)
          /\ LET bs == partial \o poll_read(n) IN
             IF Len(bs) = Need
             THEN /\ arrived' = Append(arrived, FrameOf(bs))
                  /\ partial' = <<>> /\ prefix' = <<>> /\ rphase' = "length"
             ELSE /\ partial' = bs
                  /\ UNCHANGED <<arrived, prefix, rphase>>
  BY DEF ReadBody
<1>3. PICK bs : bs = partial \o poll_read(n)
  OBVIOUS
<1>4. PICK z : z = Size[Reading.id]
  OBVIOUS
<1>5. /\ n \in 1 .. Len(sock) /\ Need = z /\ Reading \in LinkFrame
      /\ Len(arrived) + 1 \in 1 .. Len(taken) /\ Len(prefix) = Len(LenOf(Reading))
      /\ off[Len(arrived) + 1] = off[Len(arrived)] + Len(LenOf(Reading)) + z
      /\ bs \in Seq(WireByte) /\ Len(bs) = Len(partial) + n /\ Len(bs) <= z
      /\ \A i \in 1 .. Len(bs) : bs[i] = [frame |-> Reading, at |-> i, v |-> 0]
  BY <1>1, <1>3, <1>4, BodyFacts
<1>6. z \in Nat /\ z # 0 /\ Len(LenOf(Reading)) \in Nat
  BY <1>4, <1>5, WireFacts
<1>7. /\ Len(arrived) \in Nat /\ Len(taken) \in Nat /\ Len(partial) \in Nat /\ Len(prefix) \in Nat
      /\ off[Len(arrived)] \in Nat /\ n \in Nat
      /\ ReadAt(off) = off[Len(arrived)] + Len(prefix) + Len(partial)
  BY <1>5, PlaceFacts DEF ReadAt
<1>8. wphase' = wphase
  BY <1>1 DEF wvars
<1>9. ASSUME ReadAt(off)' = ReadAt(off) + n, HeadInv', Len(arrived') <= Len(taken'),
             \A i \in 1 .. Len(arrived') : arrived'[i] = taken'[i],
             arrived' \in Seq(LinkFrame), partial' \in Seq(WireByte), prefix' \in Seq(Nat),
             rphase' \in {"length", "body", "dead"}
      PROVE  StreamInv(S, off)'
  <2>1. /\ sock' \in Seq(Cell) /\ SockEnd(off)' = SockEnd(off)
        /\ keystream' \in [Sides -> Nat] /\ keystream'["tx"] = keystream["tx"]
        /\ (\A i \in 1 .. Len(sock) : sock[i] = Coded(S[ReadAt(off) + i], ReadAt(off) + i))'
        /\ obfs' => keystream'["rx"] = ReadAt(off)'
    BY <1>1, <1>2, <1>5, <1>9, Consumed
  <2>2. StreamType'
    BY <1>1, <1>8, <1>9, <2>1 DEF StreamInv, StreamType
  <2>3. SockEnd(off)' <= Len(S)
    BY <2>1, PlaceFacts
  <2>4. ReadInv(S, off)'
    BY <1>9, <2>1, <2>3 DEF ReadInv
  <2>5. Layout(taken, off, S)'
    BY <1>1 DEF StreamInv
  <2>6. ~broken' => WriteInv(S, off)'
    <3>1. ~broken => WriteInv(S, off)
      BY DEF StreamInv
    <3> QED BY <1>1, <2>1, <3>1, WriteStays
  <2> QED BY <2>2, <2>4, <2>5, <2>6 DEF StreamInv
<1>10. /\ arrived \in Seq(LinkFrame) /\ taken \in Seq(LinkFrame) /\ prefix \in Seq(Nat)
       /\ \A i \in 1 .. Len(arrived) : arrived[i] = taken[i]
       /\ \A i \in 1 .. Len(prefix) : prefix[i] = LenOf(Reading)[i]
  BY <1>1, <1>5, <1>7 DEF StreamInv, StreamType, ReadInv, HeadInv
<1>11. CASE Len(bs) # z
  <2>1. partial' = bs /\ UNCHANGED <<arrived, prefix, rphase>>
    BY <1>2, <1>3, <1>5, <1>11
  <2>2. ReadAt(off)' = ReadAt(off) + n
    <3>1. ReadAt(off)' = off[Len(arrived)] + Len(prefix) + Len(bs)
      BY <2>1 DEF ReadAt
    <3>2. Len(bs) = Len(partial) + n
      BY <1>5
    <3> QED BY ONLY <1>7, <3>1, <3>2
  <2>3. Reading' = Reading
    BY <1>1, <2>1 DEF Reading
  <2>4. Len(arrived) < Len(taken) /\ Len(bs) < z
    <3>1. Len(bs) <= z /\ Len(bs) \in Nat
      BY <1>5
    <3>2. Len(arrived) + 1 <= Len(taken)
      BY <1>5
    <3> QED BY <1>6, <1>7, <1>11, <3>1, <3>2
  <2>5. HeadInv'
    BY <1>1, <1>4, <1>5, <1>10, <2>1, <2>3, <2>4 DEF HeadInv, LenOf
  <2> QED BY <1>1, <1>5, <1>7, <1>9, <1>10, <2>1, <2>2, <2>4, <2>5
<1>12. CASE Len(bs) = z
  <2>1. FrameOf(bs) = Reading
    BY <1>4, <1>5, <1>12, FrameOfBytes
  <2>2. arrived' = Append(arrived, Reading) /\ rphase' = "length"
        /\ partial' \in Seq(WireByte) /\ Len(partial') = 0
        /\ prefix' \in Seq(Nat) /\ Len(prefix') = 0
    <3>1. Len(bs) = Need
      BY <1>5, <1>12
    <3>2. arrived' = Append(arrived, FrameOf(bs)) /\ partial' = <<>> /\ prefix' = <<>>
          /\ rphase' = "length"
      BY <1>2, <1>3, <3>1
    <3> QED BY <2>1, <3>2
  <2>3. /\ arrived' \in Seq(LinkFrame) /\ Len(arrived') = Len(arrived) + 1
        /\ arrived'[Len(arrived) + 1] = Reading
        /\ \A i \in 1 .. Len(arrived) : arrived'[i] = arrived[i]
    BY <1>5, <1>10, <2>2
  <2>4. ReadAt(off)' = ReadAt(off) + n
    <3>1. ReadAt(off)' = off[Len(arrived) + 1] + 0 + 0
      BY <2>2, <2>3 DEF ReadAt
    <3>2. z = Len(partial) + n
      BY <1>5, <1>12
    <3> QED BY <1>5, <1>6, <1>7, <3>1, <3>2
  <2>5. Len(arrived') <= Len(taken')
    BY <1>1, <1>5, <1>7, <2>3
  <2>6. \A i \in 1 .. Len(arrived') : arrived'[i] = taken'[i]
    <3>1. \A i \in 1 .. Len(arrived') : i = Len(arrived) + 1 \/ i \in 1 .. Len(arrived)
      BY <1>7, <2>3
    <3> QED BY <1>1, <1>10, <2>3, <3>1 DEF Reading
  <2>7. HeadInv'
    <3>1. Len(arrived') < Len(taken') => 0 < Len(LenOf(Reading)')
      <4> SUFFICES ASSUME Len(arrived') < Len(taken') PROVE 0 < Len(LenOf(Reading)')
        OBVIOUS
      <4>1. Len(arrived') + 1 \in 1 .. Len(taken)
        BY <1>1, <1>7, <2>3
      <4>2. PICK g \in LinkFrame : g = Reading'
        BY <1>1, <1>10, <4>1 DEF Reading
      <4>3. Len(LenOf(g)) \in Nat \ {0}
        BY WireFacts
      <4> QED BY <4>2, <4>3 DEF LenOf
    <3>2. (\A i \in 1 .. Len(prefix') : FALSE) /\ (\A i \in 1 .. Len(partial') : FALSE)
      BY <2>2
    <3> QED BY <2>2, <3>1, <3>2 DEF HeadInv
  <2>8. StreamInv(S, off)'
    BY <1>9, <2>2, <2>3, <2>4, <2>5, <2>6, <2>7
  <2>9. Len(arrived) < Len(taken)
    BY <1>5, <1>7
  <2> QED BY <2>2, <2>8, <2>9 DEF Reading
<1> QED BY <1>11, <1>12


-----------------------------------------------------------------------------
(* The crypto worker and the callers of write_to.                          *)

\* Payloads with a task that has not numbered them yet.
Waiting(t) == IF hands[t] # Idle /\ hands[t].seq = 0 THEN 1 ELSE 0

\* A payload is in one place, so the numbers given out do not exceed the calls.
AppInv ==
    /\ submitted \in Nat /\ submitted <= Len(Size) /\ seqno \in Nat /\ pool \in Seq(Payloads)
    /\ hands \in [Tasks -> [id : Payloads \cup {0}, seq : Nat]]
    /\ \A t \in Tasks : hands[t] # Idle => hands[t].id \in Payloads /\ hands[t].seq <= seqno
    /\ seqno + Len(pool) + Waiting("caller") + Waiting("worker") <= submitted

LEMMA WaitingFacts ==
    ASSUME NEW t PROVE Waiting(t) \in Nat
BY DEF Waiting

LEMMA TaskSet == Tasks = {"caller", "worker"} /\ "caller" # "worker"
BY DEF Tasks

LEMMA InitAppInv == LinkInit => AppInv
<1> SUFFICES ASSUME LinkInit PROVE AppInv
  OBVIOUS
<1>1. submitted = 0 /\ seqno = 0 /\ pool = <<>> /\ hands = [t \in Tasks |-> Idle]
  BY DEF LinkInit
<1>2. \A t \in Tasks : hands[t] = Idle /\ Waiting(t) = 0
  BY <1>1 DEF Waiting
<1>3. hands \in [Tasks -> [id : Payloads \cup {0}, seq : Nat]]
  BY <1>1 DEF Idle
<1>4. Waiting("caller") = 0 /\ Waiting("worker") = 0
  BY <1>2, TaskSet
<1>5. Len(Size) \in Nat
  BY LinkAssumption
<1> QED BY <1>1, <1>2, <1>3, <1>4, <1>5 DEF AppInv

\* write_to hands a payload over.
LEMMA WriteToApp ==
    ASSUME AppInv, WriteTo PROVE AppInv'
<1>1. /\ submitted \in Nat /\ Len(Size) \in Nat /\ submitted + 1 <= Len(Size) /\ seqno \in Nat
      /\ pool \in Seq(Payloads) /\ hands["caller"] = Idle /\ submitted' = submitted + 1
      /\ seqno' = seqno /\ submitted + 1 \in Payloads
      /\ hands \in [Tasks -> [id : Payloads \cup {0}, seq : Nat]]
  <2>1. /\ submitted \in Nat /\ seqno \in Nat /\ pool \in Seq(Payloads)
        /\ hands \in [Tasks -> [id : Payloads \cup {0}, seq : Nat]]
    BY Zenon DEF AppInv
  <2>2. submitted < Len(Size) /\ hands["caller"] = Idle /\ submitted' = submitted + 1 /\ seqno' = seqno
    BY Zenon DEF WriteTo
  <2>3. Len(Size) \in Nat /\ Payloads = 1 .. Len(Size)
    BY LinkAssumption DEF Payloads
  <2>4. submitted + 1 <= Len(Size) /\ submitted + 1 \in 1 .. Len(Size)
    BY ONLY <2>1, <2>2, <2>3
  <2> QED BY <2>1, <2>2, <2>3, <2>4, Zenon
<1>2. /\ seqno + Len(pool) + Waiting("caller") + Waiting("worker") <= submitted
      /\ Waiting("caller") = 0 /\ Waiting("worker") \in Nat /\ Len(pool) \in Nat
  BY <1>1, WaitingFacts DEF AppInv, Waiting
<1>3. CASE try_submit
  <2>1. pool' = Append(pool, submitted + 1) /\ hands' = hands
    BY <1>3 DEF WriteTo
  <2>2. pool' \in Seq(Payloads) /\ Len(pool') = Len(pool) + 1
    BY <1>1, <2>1
  <2>3. Waiting("caller")' = Waiting("caller") /\ Waiting("worker")' = Waiting("worker")
    BY <2>1 DEF Waiting
  <2>4. (seqno + Len(pool) + Waiting("caller") + Waiting("worker") <= submitted)'
    BY <1>1, <1>2, <2>2, <2>3
  <2> QED BY <1>1, <2>1, <2>2, <2>4 DEF AppInv
<1>4. CASE ~try_submit
  <2> DEFINE job == [id |-> submitted + 1, seq |-> 0]
  <2>1. pool' = pool /\ hands' = [hands EXCEPT !["caller"] = job]
    BY <1>4 DEF WriteTo
  <2>2. job \in [id : Payloads \cup {0}, seq : Nat] /\ job.id \in Payloads /\ job.seq = 0
    BY <1>1
  <2> HIDE DEF job
  <2>3. hands' \in [Tasks -> [id : Payloads \cup {0}, seq : Nat]] /\ hands'["caller"] = job
        /\ hands'["worker"] = hands["worker"]
    BY <1>1, <2>1, <2>2, TaskSet
  <2>4. Waiting("caller")' \in Nat /\ Waiting("caller")' <= 1 /\ Waiting("worker")' = Waiting("worker")
    BY <2>3 DEF Waiting
  <2>5. \A t \in Tasks : hands'[t] # Idle => hands'[t].id \in Payloads /\ hands'[t].seq <= seqno'
    BY <1>1, <2>2, <2>3, TaskSet DEF AppInv
  <2>6. (seqno + Len(pool) + Waiting("caller") + Waiting("worker") <= submitted)'
    <3>1. seqno + Len(pool) + Waiting("caller")' + Waiting("worker") <= submitted + 1
      BY <1>1, <1>2, <2>4
    <3> QED BY <1>1, <2>1, <2>4, <3>1
  <2> QED BY <1>1, <2>1, <2>3, <2>5, <2>6 DEF AppInv
<1> QED BY <1>3, <1>4

\* crypto_worker takes a job.
LEMMA WorkerTakesApp ==
    ASSUME AppInv, WorkerTakes PROVE AppInv'
<1> DEFINE job == [id |-> Head(pool), seq |-> 0]
<1>1. /\ submitted \in Nat /\ submitted <= Len(Size) /\ seqno \in Nat /\ pool \in Seq(Payloads)
      /\ pool # <<>> /\ hands["worker"] = Idle /\ UNCHANGED <<submitted, seqno>>
      /\ pool' = Tail(pool) /\ hands' = [hands EXCEPT !["worker"] = job]
      /\ hands \in [Tasks -> [id : Payloads \cup {0}, seq : Nat]]
  BY DEF AppInv, WorkerTakes
<1>2. pool' \in Seq(Payloads) /\ Len(pool') + 1 = Len(pool) /\ Len(pool') \in Nat /\ Head(pool) \in Payloads
  BY <1>1
<1>3. job \in [id : Payloads \cup {0}, seq : Nat] /\ job.id \in Payloads /\ job.seq = 0
  BY <1>2
<1> HIDE DEF job
<1>4. hands' \in [Tasks -> [id : Payloads \cup {0}, seq : Nat]] /\ hands'["worker"] = job
      /\ hands'["caller"] = hands["caller"]
  BY <1>1, <1>3, TaskSet
<1>5. /\ seqno + Len(pool) + Waiting("caller") + Waiting("worker") <= submitted
      /\ Waiting("worker") = 0 /\ Waiting("caller") \in Nat
  BY <1>1, WaitingFacts DEF AppInv, Waiting
<1>6. Waiting("worker")' \in Nat /\ Waiting("worker")' <= 1 /\ Waiting("caller")' = Waiting("caller")
  BY <1>4 DEF Waiting
<1>7. (seqno + Len(pool) + Waiting("caller") + Waiting("worker") <= submitted)'
  <2>1. seqno + Len(pool') + Waiting("caller") + Waiting("worker")' <= submitted
    BY <1>1, <1>2, <1>5, <1>6
  <2> QED BY <1>1, <1>6, <2>1
<1>8. \A t \in Tasks : hands'[t] # Idle => hands'[t].id \in Payloads /\ hands'[t].seq <= seqno'
  BY <1>1, <1>3, <1>4, TaskSet DEF AppInv
<1> QED BY <1>1, <1>2, <1>4, <1>7, <1>8 DEF AppInv


\* Encryption numbers the packet in hand.
LEMMA EncryptApp ==
    ASSUME AppInv, NEW t \in Tasks, Encrypt(t) PROVE AppInv'
<1> DEFINE job == [id |-> hands[t].id, seq |-> seqno + 1]
           o == IF t = "caller" THEN "worker" ELSE "caller"
<1>1. /\ submitted \in Nat /\ submitted <= Len(Size) /\ seqno \in Nat /\ pool \in Seq(Payloads)
      /\ hands[t] # Idle /\ hands[t].seq = 0 /\ UNCHANGED <<submitted, pool>>
      /\ seqno' = seqno + 1 /\ hands' = [hands EXCEPT ![t] = job]
      /\ hands \in [Tasks -> [id : Payloads \cup {0}, seq : Nat]] /\ hands[t].id \in Payloads
  BY DEF AppInv, Encrypt
<1>2. job \in [id : Payloads \cup {0}, seq : Nat] /\ job.id \in Payloads /\ job.seq = seqno + 1
  BY <1>1
<1>3. o \in Tasks /\ o # t /\ Tasks = {t, o}
      /\ ((t = "caller" /\ o = "worker") \/ (t = "worker" /\ o = "caller"))
  <2>1. t = "caller" \/ t = "worker"
    BY TaskSet
  <2>2. (t = "caller" /\ o = "worker") \/ (t = "worker" /\ o = "caller")
    BY <2>1, TaskSet
  <2> HIDE DEF o
  <2> QED BY <2>2, TaskSet
<1> HIDE DEF job, o
<1>4. hands' \in [Tasks -> [id : Payloads \cup {0}, seq : Nat]] /\ hands'[t] = job
      /\ hands'[o] = hands[o]
  BY <1>1, <1>2, <1>3
<1>5. /\ seqno + Len(pool) + Waiting(t) + Waiting(o) <= submitted
      /\ Waiting(t) = 1 /\ Waiting(o) \in Nat /\ Len(pool) \in Nat
  <2>1. Waiting(t) = 1 /\ Waiting(o) \in Nat /\ Len(pool) \in Nat
    BY <1>1, WaitingFacts DEF Waiting
  <2>2. seqno + Len(pool) + Waiting("caller") + Waiting("worker") <= submitted
    BY DEF AppInv
  <2> QED BY <1>1, <1>3, <2>1, <2>2
<1>6. Waiting(t)' = 0 /\ Waiting(o)' = Waiting(o)
  <2>1. job.seq # 0
    BY <1>1, <1>2
  <2> QED BY <1>4, <2>1 DEF Waiting
<1>7. (seqno + Len(pool) + Waiting("caller") + Waiting("worker") <= submitted)'
  <2>1. (seqno + 1) + Len(pool) + 0 + Waiting(o) <= submitted
    BY <1>1, <1>5
  <2>2. (seqno + 1) + Len(pool) + Waiting(o) + 0 <= submitted
    BY <1>1, <1>5
  <2> QED BY <1>1, <1>3, <1>6, <2>1, <2>2
<1>8. ASSUME NEW k \in Tasks, hands'[k] # Idle
      PROVE  hands'[k].id \in Payloads /\ hands'[k].seq <= seqno'
  <2>1. CASE k = t
    BY <1>1, <1>2, <1>4, <2>1
  <2>2. CASE k = o
    <3>1. hands[o].id \in Payloads /\ hands[o].seq <= seqno /\ hands[o].seq \in Nat
      BY <1>1, <1>3, <1>4, <1>8, <2>2 DEF AppInv
    <3> QED BY <1>1, <1>4, <2>2, <3>1
  <2> QED BY <1>3, <2>1, <2>2
<1> QED BY <1>1, <1>4, <1>7, <1>8 DEF AppInv

\* A packet that is sent has a payload and a number of its own.
LEMMA SentIsFrame ==
    ASSUME AppInv, NEW t \in Tasks, hands[t].seq > 0
    PROVE  hands[t] \in LinkFrame
<1>1. hands[t] \in [id : Payloads \cup {0}, seq : Nat] /\ hands[t].seq \in Nat
  BY DEF AppInv
<1>2. hands[t] # Idle
  BY <1>1 DEF Idle
<1>3. hands[t].id \in Payloads /\ hands[t].seq <= seqno
  BY <1>2 DEF AppInv
<1>4. seqno <= Len(Size) /\ seqno \in Nat /\ Len(Size) \in Nat
  BY LinkAssumption, WaitingFacts DEF AppInv
<1>5. hands[t].seq \in 1 .. Len(Size)
  BY <1>1, <1>3, <1>4
<1>6. hands[t] = [id |-> hands[t].id, seq |-> hands[t].seq]
  BY <1>1
<1> QED BY <1>3, <1>5, <1>6 DEF LinkFrame

LEMMA DispatchApp ==
    ASSUME AppInv, NEW t \in Tasks, Dispatch(t) PROVE AppInv'
<1> DEFINE o == IF t = "caller" THEN "worker" ELSE "caller"
<1>1. /\ submitted \in Nat /\ submitted <= Len(Size) /\ seqno \in Nat /\ pool \in Seq(Payloads)
      /\ UNCHANGED <<submitted, pool, seqno>> /\ hands' = [hands EXCEPT ![t] = Idle]
      /\ hands \in [Tasks -> [id : Payloads \cup {0}, seq : Nat]]
  BY DEF AppInv, Dispatch
<1>2. o \in Tasks /\ o # t /\ Tasks = {t, o}
      /\ ((t = "caller" /\ o = "worker") \/ (t = "worker" /\ o = "caller"))
  <2>1. t = "caller" \/ t = "worker"
    BY TaskSet
  <2>2. (t = "caller" /\ o = "worker") \/ (t = "worker" /\ o = "caller")
    BY <2>1, TaskSet
  <2> HIDE DEF o
  <2> QED BY <2>2, TaskSet
<1> HIDE DEF o
<1>3. Idle \in [id : Payloads \cup {0}, seq : Nat]
  BY DEF Idle
<1>4. hands' \in [Tasks -> [id : Payloads \cup {0}, seq : Nat]] /\ hands'[t] = Idle
      /\ hands'[o] = hands[o]
  BY <1>1, <1>2, <1>3
<1>5. Waiting(t)' = 0 /\ Waiting(o)' = Waiting(o) /\ Waiting(o) \in Nat /\ Waiting(t) \in Nat
  BY <1>4, WaitingFacts DEF Waiting
<1>6. (seqno + Len(pool) + Waiting("caller") + Waiting("worker") <= submitted)'
  <2>1. seqno + Len(pool) + Waiting("caller") + Waiting("worker") <= submitted /\ Len(pool) \in Nat
    BY DEF AppInv
  <2>2. seqno + Len(pool) + 0 + Waiting(o) <= submitted /\ seqno + Len(pool) + Waiting(o) + 0 <= submitted
    BY <1>1, <1>2, <1>5, <2>1
  <2> QED BY <1>1, <1>2, <1>5, <2>2
<1>7. \A k \in Tasks : hands'[k] # Idle => hands'[k].id \in Payloads /\ hands'[k].seq <= seqno'
  BY <1>1, <1>2, <1>4 DEF AppInv
<1> QED BY <1>1, <1>4, <1>6, <1>7 DEF AppInv

\* A frame goes into the channel, or is lost when that is full or closed.
LEMMA DispatchStream ==
    ASSUME AppInv, NEW S, NEW off, StreamInv(S, off), NEW t \in Tasks, Dispatch(t)
    PROVE  /\ \E S2, off2 : StreamInv(S2, off2)'
           /\ UNCHANGED arrived
           /\ taken' = taken \/ \E f \in LinkFrame : taken' = Append(taken, f)
<1>1. /\ UNCHANGED <<wvars, sock, keystream, rvars, obfs, broken>>
      /\ UNCHANGED <<wphase, outbuf, pending, prefix, partial, rphase, arrived>>
      /\ hands[t].seq > 0 /\ send_to_peer(hands[t])
  BY DEF Dispatch, rvars, wvars, link
<1>2. CASE ~(Len(chan) < ChanCap /\ wphase # "dead")
  <2>1. UNCHANGED <<chan, taken>>
    BY <1>1, <1>2 DEF send_to_peer
  <2>2. StreamInv(S, off)'
    BY <1>1, <2>1, StreamStays
  <2> QED BY <1>1, <2>1, <2>2
<1>3. CASE Len(chan) < ChanCap /\ wphase # "dead"
  <2>1. PICK f \in LinkFrame : chan' = Append(chan, f) /\ taken' = Append(taken, f)
    BY <1>1, <1>3, SentIsFrame DEF send_to_peer
  <2> DEFINE n == Len(taken)
             g == [k \in 0 .. n + 1 |-> IF k = n + 1 THEN Len(S) + Len(Wire(f)) ELSE off[k]]
  <2>2. PICK T, h : T = S \o Wire(f) /\ h = g
    OBVIOUS
  <2>3. Layout(taken, off, S)
    BY DEF StreamInv
  <2>4. Layout(taken', h, T)
    BY <2>1, <2>2, <2>3, LayoutGrows
  <2>5. /\ n \in Nat /\ off \in [0 .. n -> Nat] /\ Len(S) \in Nat /\ S \in Seq(WireByte)
        /\ taken \in Seq(LinkFrame) /\ chan \in Seq(LinkFrame) /\ Len(chan) \in Nat
        /\ Wire(f) \in Seq(WireByte) /\ Len(Wire(f)) \in Nat
    BY <2>3, PlaceFacts, WireFacts DEF Layout, StreamInv, StreamType
  <2>6. /\ Len(taken') = n + 1 /\ taken'[n + 1] = f /\ taken' \in Seq(LinkFrame)
        /\ \A i \in 1 .. n : taken'[i] = taken[i]
    BY <2>1, <2>5
  <2>7. /\ Len(chan') = Len(chan) + 1 /\ chan'[Len(chan) + 1] = f /\ chan' \in Seq(LinkFrame)
        /\ \A i \in 1 .. Len(chan) : chan'[i] = chan[i]
    BY <2>1, <2>5
  <2>8. Len(T) = Len(S) + Len(Wire(f)) /\ \A i \in 1 .. Len(S) : T[i] = S[i]
    BY <2>2, <2>5
  <2>9. \A k \in 0 .. n : h[k] = off[k]
    BY <2>2, <2>5
  <2> HIDE DEF n, g
  <2>10. Len(arrived) \in 0 .. n /\ ReadAt(h)' = ReadAt(off) /\ SockEnd(h)' = SockEnd(off)
    <3>1. Len(arrived) \in 0 .. n
      BY <2>5, PlaceFacts DEF n
    <3>2. h[Len(arrived)] = off[Len(arrived)]
      BY <2>9, <3>1
    <3> QED BY <1>1, <3>1, <3>2 DEF ReadAt, SockEnd
  <2>11. /\ ReadAt(off) \in Nat /\ SockEnd(off) \in Nat /\ SockEnd(off) <= Len(S)
         /\ Len(arrived) <= n /\ Len(arrived) \in Nat /\ Len(sock) \in Nat
         /\ SockEnd(off) = ReadAt(off) + Len(sock)
    BY PlaceFacts DEF n, SockEnd
  <2>12. StreamType'
    BY <1>1, <2>6, <2>7 DEF StreamInv, StreamType
  <2>13. \A b, p : Coded(b, p)' = Coded(b, p)
    BY <1>1 DEF Coded
  <2>14. ReadInv(T, h)'
    <3>1. HeadInv'
      <4>1. CASE Len(arrived) < n
        <5>1. Reading' = Reading /\ Len(arrived) + 1 \in 1 .. n
          BY <1>1, <2>5, <2>6, <2>11, <4>1 DEF Reading
        <5>2. Len(arrived') < Len(taken') /\ Len(arrived') # Len(taken')
          BY <1>1, <2>5, <2>6, <2>11, <4>1
        <5> QED BY <1>1, <4>1, <5>1, <5>2 DEF StreamInv, ReadInv, HeadInv, LenOf, n
      <4>2. CASE ~(Len(arrived) < n)
        <5>1. Len(arrived) = n
          BY <2>5, <2>11, <4>2
        <5>2. rphase # "body" /\ (rphase = "length" => Len(partial) = 0 /\ Len(prefix) = 0)
          BY <2>5, <5>1 DEF StreamInv, ReadInv, HeadInv, n
        <5>3. PICK e : e = LenOf(Reading)' /\ Len(e) \in Nat /\ Len(e) # 0
          <6>1. Reading' = f
            BY <1>1, <2>6, <5>1 DEF Reading
          <6> QED BY <6>1, WireFacts DEF LenOf
        <5>4. Len(arrived') # Len(taken')
          BY <1>1, <2>5, <2>6, <5>1
        <5>5. 0 < Len(e)
          BY <5>3
        <5>6. rphase # "dead" => (\A i \in 1 .. Len(prefix) : FALSE) /\ (\A i \in 1 .. Len(partial) : FALSE)
          <6>1. rphase \in {"length", "body", "dead"}
            BY DEF StreamInv, StreamType
          <6> QED BY <5>2, <6>1
        <5> QED BY <1>1, <5>2, <5>3, <5>4, <5>5, <5>6 DEF HeadInv
      <4> QED BY <4>1, <4>2
    <3>2. SockEnd(h)' <= Len(T)
      BY <2>5, <2>8, <2>10, <2>11
    <3>3. (\A i \in 1 .. Len(sock) : sock[i] = Coded(T[ReadAt(h) + i], ReadAt(h) + i))'
      <4> SUFFICES ASSUME NEW i \in 1 .. Len(sock)
                   PROVE  sock[i] = Coded(T[ReadAt(off) + i], ReadAt(off) + i)
        BY <1>1, <2>10, <2>13
      <4>1. ReadAt(off) + i \in 1 .. Len(S)
        BY <2>5, <2>11
      <4> QED BY <2>8, <4>1 DEF StreamInv, ReadInv
    <3>4. Len(arrived') <= Len(taken') /\ \A i \in 1 .. Len(arrived') : arrived'[i] = taken'[i]
      <4>1. \A i \in 1 .. Len(arrived) : i \in 1 .. n
        BY <2>5, <2>11
      <4> QED BY <1>1, <2>5, <2>6, <2>11, <4>1 DEF StreamInv, ReadInv
    <3>5. obfs' => keystream'["rx"] = ReadAt(h)'
      BY <1>1, <2>10 DEF StreamInv, ReadInv
    <3> QED BY <3>1, <3>2, <3>3, <3>4, <3>5 DEF ReadInv
  <2>15. ASSUME ~broken PROVE WriteInv(T, h)'
    <3>1. WriteInv(S, off)
      BY <2>15 DEF StreamInv
    <3>2. /\ Len(outbuf) \in Nat /\ Len(pending) \in Nat /\ n - Len(chan) \in 0 .. n
          /\ SockEnd(off) + Len(pending) + Len(outbuf) <= Len(S)
      BY <3>1, WriteEnd DEF n
    <3>3. Len(taken') - Len(chan') = n - Len(chan) /\ Len(chan') <= Len(taken')
      <4>1. Len(taken') = n + 1 /\ Len(chan') = Len(chan) + 1
        BY <2>6, <2>7
      <4>2. n \in Nat /\ Len(chan) \in Nat /\ n - Len(chan) \in 0 .. n
        BY <2>5, <3>2
      <4> QED BY ONLY <4>1, <4>2
    <3>4. (SockEnd(h) + Len(pending) + Len(outbuf) = h[Len(taken) - Len(chan)])'
      <4>1. h[n - Len(chan)] = off[n - Len(chan)]
        BY <2>9, <3>2
      <4>2. SockEnd(off) + Len(pending) + Len(outbuf) = off[n - Len(chan)]
        BY <3>1 DEF WriteInv, n
      <4> QED BY <1>1, <2>10, <3>3, <4>1, <4>2
    <3>5. (\A i \in 1 .. Len(chan) : chan[i] = taken[(Len(taken) - Len(chan)) + i])'
      <4> SUFFICES ASSUME NEW i \in 1 .. Len(chan) + 1
                   PROVE  chan'[i] = taken'[(n - Len(chan)) + i]
        BY <2>7, <3>3
      <4>1. CASE i = Len(chan) + 1
        <5>1. (n - Len(chan)) + i = n + 1
          BY <2>5, <4>1
        <5> QED BY <2>6, <2>7, <4>1, <5>1
      <4>2. CASE i # Len(chan) + 1
        <5>1. i \in 1 .. Len(chan) /\ (n - Len(chan)) + i \in 1 .. n
          BY <2>5, <3>2, <4>2
        <5> QED BY <2>6, <2>7, <3>1, <5>1 DEF WriteInv, n
      <4> QED BY <4>1, <4>2
    <3>6. (\A i \in 1 .. Len(pending) : pending[i] = Coded(T[SockEnd(h) + i], SockEnd(h) + i))'
      <4> SUFFICES ASSUME NEW i \in 1 .. Len(pending)
                   PROVE  pending[i] = Coded(T[SockEnd(off) + i], SockEnd(off) + i)
        BY <1>1, <2>10, <2>13
      <4>1. SockEnd(off) + i \in 1 .. Len(S)
        <5>1. SockEnd(off) \in Nat /\ Len(S) \in Nat
          BY <2>5, <2>11
        <5> QED BY ONLY <3>2, <5>1, i \in 1 .. Len(pending)
      <4> QED BY <2>8, <3>1, <4>1 DEF WriteInv
    <3>7. (\A i \in 1 .. Len(outbuf) : outbuf[i] = T[(SockEnd(h) + Len(pending)) + i])'
      <4> SUFFICES ASSUME NEW i \in 1 .. Len(outbuf)
                   PROVE  outbuf[i] = T[(SockEnd(off) + Len(pending)) + i]
        BY <1>1, <2>10
      <4>1. (SockEnd(off) + Len(pending)) + i \in 1 .. Len(S)
        <5>1. SockEnd(off) \in Nat /\ Len(S) \in Nat
          BY <2>5, <2>11
        <5> QED BY ONLY <3>2, <5>1, i \in 1 .. Len(outbuf)
      <4> QED BY <2>8, <3>1, <4>1 DEF WriteInv
    <3> QED BY <1>1, <2>10, <3>1, <3>3, <3>4, <3>5, <3>6, <3>7 DEF WriteInv
  <2>16. StreamInv(T, h)'
    BY <1>1, <2>4, <2>12, <2>14, <2>15 DEF StreamInv
  <2> QED BY <1>1, <2>1, <2>16
<1> QED BY <1>2, <1>3


-----------------------------------------------------------------------------
(* The link implements FifoLink.                                           *)

LinkInv == AppInv /\ \E S, off : StreamInv(S, off)

LEMMA InitLinkInv == LinkInit => LinkInv
<1> SUFFICES ASSUME LinkInit PROVE LinkInv
  OBVIOUS
<1>1. /\ chan = <<>> /\ taken = <<>> /\ wphase = "recv" /\ outbuf = <<>> /\ pending = <<>>
      /\ sock = <<>> /\ keystream = [s \in Sides |-> 0] /\ obfs \in BOOLEAN
      /\ prefix = <<>> /\ partial = <<>> /\ rphase = "length" /\ arrived = <<>> /\ broken = FALSE
  BY DEF LinkInit
<1>2. PICK S, off : S = <<>> /\ off = [k \in 0 .. 0 |-> 0]
  OBVIOUS
<1>3. /\ Len(chan) = 0 /\ Len(taken) = 0 /\ Len(outbuf) = 0 /\ Len(pending) = 0 /\ Len(sock) = 0
      /\ Len(prefix) = 0 /\ Len(partial) = 0 /\ Len(arrived) = 0 /\ Len(S) = 0 /\ off[0] = 0
      /\ keystream["tx"] = 0 /\ keystream["rx"] = 0
  BY <1>1, <1>2 DEF Sides
<1>4. StreamType
  <2>1. /\ chan \in Seq(LinkFrame) /\ taken \in Seq(LinkFrame) /\ arrived \in Seq(LinkFrame)
        /\ partial \in Seq(WireByte) /\ prefix \in Seq(Nat) /\ sock \in Seq(Cell)
    BY <1>1
  <2>2. keystream \in [Sides -> Nat] /\ obfs \in BOOLEAN /\ broken \in BOOLEAN
    BY <1>1
  <2> QED BY <1>1, <2>1, <2>2 DEF StreamType
<1>5. Layout(taken, off, S)
  <2>1. taken \in Seq(LinkFrame) /\ S \in Seq(WireByte)
    BY <1>1, <1>2
  <2>2. off \in [0 .. Len(taken) -> Nat] /\ \A j, k \in 0 .. Len(taken) : j <= k => off[j] <= off[k]
    BY <1>2, <1>3
  <2>3. \A k \in 1 .. Len(taken) : FALSE
    BY <1>3
  <2> QED BY <1>3, <2>1, <2>2, <2>3 DEF Layout
<1>6. ReadAt(off) = 0 /\ SockEnd(off) = 0
  BY <1>3 DEF ReadAt, SockEnd
<1>7. (\A i \in 1 .. Len(arrived) : FALSE) /\ (\A i \in 1 .. Len(sock) : FALSE)
      /\ (\A i \in 1 .. Len(pending) : FALSE) /\ (\A i \in 1 .. Len(outbuf) : FALSE)
      /\ (\A i \in 1 .. Len(chan) : FALSE)
  BY <1>3
<1>8. HeadInv
  BY <1>1, <1>3 DEF HeadInv
<1>9. ReadInv(S, off)
  BY <1>3, <1>6, <1>7, <1>8 DEF ReadInv
<1>10. WriteInv(S, off)
  <2>1. outbuf \in Seq(WireByte) /\ pending \in Seq(Cell)
    BY <1>1
  <2> QED BY <1>1, <1>3, <1>6, <1>7, <2>1 DEF WriteInv
<1> QED BY <1>4, <1>5, <1>9, <1>10, InitAppInv DEF LinkInv, StreamInv

LEMMA AppStays ==
    ASSUME AppInv, UNCHANGED app PROVE AppInv'
<1>1. UNCHANGED <<submitted, pool, hands, seqno>>
  BY DEF app
<1>2. Waiting("caller")' = Waiting("caller") /\ Waiting("worker")' = Waiting("worker")
  BY <1>1 DEF Waiting
<1> QED BY <1>1, <1>2 DEF AppInv

\* The reader ends.
LEMMA ReaderFailsStep ==
    ASSUME NEW S, NEW off, StreamInv(S, off), ReaderFails
    PROVE  StreamInv(S, off)'
<1>1. UNCHANGED <<chan, taken, wvars, sock, keystream, prefix, partial, arrived, obfs, broken>>
      /\ UNCHANGED <<wphase, outbuf, pending>> /\ rphase' = "dead" /\ broken
  BY DEF ReaderFails, link, wvars
<1>2. StreamType'
  BY <1>1 DEF StreamInv, StreamType
<1>3. ReadAt(off)' = ReadAt(off) /\ SockEnd(off)' = SockEnd(off)
  BY <1>1 DEF ReadAt, SockEnd
<1>4. \A b, p : Coded(b, p)' = Coded(b, p)
  BY <1>1 DEF Coded
<1>5. HeadInv'
  BY <1>1 DEF HeadInv
<1>6. ReadInv(S, off)'
  BY <1>1, <1>3, <1>4, <1>5 DEF StreamInv, ReadInv
<1>7. Layout(taken, off, S)'
  BY <1>1 DEF StreamInv
<1> QED BY <1>1, <1>2, <1>6, <1>7 DEF StreamInv

\* One step: the invariant is kept, and to FifoLink it is a Take, an Arrive or nothing.
LEMMA LinkStep ==
    ASSUME LinkInv, [LinkNext]_link_vars
    PROVE  LinkInv' /\ [Fifo!Next]_<<taken, arrived>>
<1>1. PICK S, off : StreamInv(S, off)
  BY DEF LinkInv
<1>2. AppInv
  BY DEF LinkInv
<1>3. CASE WriteTo
  <2>1. AppInv'
    BY <1>2, <1>3, WriteToApp
  <2>2. UNCHANGED <<chan, taken, wvars, sock, keystream, rvars, obfs, broken>> /\ arrived' = arrived
    BY <1>3 DEF WriteTo, link, rvars
  <2>3. StreamInv(S, off)'
    BY <1>1, <2>2, StreamStays
  <2> QED BY <2>1, <2>2, <2>3 DEF LinkInv
<1>4. CASE WorkerTakes
  <2>1. AppInv'
    BY <1>2, <1>4, WorkerTakesApp
  <2>2. UNCHANGED <<chan, taken, wvars, sock, keystream, rvars, obfs, broken>> /\ arrived' = arrived
    BY <1>4 DEF WorkerTakes, link, rvars
  <2>3. StreamInv(S, off)'
    BY <1>1, <2>2, StreamStays
  <2> QED BY <2>1, <2>2, <2>3 DEF LinkInv
<1>5. ASSUME NEW t \in Tasks, Encrypt(t) PROVE LinkInv' /\ [Fifo!Next]_<<taken, arrived>>
  <2>1. AppInv'
    BY <1>2, <1>5, EncryptApp
  <2>2. UNCHANGED <<chan, taken, wvars, sock, keystream, rvars, obfs, broken>> /\ arrived' = arrived
    BY <1>5 DEF Encrypt, link, rvars
  <2>3. StreamInv(S, off)'
    BY <1>1, <2>2, StreamStays
  <2> QED BY <2>1, <2>2, <2>3 DEF LinkInv
<1>6. ASSUME NEW t \in Tasks, Dispatch(t) PROVE LinkInv' /\ [Fifo!Next]_<<taken, arrived>>
  <2>1. AppInv'
    BY <1>2, <1>6, DispatchApp
  <2>2. /\ \E S2, off2 : StreamInv(S2, off2)'
        /\ UNCHANGED arrived
        /\ taken' = taken \/ \E f \in LinkFrame : taken' = Append(taken, f)
    BY <1>1, <1>2, <1>6, DispatchStream
  <2>3. [Fifo!Next]_<<taken, arrived>>
    BY <2>2 DEF Fifo!Next, Fifo!Take
  <2> QED BY <2>1, <2>2, <2>3 DEF LinkInv
<1>7. ASSUME UNCHANGED <<app, taken, arrived>>, StreamInv(S, off)'
      PROVE  LinkInv' /\ [Fifo!Next]_<<taken, arrived>>
  BY <1>2, <1>7, AppStays DEF LinkInv
<1>8. CASE Writer
  <2>1. UNCHANGED <<app, taken, arrived>>
    BY <1>8 DEF Writer, TakeBatch, WritePlain, drain, WriteObfs, Flush, WriterFails, rvars
  <2>2. StreamInv(S, off)'
    BY <1>1, <1>8, TakeBatchStep, WritePlainStep, DrainStep, WriteObfsStep, FlushStep DEF Writer
  <2> QED BY <1>7, <2>1, <2>2
<1>9. CASE ReadLength \/ ReaderFails
  <2>1. UNCHANGED <<app, taken, arrived>>
    BY <1>9 DEF ReadLength, ReaderFails
  <2>2. StreamInv(S, off)'
    BY <1>1, <1>9, ReadLengthStep, ReaderFailsStep
  <2> QED BY <1>7, <2>1, <2>2
<1>10. CASE ReadBody
  <2>1. UNCHANGED <<app, taken>>
    BY <1>10 DEF ReadBody
  <2>2. AppInv'
    BY <1>2, <2>1, AppStays
  <2>3. /\ StreamInv(S, off)'
        /\ \/ UNCHANGED arrived
           \/ Len(arrived) < Len(taken) /\ arrived' = Append(arrived, taken[Len(arrived) + 1])
    BY <1>1, <1>10, ReadBodyStep
  <2>4. [Fifo!Next]_<<taken, arrived>>
    BY <2>1, <2>3 DEF Fifo!Next, Fifo!Arrive
  <2> QED BY <2>2, <2>3, <2>4 DEF LinkInv
<1>11. CASE Shake
  <2>1. UNCHANGED <<app, chan, taken, wvars, sock, keystream, rvars, obfs, broken>> /\ arrived' = arrived
    BY <1>11 DEF Shake, WriteNonce, ReadNonce, rvars
  <2>2. StreamInv(S, off)'
    BY <1>1, <2>1, StreamStays
  <2> QED BY <1>7, <2>1, <2>2
<1>12. CASE Break
  <2>1. UNCHANGED <<app, taken, arrived>>
    BY <1>12 DEF Break, rvars
  <2> QED BY <1>1, <1>7, <1>12, <2>1, BreakStep
<1>13. CASE UNCHANGED link_vars
  <2>1. UNCHANGED <<app, chan, taken, wvars, sock, keystream, rvars, obfs, broken>> /\ arrived' = arrived
    BY <1>13 DEF link_vars, link, rvars
  <2>2. StreamInv(S, off)'
    BY <1>1, <2>1, StreamStays
  <2> QED BY <1>7, <2>1, <2>2
<1> QED BY <1>3, <1>4, <1>5, <1>6, <1>8, <1>9, <1>10, <1>11, <1>12, <1>13
        DEF LinkNext, Crypto, Reader

LEMMA LinkInvHolds == LinkSpec => []LinkInv
BY InitLinkInv, LinkStep, PTL DEF LinkSpec

\* The frames a link takes arrive whole, in order and without a gap, whatever batches,
\* partial writes, backpressure and reads in pieces the two ends make of them, on a plain
\* and on an obfuscated link; a failed connection only cuts the tail off
\* (write_frames_batched, CipherWriter, CipherReader, read_frame).
THEOREM LinkImplementsFifo == LinkSpec => ImplementsFifo
<1>1. LinkInit => Fifo!Init
  BY DEF LinkInit, Fifo!Init
<1>2. LinkInv /\ [LinkNext]_link_vars => [Fifo!Next]_<<taken, arrived>>
  BY LinkStep
<1> QED BY <1>1, <1>2, LinkInvHolds, PTL DEF LinkSpec, ImplementsFifo, Fifo!Spec


-----------------------------------------------------------------------------
(* The order of the payloads.                                              *)

\* As long as nothing was encrypted inline, the payloads lie behind each other in the
\* order of their calls: frames taken, the worker's hand, its queue.
OrderInv ==
    LET w == hands["worker"] IN
    /\ hands["caller"] = Idle
    /\ \A i \in 1 .. Len(pool) : pool[i] <= submitted
    /\ \A i, j \in 1 .. Len(pool) : i < j => pool[i] < pool[j]
    /\ w # Idle => w.id <= submitted /\ \A i \in 1 .. Len(pool) : w.id < pool[i]
    /\ \A i \in 1 .. Len(taken) :
         /\ taken[i].id <= submitted /\ taken[i].seq <= seqno
         /\ \A j \in 1 .. Len(pool) : taken[i].id < pool[j]
         /\ w # Idle => taken[i].id < w.id /\ (w.seq > 0 => taken[i].seq < w.seq)
    /\ \A i, j \in 1 .. Len(taken) :
         i < j => taken[i].id < taken[j].id /\ taken[i].seq < taken[j].seq

Ordered == overflow \in BOOLEAN /\ (~overflow => OrderInv)

LEMMA NumberTypes ==
    ASSUME AppInv, taken \in Seq(LinkFrame)
    PROVE  /\ submitted \in Nat /\ seqno \in Nat /\ Len(pool) \in Nat /\ Len(taken) \in Nat
           /\ \A i \in 1 .. Len(pool) : pool[i] \in Nat
           /\ \A i \in 1 .. Len(taken) : taken[i].id \in Nat /\ taken[i].seq \in Nat
           /\ hands["worker"].id \in Nat /\ hands["worker"].seq \in Nat
<1>1. \A p \in Payloads : p \in Nat
  BY LinkAssumption DEF Payloads
<1>2. \A i \in 1 .. Len(pool) : pool[i] \in Nat
  <2>1. \A i \in 1 .. Len(pool) : pool[i] \in Payloads
    BY DEF AppInv
  <2> QED BY <1>1, <2>1
<1>3. \A i \in 1 .. Len(taken) : taken[i] \in LinkFrame
  OBVIOUS
<1>4. \A f \in LinkFrame : f.id \in Nat /\ f.seq \in Nat
  <2>1. \A f \in LinkFrame : f.id \in Payloads /\ f.seq \in 1 .. Len(Size)
    BY DEF LinkFrame
  <2> QED BY <1>1, <2>1
<1>5. hands["worker"] \in [id : Payloads \cup {0}, seq : Nat]
  BY TaskSet DEF AppInv
<1>6. hands["worker"].id \in Nat /\ hands["worker"].seq \in Nat
  BY <1>1, <1>5
<1>7. \A i \in 1 .. Len(taken) : taken[i].id \in Nat /\ taken[i].seq \in Nat
  BY <1>3, <1>4
<1>8. submitted \in Nat /\ seqno \in Nat /\ Len(pool) \in Nat /\ Len(taken) \in Nat
  BY DEF AppInv
<1> QED BY <1>2, <1>6, <1>7, <1>8

LEMMA WriteToOrder ==
    ASSUME AppInv, taken \in Seq(LinkFrame), Ordered, WriteTo PROVE Ordered'
<1>1. CASE ~try_submit
  BY <1>1 DEF WriteTo, Ordered
<1>2. CASE try_submit
  <2>1. /\ pool' = Append(pool, submitted + 1) /\ UNCHANGED <<hands, overflow, taken, seqno>>
        /\ submitted' = submitted + 1
    BY <1>2 DEF WriteTo
  <2> SUFFICES ASSUME ~overflow PROVE OrderInv'
    BY <2>1 DEF Ordered
  <2>2. OrderInv
    BY DEF Ordered
  <2>3. pool \in Seq(Payloads)
    BY DEF AppInv
  <2>4. submitted + 1 \in Nat /\ submitted < submitted + 1 /\ submitted \in Nat
    BY NumberTypes
  <2>5. /\ Len(pool') = Len(pool) + 1 /\ pool'[Len(pool) + 1] = submitted + 1
        /\ \A i \in 1 .. Len(pool) : pool'[i] = pool[i]
        /\ Len(pool) \in Nat
    <3>1. submitted + 1 \in Payloads
      BY LinkAssumption, <2>4 DEF WriteTo, Payloads
    <3> QED BY <2>1, <2>3, <3>1
  <2>6. \A i \in 1 .. Len(pool') : i \in 1 .. Len(pool) \/ i = Len(pool) + 1
    BY <2>5
  <2>7. \A i \in 1 .. Len(pool') : pool'[i] <= submitted'
    BY <2>1, <2>2, <2>4, <2>5, <2>6, NumberTypes DEF OrderInv
  <2>8. ASSUME NEW i \in 1 .. Len(pool'), NEW j \in 1 .. Len(pool'), i < j PROVE pool'[i] < pool'[j]
    <3>1. i \in 1 .. Len(pool)
      BY <2>5, <2>8
    <3>2. pool[i] <= submitted /\ pool[i] \in Nat
      BY <2>2, <3>1, NumberTypes DEF OrderInv
    <3>3. CASE j = Len(pool) + 1
      BY <2>4, <2>5, <3>1, <3>2, <3>3
    <3>4. CASE j \in 1 .. Len(pool)
      BY <2>2, <2>5, <2>8, <3>1, <3>4 DEF OrderInv
    <3> QED BY <2>6, <3>3, <3>4
  <2>9. hands["worker"] # Idle =>
          hands["worker"].id <= submitted' /\ \A i \in 1 .. Len(pool') : hands["worker"].id < pool'[i]
    BY <2>1, <2>2, <2>4, <2>5, <2>6, NumberTypes DEF OrderInv
  <2>10. ASSUME NEW i \in 1 .. Len(taken)
         PROVE  taken[i].id <= submitted' /\ \A j \in 1 .. Len(pool') : taken[i].id < pool'[j]
    <3>1. taken[i].id <= submitted /\ taken[i].id \in Nat
      BY <2>2, NumberTypes, ZenonT(30) DEF OrderInv
    <3>2. \A j \in 1 .. Len(pool) : taken[i].id < pool[j]
      BY <2>2 DEF OrderInv
    <3> QED BY <2>1, <2>4, <2>5, <2>6, <3>1, <3>2
  <2> QED BY <2>1, <2>2, <2>7, <2>8, <2>9, <2>10 DEF OrderInv
<1> QED BY <1>1, <1>2

LEMMA WorkerTakesOrder ==
    ASSUME AppInv, taken \in Seq(LinkFrame), Ordered, WorkerTakes PROVE Ordered'
<1> DEFINE job == [id |-> Head(pool), seq |-> 0]
<1>1. /\ pool' = Tail(pool) /\ UNCHANGED <<submitted, overflow, taken, seqno>> /\ pool # <<>>
      /\ hands' = [hands EXCEPT !["worker"] = job]
  BY DEF WorkerTakes
<1> SUFFICES ASSUME ~overflow PROVE OrderInv'
  BY <1>1 DEF Ordered
<1>2. OrderInv
  BY DEF Ordered
<1>3. pool \in Seq(Payloads) /\ hands \in [Tasks -> [id : Payloads \cup {0}, seq : Nat]]
  BY DEF AppInv
<1>4. /\ Len(pool) \in Nat /\ Len(pool) # 0 /\ Len(pool') = Len(pool) - 1 /\ Head(pool) = pool[1]
      /\ \A i \in 1 .. Len(pool) - 1 : pool'[i] = pool[i + 1]
  BY <1>1, <1>3
<1>5. job.id = pool[1] /\ job.seq = 0
  BY <1>4
<1>6. hands'["worker"] = job /\ hands'["caller"] = hands["caller"]
  BY <1>1, <1>3, TaskSet
<1> HIDE DEF job
<1>7. 1 \in 1 .. Len(pool) /\ \A i \in 1 .. Len(pool) - 1 : i + 1 \in 1 .. Len(pool) /\ 1 < i + 1
  BY <1>4
<1>8. \A i \in 1 .. Len(pool') : pool'[i] <= submitted' /\ pool[1] < pool'[i]
  BY <1>1, <1>2, <1>4, <1>7 DEF OrderInv
<1>9. ASSUME NEW i \in 1 .. Len(pool'), NEW j \in 1 .. Len(pool'), i < j PROVE pool'[i] < pool'[j]
  <2>1. i + 1 \in 1 .. Len(pool) /\ j + 1 \in 1 .. Len(pool) /\ i + 1 < j + 1
    BY <1>4, <1>9
  <2>2. pool[i + 1] < pool[j + 1]
    BY <1>2, <2>1 DEF OrderInv
  <2> QED BY <1>4, <2>2
<1>10. pool[1] <= submitted
  BY <1>2, <1>7 DEF OrderInv
<1>11. \A i \in 1 .. Len(taken) : taken[i].id < pool[1] /\ \A j \in 1 .. Len(pool') : taken[i].id < pool'[j]
  BY <1>2, <1>4, <1>7 DEF OrderInv
<1> QED BY <1>1, <1>2, <1>5, <1>6, <1>8, <1>9, <1>10, <1>11 DEF OrderInv


LEMMA EncryptOrder ==
    ASSUME AppInv, taken \in Seq(LinkFrame), Ordered, NEW t \in Tasks, Encrypt(t) PROVE Ordered'
<1>1. /\ UNCHANGED <<submitted, pool, overflow, taken>> /\ seqno' = seqno + 1 /\ hands[t] # Idle
      /\ hands' = [hands EXCEPT ![t] = [id |-> hands[t].id, seq |-> seqno + 1]]
  BY DEF Encrypt
<1> SUFFICES ASSUME ~overflow PROVE OrderInv'
  BY <1>1 DEF Ordered
<1>2. OrderInv
  BY DEF Ordered
<1>3. t = "worker"
  BY <1>1, <1>2, TaskSet DEF OrderInv
<1>4. hands \in [Tasks -> [id : Payloads \cup {0}, seq : Nat]]
  BY DEF AppInv
<1>5. hands'["worker"] = [id |-> hands["worker"].id, seq |-> seqno + 1]
      /\ hands'["caller"] = hands["caller"]
  BY <1>1, <1>3, <1>4, TaskSet
<1>6. hands'["worker"].id = hands["worker"].id /\ hands'["worker"].seq = seqno + 1
  BY <1>5
<1>7. \A i \in 1 .. Len(taken) : taken[i].seq <= seqno /\ taken[i].seq \in Nat /\ seqno \in Nat
  BY <1>2, NumberTypes DEF OrderInv
<1>8. \A i \in 1 .. Len(taken) : taken[i].seq <= seqno + 1 /\ taken[i].seq < seqno + 1
  BY <1>7
<1> QED BY <1>1, <1>2, <1>3, <1>5, <1>6, <1>8 DEF OrderInv

LEMMA DispatchOrder ==
    ASSUME AppInv, taken \in Seq(LinkFrame), Ordered, NEW t \in Tasks, Dispatch(t) PROVE Ordered'
<1>1. /\ UNCHANGED <<submitted, pool, overflow, seqno>> /\ hands[t].seq > 0
      /\ hands' = [hands EXCEPT ![t] = Idle] /\ send_to_peer(hands[t])
  BY DEF Dispatch
<1> SUFFICES ASSUME ~overflow PROVE OrderInv'
  BY <1>1 DEF Ordered
<1>2. OrderInv
  BY DEF Ordered
<1>3. t = "worker" /\ hands["worker"] # Idle
  <2>1. hands[t] # Idle
    BY <1>1 DEF Idle
  <2> QED BY <1>2, <2>1, TaskSet DEF OrderInv
<1>4. hands \in [Tasks -> [id : Payloads \cup {0}, seq : Nat]]
  BY DEF AppInv
<1>5. hands'["worker"] = Idle /\ hands'["caller"] = hands["caller"]
  BY <1>1, <1>3, <1>4, TaskSet
<1>6. CASE taken' = taken
  BY <1>1, <1>2, <1>5, <1>6, ZenonT(30) DEF OrderInv
<1>7. CASE taken' = Append(taken, hands[t])
  <2>1. PICK f \in LinkFrame : f = hands["worker"] /\ f.seq > 0
    BY <1>1, <1>3, SentIsFrame
  <2>2. /\ Len(taken) \in Nat /\ Len(taken') = Len(taken) + 1 /\ taken'[Len(taken) + 1] = f
        /\ \A i \in 1 .. Len(taken) : taken'[i] = taken[i]
    BY <1>3, <1>7, <2>1
  <2>3. \A i \in 1 .. Len(taken') : i \in 1 .. Len(taken) \/ i = Len(taken) + 1
    BY <2>2
  <2>4. f.id <= submitted /\ f.seq <= seqno /\ \A j \in 1 .. Len(pool) : f.id < pool[j]
    <3>1. hands["worker"].seq <= seqno
      BY <1>3 DEF AppInv
    <3> QED BY <1>2, <1>3, <2>1, <3>1 DEF OrderInv
  <2>5. \A i \in 1 .. Len(taken) : taken[i].id < f.id /\ taken[i].seq < f.seq
    BY <1>2, <1>3, <2>1 DEF OrderInv
  <2>6. \A i \in 1 .. Len(taken') :
          /\ taken'[i].id <= submitted /\ taken'[i].seq <= seqno
          /\ \A j \in 1 .. Len(pool) : taken'[i].id < pool[j]
    BY <1>2, <2>2, <2>3, <2>4 DEF OrderInv
  <2>7. ASSUME NEW i \in 1 .. Len(taken'), NEW j \in 1 .. Len(taken'), i < j
        PROVE  taken'[i].id < taken'[j].id /\ taken'[i].seq < taken'[j].seq
    <3>1. i \in 1 .. Len(taken)
      BY <2>2, <2>7
    <3>2. CASE j = Len(taken) + 1
      BY <2>2, <2>5, <3>1, <3>2
    <3>3. CASE j \in 1 .. Len(taken)
      BY <1>2, <2>2, <2>7, <3>1, <3>3 DEF OrderInv
    <3> QED BY <2>3, <3>2, <3>3
  <2> QED BY <1>1, <1>2, <1>5, <2>6, <2>7 DEF OrderInv
<1> QED BY <1>1, <1>6, <1>7 DEF send_to_peer

LEMMA OrderStep ==
    ASSUME LinkInv, Ordered, [LinkNext]_link_vars PROVE Ordered'
<1>1. AppInv /\ taken \in Seq(LinkFrame)
  BY DEF LinkInv, StreamInv, StreamType
<1>2. ASSUME UNCHANGED <<app, taken>> PROVE Ordered'
  BY <1>2 DEF Ordered, OrderInv, app
<1>3. CASE WriteTo
  BY <1>1, <1>3, WriteToOrder
<1>4. CASE Crypto
  BY <1>1, <1>4, WorkerTakesOrder, EncryptOrder, DispatchOrder DEF Crypto
<1>5. CASE Writer
  BY <1>2, <1>5 DEF Writer, TakeBatch, WritePlain, drain, WriteObfs, Flush, WriterFails
<1>6. CASE Reader
  BY <1>2, <1>6 DEF Reader, ReadLength, ReadBody, ReaderFails
<1>7. CASE Shake \/ Break
  BY <1>2, <1>7 DEF Shake, WriteNonce, ReadNonce, Break
<1>8. CASE UNCHANGED link_vars
  BY <1>2, <1>8 DEF link_vars
<1> QED BY <1>3, <1>4, <1>5, <1>6, <1>7, <1>8 DEF LinkNext

\* Payloads for a destination arrive in the order of their write_to calls and under
\* ascending numbers, for every capacity of the queues, until a call is encrypted inline
\* (CryptoPool's "per-peer wire order is preserved").
THEOREM OrderIsPreserved == LinkSpec => []SubmissionOrder
<1>1. LinkInit => Ordered
  <2> SUFFICES ASSUME LinkInit PROVE Ordered
    OBVIOUS
  <2>1. hands["caller"] = Idle /\ hands["worker"] = Idle /\ overflow = FALSE
    BY TaskSet DEF LinkInit
  <2>2. (\A i \in 1 .. Len(pool) : FALSE) /\ (\A i \in 1 .. Len(taken) : FALSE)
    BY DEF LinkInit
  <2> QED BY <2>1, <2>2 DEF Ordered, OrderInv
<1>2. LinkInv /\ Ordered /\ [LinkNext]_link_vars => Ordered'
  BY OrderStep
<1>3. LinkInv /\ Ordered => SubmissionOrder
  <2> SUFFICES ASSUME LinkInv, Ordered, ~overflow,
                      NEW i \in DOMAIN arrived, NEW j \in DOMAIN arrived, i < j
               PROVE  arrived[i].id < arrived[j].id /\ arrived[i].seq < arrived[j].seq
    BY DEF SubmissionOrder, Ordered
  <2>1. PICK S, off : StreamInv(S, off)
    BY DEF LinkInv
  <2>2. arrived \in Seq(LinkFrame) /\ Len(arrived) \in Nat /\ Len(taken) \in Nat
        /\ Len(arrived) <= Len(taken)
    BY <2>1, PlaceFacts DEF StreamInv, StreamType
  <2>3. i \in 1 .. Len(arrived) /\ j \in 1 .. Len(arrived)
        /\ i \in 1 .. Len(taken) /\ j \in 1 .. Len(taken)
    BY <2>2
  <2>4. arrived[i] = taken[i] /\ arrived[j] = taken[j]
    BY <2>1, <2>3 DEF StreamInv, ReadInv
  <2> QED BY <2>3, <2>4 DEF Ordered, OrderInv
<1> QED BY <1>1, <1>2, <1>3, LinkInvHolds, PTL DEF LinkSpec

=============================================================================
