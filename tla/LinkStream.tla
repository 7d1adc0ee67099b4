----------------------------- MODULE LinkStream -----------------------------
(* One direction of an established link, from write_to to dispatch: the       *)
(* crypto worker that encrypts payloads for a destination, the link's frame    *)
(* channel, the writer task with its batches, the length-prefixed framing, the *)
(* obfuscation layer with its keystream and pending buffer, the socket, and the *)
(* reader that takes the bytes apart again.                                    *)
(*                                                                             *)
(* A byte on the wire is a length digit (v) or a numbered byte of a frame.  The *)
(* obfuscated form of a byte carries the nonce and the position of the          *)
(* keystream byte it was combined with; it is legible exactly at that position  *)
(* of that stream.                                                              *)
EXTENDS Naturals, Sequences, SequencesExt, FiniteSetsExt

CONSTANTS
  Size,        \* Size[k]: bytes of the frame that carries payload k
  PoolCap,     \* CryptoJob queue of a worker (8192)
  ChanCap,     \* per-link frame channel (8192)
  MaxBatch,    \* MAX_WRITE_BATCH (32)
  SockCap,     \* bytes a socket takes before it applies backpressure
  LEN_RADIX    \* values of a length digit below the continuation bit (128)

ASSUME LinkAssumption ==
  /\ Size \in Seq(Nat \ {0})
  /\ {PoolCap, ChanCap, MaxBatch, SockCap} \subseteq Nat \ {0}
  /\ LEN_RADIX \in Nat \ {0, 1}

Payloads == DOMAIN Size
Tasks    == {"caller", "worker"}
Sides    == {"tx", "rx"}
Idle     == [id |-> 0, seq |-> 0]

VARIABLES
  submitted,  \* payloads given to write_to so far
  pool,       \* queue of the worker that the destination hashes to
  hands,      \* the job a task has in hand: seq 0 until it is encrypted
  seqno,      \* the session's last sequence number
  overflow,   \* has write_to fallen back to inline encryption yet?
  chan,       \* the link's frame channel
  taken,      \* every frame the channel has taken
  wphase,     \* writer task: "recv", "write", "flush", "dead"
  outbuf,     \* what write_all still has to hand to the writer
  pending,    \* CipherWriter::pending from `sent` on
  sock,       \* bytes between the two sockets
  keystream,  \* keystream positions of CipherWriter and CipherReader
  obfs,       \* is the obfuscation layer on?
  hs,         \* obfs_handshake of each side: "write", "read", "done"
  prefix,     \* length digits read_frame has read
  partial,    \* bytes of the frame it has read
  rphase,     \* reader: "length", "body", "dead"
  arrived,    \* frames given to dispatch
  broken      \* has the connection failed?

app  == <<submitted, pool, hands, seqno, overflow>>
wvars == <<wphase, outbuf, pending>>
rvars == <<prefix, partial, rphase, arrived>>
link == <<obfs, hs, broken>>
link_vars == <<app, chan, taken, wvars, sock, keystream, rvars, link>>

(* A frame carries payload id under sequence number seq.                       *)
LinkFrame == [id : Payloads, seq : 1..Len(Size)]
Bytes(f) == [i \in 1..Size[f.id] |-> [frame |-> f, at |-> i, v |-> 0]]

(* encode_uvarint: what is left of v after each digit, the low one first ...   *)
shifted(v) ==
  LET rest[i \in 0 .. v + 1] == IF i = 0 THEN v ELSE rest[i - 1] \div LEN_RADIX
  IN  rest

(* ... and the digits until nothing is left, all but the last one marked.      *)
encode_len(v) ==
  LET n == Min({i \in 1 .. v + 1 : shifted(v)[i] = 0})
  IN  [i \in 1 .. n |-> (IF i < n THEN LEN_RADIX ELSE 0) + (shifted(v)[i - 1] % LEN_RADIX)]

(* decode_uvarint of a complete prefix.                                        *)
decode_len(d) ==
  LET from[i \in 1 .. Len(d) + 1] ==
        IF i = Len(d) + 1 THEN 0 ELSE (d[i] % LEN_RADIX) + LEN_RADIX * from[i + 1]
  IN  from[1]

Digits(f) == LET d == encode_len(Size[f.id]) IN
             [i \in DOMAIN d |-> [frame |-> Idle, at |-> 0, v |-> d[i]]]

Wire(f) == Digits(f) \o Bytes(f)

(* write_frames_batched: one buffer with every frame behind its length.        *)
write_frames_batched(fs) == FlattenSeq([i \in DOMAIN fs |-> Wire(fs[i])])

-----------------------------------------------------------------------------
(* KeyStream::apply: combine n bytes with the stream from position p on.        *)
apply(bs, n, p) == [i \in DOMAIN bs |-> [b |-> bs[i], nonce |-> n, pos |-> p + i]]

plain(bs) == [i \in DOMAIN bs |-> [b |-> bs[i], nonce |-> "none", pos |-> 0]]

(* The same on the reading side: a byte is legible only where the two streams   *)
(* are at the same place.                                                       *)
Illegible == [frame |-> Idle, at |-> 0, v |-> 0]
unapply(ws, n, p) ==
  [i \in DOMAIN ws |-> IF ws[i].nonce = n /\ ws[i].pos = p + i THEN ws[i].b ELSE Illegible]

LinkInit ==
  /\ submitted = 0 /\ pool = <<>> /\ hands = [t \in Tasks |-> Idle] /\ seqno = 0
  /\ overflow = FALSE
  /\ chan = <<>> /\ taken = <<>>
  /\ wphase = "recv" /\ outbuf = <<>> /\ pending = <<>> /\ sock = <<>>
  /\ keystream = [s \in Sides |-> 0]
  /\ obfs \in BOOLEAN /\ hs = [s \in Sides |-> IF obfs THEN "write" ELSE "done"]
  /\ prefix = <<>> /\ partial = <<>> /\ rphase = "length" /\ arrived = <<>>
  /\ broken = FALSE

Open == \A s \in Sides : hs[s] = "done"

(* obfs_handshake: each side writes its nonce before it reads the other's.      *)
WriteNonce(s) == /\ hs[s] = "write" /\ ~broken
                 /\ hs' = [hs EXCEPT ![s] = "read"]
                 /\ UNCHANGED <<app, chan, taken, wvars, sock, keystream, rvars, obfs, broken>>

ReadNonce(s) == /\ hs[s] = "read" /\ ~broken
                /\ \A o \in Sides : hs[o] # "write"
                /\ hs' = [hs EXCEPT ![s] = "done"]
                /\ UNCHANGED <<app, chan, taken, wvars, sock, keystream, rvars, obfs, broken>>

-----------------------------------------------------------------------------
\* Mutant of WriteTo: a busy worker, not a full queue, makes the caller encrypt inline.
WriteTo_M ==
  /\ Open /\ submitted < Len(Size) /\ hands["caller"] = Idle
  /\ submitted' = submitted + 1
  /\ IF hands["worker"] = Idle /\ Len(pool) < PoolCap
     THEN /\ pool' = Append(pool, submitted + 1)
          /\ UNCHANGED hands
     ELSE /\ hands' = [hands EXCEPT !["caller"] = [id |-> submitted + 1, seq |-> 0]]
          /\ UNCHANGED pool
  /\ UNCHANGED <<seqno, overflow, chan, taken, wvars, sock, keystream, rvars, link>>

(* CryptoPool::try_submit: the worker of the destination has room in its queue.   *)
try_submit == Len(pool) < PoolCap

(* write_to, for an established session: the job goes to the worker, or is        *)
(* encrypted inline in the calling task when that does not take it.               *)
WriteTo ==
  /\ Open /\ submitted < Len(Size) /\ hands["caller"] = Idle
  /\ submitted' = submitted + 1
  /\ IF try_submit
     THEN /\ pool' = Append(pool, submitted + 1)
          /\ UNCHANGED <<hands, overflow>>
     ELSE /\ hands' = [hands EXCEPT !["caller"] = [id |-> submitted + 1, seq |-> 0]]
          /\ overflow' = TRUE
          /\ UNCHANGED pool
  /\ UNCHANGED <<seqno, chan, taken, wvars, sock, keystream, rvars, link>>

(* crypto_worker takes the next job.                                             *)
WorkerTakes ==
  /\ pool # <<>> /\ hands["worker"] = Idle
  /\ pool' = Tail(pool)
  /\ hands' = [hands EXCEPT !["worker"] = [id |-> Head(pool), seq |-> 0]]
  /\ UNCHANGED <<submitted, seqno, overflow, chan, taken, wvars, sock, keystream, rvars, link>>

(* encrypt_and_dispatch: encryption numbers the packet under the session's        *)
(* lock, which is released before the frame is sent under the router's.           *)
Encrypt(t) ==
  /\ hands[t] # Idle /\ hands[t].seq = 0
  /\ seqno' = seqno + 1
  /\ hands' = [hands EXCEPT ![t] = [id |-> hands[t].id, seq |-> seqno + 1]]
  /\ UNCHANGED <<submitted, pool, overflow, chan, taken, wvars, sock, keystream, rvars, link>>

(* send_to_peer on a peer with one link: a full or closed channel loses the frame. *)
send_to_peer(f) ==
  IF Len(chan) < ChanCap /\ wphase # "dead"
  THEN chan' = Append(chan, f) /\ taken' = Append(taken, f)
  ELSE UNCHANGED <<chan, taken>>

Dispatch(t) ==
  /\ hands[t].seq > 0
  /\ send_to_peer(hands[t])
  /\ hands' = [hands EXCEPT ![t] = Idle]
  /\ UNCHANGED <<submitted, pool, seqno, overflow, wvars, sock, keystream, rvars, link>>

-----------------------------------------------------------------------------
(* The writer task of handle_conn takes one frame and those queued behind it.     *)
TakeBatch ==
  /\ wphase = "recv" /\ chan # <<>>
  /\ LET n == Min({MaxBatch, Len(chan)}) IN
       /\ outbuf' = write_frames_batched(SubSeq(chan, 1, n))
       /\ chan' = SubSeq(chan, n + 1, Len(chan))
  /\ wphase' = "write"
  /\ UNCHANGED <<app, taken, pending, sock, keystream, rvars, link>>

Room == SockCap - Len(sock)

(* What a poll_write on the socket may take of bs: some bytes while there is room. *)
Accepted(bs) == 1..Min({Len(bs), Room})

(* write_all on a plain link: poll_write takes what the socket has room for.       *)
WritePlain ==
  /\ wphase = "write" /\ ~obfs /\ ~broken
  /\ \E n \in Accepted(outbuf) :
       /\ sock' = sock \o plain(SubSeq(outbuf, 1, n))
       /\ outbuf' = SubSeq(outbuf, n + 1, Len(outbuf))
       /\ wphase' = IF n = Len(outbuf) THEN "flush" ELSE "write"
  /\ UNCHANGED <<app, chan, taken, pending, keystream, rvars, link>>

\* Mutant of drain: a partial write does not advance `sent`.
drain_M ==
  /\ wphase \in {"write", "flush"} /\ pending # <<>> /\ ~broken
  /\ \E n \in Accepted(pending) :
       /\ sock' = sock \o SubSeq(pending, 1, n)
       /\ pending' = IF n = Len(pending) THEN <<>> ELSE pending
  /\ UNCHANGED <<app, chan, taken, wphase, outbuf, keystream, rvars, link>>

(* drain: hand pending bytes to the socket, in a poll of the writer task.           *)
drain ==
  /\ wphase \in {"write", "flush"} /\ pending # <<>> /\ ~broken
  /\ \E n \in Accepted(pending) :
       /\ sock' = sock \o SubSeq(pending, 1, n)
       /\ pending' = SubSeq(pending, n + 1, Len(pending))
  /\ UNCHANGED <<app, chan, taken, wphase, outbuf, keystream, rvars, link>>

(* poll_write of the obfuscated link: once pending is drained, take the whole        *)
(* buffer, and drain as much as the socket takes in the same poll.                   *)
WriteObfs ==
  /\ wphase = "write" /\ obfs /\ pending = <<>> /\ ~broken
  /\ LET bs == apply(outbuf, "tx", keystream["tx"]) IN
     \E n \in {0} \cup Accepted(bs) :
       /\ sock' = sock \o SubSeq(bs, 1, n)
       /\ pending' = SubSeq(bs, n + 1, Len(bs))
  /\ keystream' = [keystream EXCEPT !["tx"] = @ + Len(outbuf)]
  /\ outbuf' = <<>> /\ wphase' = "flush"
  /\ UNCHANGED <<app, chan, taken, rvars, link>>

\* Mutant of Flush: the writer task does not flush after a batch.
Flush_M == /\ wphase = "flush" /\ ~broken
           /\ wphase' = "recv"
           /\ UNCHANGED <<app, chan, taken, outbuf, pending, sock, keystream, rvars, link>>

(* writer.flush() completes: poll_flush has drained pending.                          *)
Flush == /\ wphase = "flush" /\ pending = <<>> /\ ~broken
         /\ wphase' = "recv"
         /\ UNCHANGED <<app, chan, taken, outbuf, pending, sock, keystream, rvars, link>>

(* A write or flush on a broken connection ends the writer task and its channel.      *)
WriterFails == /\ broken /\ wphase \in {"write", "flush"}
               /\ wphase' = "dead" /\ chan' = <<>>
               /\ UNCHANGED <<app, taken, outbuf, pending, sock, keystream, rvars, link>>

-----------------------------------------------------------------------------
Need == decode_len(prefix)

(* poll_read: the next n bytes, legible if the keystream is in step; the stream    *)
(* advances by exactly the bytes that arrived.                                      *)
poll_read(n) == IF obfs THEN unapply(SubSeq(sock, 1, n), "tx", keystream["rx"])
                ELSE [i \in 1..n |-> sock[i].b]

Consume(n) == /\ sock' = SubSeq(sock, n + 1, Len(sock))
              /\ keystream' = IF obfs THEN [keystream EXCEPT !["rx"] = @ + n] ELSE keystream

(* The frame whose bytes were read, if they are those of one frame.                  *)
FrameOf(bs) == IF bs[1].frame # Idle /\ bs = Bytes(bs[1].frame) THEN bs[1].frame ELSE Idle

(* read_frame reads the length digit by digit ...                                    *)
ReadLength ==
  /\ rphase = "length" /\ Open /\ sock # <<>>
  /\ LET d == poll_read(1)[1].v IN
       /\ prefix' = Append(prefix, d)
       /\ rphase' = IF d < LEN_RADIX THEN "body" ELSE "length"
  /\ Consume(1)
  /\ UNCHANGED <<app, chan, taken, wvars, partial, arrived, link>>

(* ... and then the frame, in whatever pieces arrive; dispatch gets the whole.        *)
ReadBody ==
  /\ rphase = "body" /\ sock # <<>>
  /\ \E n \in 1..Min({Len(sock), Need - Len(partial)}) :
       /\ Consume(n)
       /\ LET bs == partial \o poll_read(n) IN
          IF Len(bs) = Need
          THEN /\ arrived' = Append(arrived, FrameOf(bs))
               /\ partial' = <<>> /\ prefix' = <<>> /\ rphase' = "length"
          ELSE /\ partial' = bs
               /\ UNCHANGED <<arrived, prefix, rphase>>
  /\ UNCHANGED <<app, chan, taken, wvars, link>>

(* A read on a broken connection ends the reader; handle_conn removes the peer.        *)
ReaderFails == /\ broken /\ sock = <<>> /\ rphase # "dead"
               /\ rphase' = "dead"
               /\ UNCHANGED <<app, chan, taken, wvars, sock, keystream, prefix, partial, arrived, link>>

(* The connection fails: what is under way is lost from some byte on.                  *)
Break == /\ ~broken /\ Open
         /\ broken' = TRUE
         /\ \E n \in 0..Len(sock) : sock' = SubSeq(sock, 1, n)
         /\ UNCHANGED <<app, chan, taken, wvars, keystream, rvars, obfs, hs>>

Writer == TakeBatch \/ WritePlain \/ drain \/ WriteObfs \/ Flush \/ WriterFails
Reader == ReadLength \/ ReadBody \/ ReaderFails
Crypto == WorkerTakes \/ \E t \in Tasks : Encrypt(t) \/ Dispatch(t)
Shake  == \E s \in Sides : WriteNonce(s) \/ ReadNonce(s)

LinkNext == WriteTo \/ Crypto \/ Writer \/ Reader \/ Shake \/ Break

(* Tasks are polled when they can go on; nobody has to call write_to.                  *)
LinkFairness == WF_link_vars(Writer) /\ WF_link_vars(Reader) /\ WF_link_vars(Crypto) /\ WF_link_vars(Shake)

LinkSpec == LinkInit /\ [][LinkNext]_link_vars /\ LinkFairness

-----------------------------------------------------------------------------
Fifo == INSTANCE FifoLink WITH Frame <- LinkFrame

(* The link implements FifoLink: batching, partial writes, backpressure, the         *)
(* keystream and reads in pieces neither lose, repeat, reorder nor garble a frame     *)
(* that the channel has taken, and a broken connection only cuts the tail off         *)
(* (write_frames_batched, CipherWriter, CipherReader, read_frame).                     *)
ImplementsFifo == Fifo!Spec

(* Payloads for one destination arrive in the order of their write_to calls, and      *)
(* under ascending sequence numbers, as long as no call fell back to inline            *)
(* encryption (CryptoPool: "per-peer wire order is preserved", router/mod.rs:1613).     *)
SubmissionOrder ==
  overflow \/ \A i, j \in DOMAIN arrived :
                i < j => arrived[i].id < arrived[j].id /\ arrived[i].seq < arrived[j].seq

(* Every frame the channel has taken arrives, also when the router falls silent after  *)
(* it, unless the connection fails: the flush after a batch "never strands a batch's    *)
(* tail when the peer goes idle" (conn.rs:292).                                          *)
NothingStranded ==
  \A k \in Payloads : (Len(taken) >= k) ~> (Len(arrived) >= k \/ broken)
=============================================================================
