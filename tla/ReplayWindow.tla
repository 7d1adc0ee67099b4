---------------------------- MODULE ReplayWindow ----------------------------
(***************************************************************************)
(* One direction of an established session: SessionInfo::encrypt at the    *)
(* sender and the anti-replay part of SessionInfo::decrypt at the receiver *)
(* (src/src/session.rs), over a network that loses, duplicates, reorders   *)
(* and corrupts packets.  Keys are the business of module Session.         *)
(***************************************************************************)
EXTENDS SlidingWindow

CONSTANT MaxSeq          \* largest sequence number, u64::MAX in the code

ASSUME MaxSeqAssumption == MaxSeq \in Nat

Seqs == 0 .. MaxSeq

VARIABLES local_seq,     \* the sender's next sequence number
          high,          \* remote_seq_high at the receiver
          win,           \* remote_seq_window at the receiver, as offsets
          deliveries     \* how often each packet's plaintext was returned

vars == <<local_seq, high, win, deliveries>>

Init == /\ local_seq = 0
        /\ high = 0
        /\ win = {}
        /\ deliveries = [s \in Seqs |-> 0]

\* Every packet ever sent may still be in the network, any number of times.
encrypt == /\ local_seq \in Seqs
           /\ local_seq' = local_seq + 1
           /\ UNCHANGED <<high, win, deliveries>>

\* A bug that moves the window before the AEAD tag has been verified.
MutantSlideUnauthenticated(seq, authentic) ==
    /\ authentic => seq < local_seq
    /\ Admits(high, win, seq)
    /\ high' = SlideHigh(high, seq)
    /\ win' = SlideWindow(high, win, seq)
    /\ deliveries' = IF authentic THEN [deliveries EXCEPT ![seq] = @ + 1] ELSE deliveries
    /\ UNCHANGED local_seq

\* A packet numbered seq arrives.  Only a packet the peer sent passes the AEAD
\* check; a corrupted one carries any number and is turned away after the
\* window test, with the window as it was.
decrypt(seq, authentic) ==
    /\ authentic => seq < local_seq
    /\ IF authentic /\ Admits(high, win, seq)
       THEN /\ high' = SlideHigh(high, seq)
            /\ win' = SlideWindow(high, win, seq)
            /\ deliveries' = [deliveries EXCEPT ![seq] = @ + 1]
       ELSE UNCHANGED <<high, win, deliveries>>
    /\ UNCHANGED local_seq

Next == encrypt \/ \E seq \in Seqs, authentic \in BOOLEAN : decrypt(seq, authentic)

Spec == Init /\ [][Next]_vars

-----------------------------------------------------------------------------

\* The variables keep their types; the mask fits its word.
TypeOK == /\ local_seq \in 0 .. MaxSeq + 1
          /\ high \in Seqs
          /\ win \subseteq Offsets
          /\ deliveries \in [Seqs -> Nat]

\* The test at the head of decrypt (session.rs 490-498) admits exactly the
\* packets that were never delivered and lie less than Window below the highest
\* delivered one: no replay gets in, no fresh packet inside the window is
\* turned away, whatever arrived before (corrupted packets included).
AdmitsExactlyFresh ==
    \A seq \in Seqs :
        Admits(high, win, seq) <=>
            /\ deliveries[seq] = 0
            /\ \A d \in Seqs : deliveries[d] > 0 => d < seq + Window

Once == INSTANCE OnceDelivery WITH sent <- local_seq

\* Sender and receiver together implement the at-most-once channel: decrypt
\* returns each packet's plaintext at most once, and only after encrypt sent it.
ImplementsOnce == Once!Spec

\* The mask mirrors the delivery history: bit o is set exactly when packet
\* high - o was delivered, high is the highest delivered number, and nothing is
\* delivered that was not sent.  Inductive: it is what both results rest on.
WindowMirrors ==
    /\ \A o \in Offsets : o \in win <=> (high - o \in Seqs /\ deliveries[high - o] > 0)
    /\ \A s \in Seqs : deliveries[s] > 0 => s <= high /\ s < local_seq
    /\ high > 0 => deliveries[high] > 0
    /\ \A s \in Seqs : deliveries[s] <= 1

=============================================================================
