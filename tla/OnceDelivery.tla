---------------------------- MODULE OnceDelivery ----------------------------
(***************************************************************************)
(* What a session promises to the layer above it: of the packets numbered  *)
(* 0, 1, 2, ... that the peer sent, each is handed up at most once, in any *)
(* order, some possibly never, and nothing is handed up that was not sent. *)
(***************************************************************************)
EXTENDS Naturals

CONSTANT Seqs            \* the sequence numbers, an initial segment of Nat

VARIABLES sent,          \* number of packets sent so far
          deliveries     \* deliveries[s]: how often packet s was handed up

vars == <<sent, deliveries>>

Init == sent = 0 /\ deliveries = [s \in Seqs |-> 0]

Send == /\ sent \in Seqs
        /\ sent' = sent + 1
        /\ UNCHANGED deliveries

Deliver(s) == /\ s < sent
              /\ deliveries[s] = 0
              /\ deliveries' = [deliveries EXCEPT ![s] = 1]
              /\ UNCHANGED sent

Next == Send \/ \E s \in Seqs : Deliver(s)

Spec == Init /\ [][Next]_vars

=============================================================================
