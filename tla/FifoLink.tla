------------------------------ MODULE FifoLink ------------------------------
(* What a link between two peers promises to the routing layer: the frames   *)
(* it has taken arrive in the order they were taken, each at most once and    *)
(* none in the middle missing.  A link may stop at any point.                 *)
EXTENDS Naturals, Sequences

CONSTANT Frame

VARIABLES taken,    \* frames the link has taken from the router, in order
          arrived   \* frames handed to dispatch on the other side, in order

Init == taken = <<>> /\ arrived = <<>>

Take(f) == taken' = Append(taken, f) /\ UNCHANGED arrived

Arrive == /\ Len(arrived) < Len(taken)
          /\ arrived' = Append(arrived, taken[Len(arrived) + 1])
          /\ UNCHANGED taken

Next == Arrive \/ \E f \in Frame : Take(f)

Spec == Init /\ [][Next]_<<taken, arrived>>
=============================================================================
