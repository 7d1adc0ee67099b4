--------------------------- MODULE MCSpanningTree ---------------------------
(* SpanningTree for TLC: small topologies with their hop distances. *)
EXTENDS SpanningTree

Pair      == {{1, 2}}
PairDist  == <<<<0, 1>>, <<1, 0>>>>
Chain     == {{1, 2}, {2, 3}}
ChainDist == <<<<0, 1, 2>>, <<1, 0, 1>>, <<2, 1, 0>>>>

=============================================================================
