---------------------------- MODULE MCPeerLinks ----------------------------
(* PeerLinks for TLC: which of the nodes 1 and 2 dials, with how many tasks. *)
EXTENDS PeerLinks, TLC

AllDialChoices == {1 :> 2 @@ 2 :> 0, 1 :> 0 @@ 2 :> 1, 1 :> 0 @@ 2 :> 2, 1 :> 2 @@ 2 :> 1}
BothDial       == {1 :> 1 @@ 2 :> 1}
TwoDialTasks   == {1 :> 2 @@ 2 :> 0}

=============================================================================
