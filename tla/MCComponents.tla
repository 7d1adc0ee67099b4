---------------------------- MODULE MCComponents ----------------------------
(***************************************************************************)
(* Small instances of components that share no state.  A behaviour is      *)
(* about the one that the initial state chooses, and the others rest in an *)
(* initial state of theirs.                                                *)
(***************************************************************************)
EXTENDS ReplayWindow, Onion, InitAdmission, PeerHealth, Wire, CuckooFilter, CuckooGossip,
        TLC

CONSTANTS r1, r2, d, h, f1, f2, n1, n2, n3, n4

VARIABLE focus

Components == {"window", "onion", "admission", "health", "wire", "filter", "gossip"}

MCPaths == {<<r1>>, <<r2, r1>>, <<d, r1>>, <<r1, r2, d>>}
MCBuilds == {{r1, d}, {r1, r2}}

MCScenarios == {{h}, {f1, f2}}

MCDelays == [good |-> 1, bad |-> 3]

MCWidth == [key |-> 2, sig |-> 3, tag |-> 1, coord |-> 1, header |-> 4, filter |-> 3,
            kem |-> 3, ct |-> 2, dsa |-> 1, dsasig |-> 2,
            u8 |-> 1, u16 |-> 2, u32 |-> 2, u64 |-> 3]
MCHopLists == {<<>>, <<0, 4>>}

(* Fingerprint 3 has one bucket, fingerprint 1 has two.                    *)
MCbucket2(b, fp) == IF fp = 3 THEN b ELSE 1 - b
MCWalks == {<<<<0, 1>>, <<1, 3>>>>, <<<<1, 1>>, <<0, 3>>>>}

(* A mesh that has nothing to say; and n2 below the root n1, n3 and n4     *)
(* below n2, of which n4 leaves.                                           *)
Single == [links |-> {}, parent |-> (n1 :> n1), leaver |-> "none", brisk |-> FALSE]
Chain == [links |-> {{n1, n2}, {n2, n3}, {n2, n4}},
          parent |-> (n1 :> n1 @@ n2 :> n1 @@ n3 :> n2 @@ n4 :> n2),
          leaver |-> n4, brisk |-> FALSE]
MCMeshes == {Single, Chain}

MCInit ==
    /\ focus \in Components
    /\ Init /\ OnionInit /\ AdmissionInit /\ HealthInit /\ WireInit /\ FilterInit
    /\ GossipInit
    /\ focus # "onion" => capable = {r1, d} /\ onion_format = "Auto"
    /\ focus # "admission" => active = {h}
    /\ focus # "health" => quality = "good"
    /\ mesh = IF focus = "gossip" THEN Chain ELSE Single

(* A step of a component leaves the variables of the others alone.         *)
MCNext ==
    \/ /\ focus = "window" /\ Next
       /\ UNCHANGED <<focus, onion_vars, admission_vars, health_vars, wire_vars, filter_vars, gossip_vars>>
    \/ /\ focus = "onion" /\ OnionNext
       /\ UNCHANGED <<focus, vars, admission_vars, health_vars, wire_vars, filter_vars, gossip_vars>>
    \/ /\ focus = "admission" /\ AdmissionNext
       /\ UNCHANGED <<focus, vars, onion_vars, health_vars, wire_vars, filter_vars, gossip_vars>>
    \/ /\ focus = "health" /\ HealthNext
       /\ UNCHANGED <<focus, vars, onion_vars, admission_vars, wire_vars, filter_vars, gossip_vars>>
    \/ /\ focus = "wire" /\ WireNext
       /\ UNCHANGED <<focus, vars, onion_vars, admission_vars, health_vars, filter_vars, gossip_vars>>
    \/ /\ focus = "filter" /\ FilterNext
       /\ UNCHANGED <<focus, vars, onion_vars, admission_vars, health_vars, wire_vars, gossip_vars>>
    \/ /\ focus = "gossip" /\ GossipNext
       /\ UNCHANGED <<focus, vars, onion_vars, admission_vars, health_vars, wire_vars, filter_vars>>

(* Only the gossip has a property that needs fairness; on the mesh of one  *)
(* node nothing is due.                                                    *)
MCSpec ==
    /\ MCInit
    /\ [][MCNext]_<<focus, vars, onion_vars, admission_vars, health_vars, wire_vars,
                    filter_vars, gossip_vars>>
    /\ GossipFairness
=============================================================================
