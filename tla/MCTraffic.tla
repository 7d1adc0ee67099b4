------------------------------ MODULE MCTraffic -----------------------------
(***************************************************************************)
(* Small instances of Forwarding, Floods, LinkStream and Dialing.  A       *)
(* behaviour is about one of them, which the initial state chooses; the    *)
(* others rest in a state in which nothing is due: a scene whose sender    *)
(* only seeks, a plan without announces, an outlook without dials, a link  *)
(* that nobody writes to.                                                  *)
(***************************************************************************)
EXTENDS Forwarding, Floods, LinkStream, Dialing, TLC

CONSTANTS r, hub, c, s, x

(* r is the root; hub relays for s and c, c for x.                         *)
Tree == [links |-> {{r, hub}, {hub, s}, {hub, c}, {c, x}},
         parent |-> (r :> r @@ hub :> r @@ s :> hub @@ c :> hub @@ x :> c),
         leaver |-> "none", brisk |-> FALSE]

(* The filters GossipSettles promises on that tree.                        *)
TreeFilters ==
    [m \in Member |-> [p \in Member |->
        CASE Tree.parent[m] = p /\ p # m -> Member
          [] Tree.parent[p] = m /\ p # m ->
                {q \in Member : q = p \/ p \in {Tree.parent[q], Tree.parent[Tree.parent[q]]}}
          [] OTHER -> {}]]

NoFilters == [m \in Member |-> [p \in Member |-> {}]]

(* Every filter holds the tag of x, which has left.                        *)
GhostFilters == [m \in Member |-> [p \in Member |-> {r, hub, c, x}]]

(* hub's echo from its parent r is cheaper than the way through c.         *)
Costs(dear) == [m \in Member |-> [p \in Member |-> IF p = dear THEN 2 ELSE 1]]

Near == (x :> {c} @@ c :> {hub} @@ hub :> {r} @@ s :> {hub} @@ r :> {hub})

Through(stamped, seeks, filters) ==
    [mesh |-> Tree, filters |-> filters, src |-> s, dst |-> x, cost |-> Costs(c),
     dist |-> (x :> 0 @@ c :> 1 @@ hub :> 2 @@ s :> 3 @@ r :> 3),
     near |-> Near, stamped |-> stamped, seeks |-> seeks]

Triangle == [links |-> {{r, hub}, {r, c}, {hub, c}, {c, x}},
             parent |-> (r :> r @@ hub :> r @@ s :> s @@ c :> r @@ x :> c),
             leaver |-> x, brisk |-> FALSE]

Ghost(stamped, seeks) ==
    [mesh |-> Triangle, filters |-> GhostFilters, src |-> r, dst |-> x, cost |-> Costs(s),
     dist |-> (x :> 0 @@ c :> 2 @@ hub :> 2 @@ r :> 2 @@ s :> 2),
     near |-> Near, stamped |-> stamped, seeks |-> seeks]

(* hub is the parent of all; r and c are linked as well, so that each      *)
(* hears the other claim everything and claims it to hub.                  *)
Crossed == [links |-> {{r, hub}, {hub, s}, {hub, c}, {hub, x}, {r, c}},
            parent |-> (r :> hub @@ hub :> hub @@ s :> hub @@ c :> hub @@ x :> hub),
            leaver |-> "none", brisk |-> FALSE]

CrossedFilters ==
    [m \in Member |-> [p \in Member |->
        CASE {m, p} \notin Crossed.links -> {}
          [] {m, p} \in Crossed.links /\ p \in {s, x} -> {p}
          [] OTHER -> Member]]

(* Both false claims are cheaper for hub than the way to x itself.         *)
Circling ==
    [mesh |-> Crossed, filters |-> CrossedFilters, src |-> s, dst |-> x, cost |-> Costs(x),
     dist |-> (x :> 0 @@ hub :> 1 @@ c :> 2 @@ s :> 2 @@ r :> 2),
     near |-> Near, stamped |-> FALSE, seeks |-> FALSE]

(* Nobody sends and nobody seeks yet.                                      *)
Resting == [Through(FALSE, TRUE, NoFilters) EXCEPT !.src = hub]

MCScenes ==
    {Resting, Circling,
     Through(TRUE, FALSE, TreeFilters), Through(FALSE, FALSE, TreeFilters),
     Through(FALSE, TRUE, TreeFilters), Through(FALSE, TRUE, NoFilters),
     [Through(FALSE, TRUE, TreeFilters) EXCEPT !.cost = Costs(r)],
     Ghost(TRUE, FALSE), Ghost(FALSE, FALSE), Ghost(FALSE, TRUE)}

Ring == {{r, hub}, {hub, c}, {r, c}}
Line == {{r, hub}, {hub, c}}

(* A ring whose origin restarts; a line with room in the tables; a line    *)
(* whose tables hold one report of three.                                  *)
Floodings ==
    {[kind |-> "onion key", links |-> Ring, subjects |-> {<<r, r>>}, cap |-> 1,
      restarts |-> {r}, max |-> 2],
     [kind |-> "capabilities", links |-> Line, subjects |-> {<<r, r>>, <<c, c>>}, cap |-> 2,
      restarts |-> {}, max |-> 2],
     [kind |-> "reputation", links |-> Line, subjects |-> {<<r, hub>>, <<hub, c>>, <<hub, r>>},
      cap |-> 1, restarts |-> {}, max |-> 2]}

Quiet == [kind |-> "none", links |-> {}, subjects |-> {}, cap |-> 1, restarts |-> {}, max |-> 0]

MCPlans == Floodings \cup {Quiet}

MCSize == <<1, 3, 2>>

At(now) == [now |-> now, legible |-> TRUE]
Unreadable(now) == [now |-> now, legible |-> FALSE]

Outlook(peers, cache, boots, finds, larger) ==
    [peers |-> peers, cache |-> cache, starts |-> boots, finds |-> finds, larger |-> larger,
     changes |-> 2]

Record(by) == [by |-> by, last_seen |-> 1]

NoDials == [Outlook(<<>>, {}, <<At(0)>>, 0, FALSE) EXCEPT !.changes = 0]

(* With a maximal age of 1 a record of time 1 is still good at 2 and gone  *)
(* at 3.                                                                   *)
MCOutlooks ==
    {NoDials,
     Outlook(<<"tcp">>, {Record("quic")}, <<At(0), At(3)>>, 1, FALSE),
     Outlook(<<"tcp">>, {}, <<At(1), At(2)>>, 2, TRUE),
     Outlook(<<"quic">>, {}, <<At(1), At(2)>>, 1, TRUE),
     Outlook(<<>>, {Record("tcp")}, <<At(1), At(2)>>, 1, TRUE),
     Outlook(<<>>, {Record("tcp")}, <<At(2), At(3)>>, 0, FALSE),
     Outlook(<<>>, {Record("quic")}, <<Unreadable(1), At(2)>>, 1, FALSE),
     Outlook(<<>>, {}, <<At(1), At(2)>>, 2, FALSE)}

(* Which component a behaviour is about.                                   *)
Subject ==
    CASE plan # Quiet -> "floods"
      [] outlook # NoDials -> "dialing"
      [] scene # Resting -> "forwarding"
      [] OTHER -> "link"

MCInit ==
    /\ ForwardInit /\ FloodInit /\ LinkInit /\ DialInit
    /\ plan = Quiet \/ outlook = NoDials
    /\ scene = Resting \/ (plan = Quiet /\ outlook = NoDials)
    /\ scene = Resting => ~converging
    /\ Subject # "link" => ~obfs
    /\ Subject # "dialing" => far = "down"

MCNext ==
    \/ /\ Subject = "forwarding" /\ ForwardNext
       /\ UNCHANGED <<flood_vars, link_vars, dialing_vars>>
    \/ /\ Subject = "floods" /\ FloodNext
       /\ UNCHANGED <<forward_vars, link_vars, dialing_vars>>
    \/ /\ Subject = "dialing" /\ DialNext
       /\ UNCHANGED <<forward_vars, flood_vars, link_vars>>
    \/ /\ Subject = "link" /\ LinkNext
       /\ UNCHANGED <<forward_vars, flood_vars, dialing_vars>>

MCSpec ==
    /\ MCInit
    /\ [][MCNext]_<<forward_vars, flood_vars, link_vars, dialing_vars>>
    /\ ForwardFairness
    /\ FloodFairness
    /\ LinkFairness
    /\ DialFairness
=============================================================================
