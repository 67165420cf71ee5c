---------------------------- MODULE MCRouteReport ----------------------------
(***************************************************************************)
(* Small instances of RouteReport: node 1 has BGP peers, node 2 has none.  *)
(***************************************************************************)
EXTENDS RouteReport

Two == {1, 2}
PeerNames == {"a", "b"}

OneLeg == [n \in Two |-> IF n = 1 THEN {"a"} ELSE {}]
TwoLegs == [n \in Two |-> IF n = 1 THEN {"a", "b"} ELSE {}]
CoversOne == [n \in Two |-> {1}]
CoversBoth == [n \in Two |-> {1, 2}]

\* Prefix 2 is outside the routes of node 1; damping begins and ends.
CalmOneLeg ==
    [legs |-> OneLeg, coverage |-> CoversOne, joined |-> TRUE, faults |-> {},
     changes |-> 3, upsets |-> 0, time |-> 1]

\* Both prefixes are covered and the limit is one entry; two peers overlap.
CalmTwoLegs ==
    [legs |-> TwoLegs, coverage |-> CoversBoth, joined |-> TRUE, faults |-> {},
     changes |-> 3, upsets |-> 0, time |-> 0]

\* The nodes join, a process restarts, a connection breaks, a node is revoked.
Upsets ==
    [legs |-> OneLeg, coverage |-> CoversBoth, joined |-> FALSE,
     faults |-> {"link", "restart", "coordinator", "revoke"},
     changes |-> 2, upsets |-> 1, time |-> 0]
CoordinatorUpsets == [Upsets EXCEPT !.faults = {"coordinator", "revoke"}]

\* Heartbeats come too late.
Lapses ==
    [legs |-> OneLeg, coverage |-> CoversOne, joined |-> TRUE, faults |-> {"lease"},
     changes |-> 2, upsets |-> 0, time |-> 2]

PassingEnvironments == {CalmOneLeg, CalmTwoLegs, Upsets, CoordinatorUpsets, Lapses}
=============================================================================
