---------------------------- MODULE MCNodeRuntime ----------------------------
EXTENDS NodeRuntime

\* LANs: a 0-3, b 4-7; dn42 8-9; Internet 10-11; tailnet 12 (a), 13 (b), 14 (h); group 15
MCWidth == 4
MCNodes == {"a", "b", "c"}
P(bits, len) == new(bits, len)
LanA == P(0, 2)
LanB == P(4, 2)
LanC == P(11, 4)
Far == P(8, 3)
Lan == [a |-> {LanA}, b |-> {LanB}, c |-> {LanC}]
None(S) == [x \in S |-> {}]
Open == NoPolicy
Row(n, routes, offline, exit) == [node |-> n, routes |-> routes, offline |-> offline, exit |-> exit]
Map(rows) == [acl |-> Open, entries |-> rows]
Plain == Map(<<Row("a", <<LanA>>, FALSE, FALSE), Row("b", <<LanB>>, FALSE, FALSE), Row("c", <<LanC>>, FALSE, FALSE)>>)
Send1(src, dst, at, leg) == [src |-> src, dst |-> dst, at |-> at, leg |-> leg]

Base == [tun |-> Lan, owns |-> Lan, netmaps |-> <<Plain>>, dn42 |-> None(MCNodes),
         serves |-> None({}), tailnet |-> <<>>, tailAddr |-> None({}), fixed |-> None({}),
         summarize |-> {}, prefer |-> [n \in MCNodes |-> <<>>], looping |-> {}, linked |-> TRUE,
         sends |-> {}, flaps |-> 0]

\* Two gateways to the same BGP destination; in Leaving, b goes away.
Gateways == [Base EXCEPT
    !.dn42 = [None(MCNodes) EXCEPT !["a"] = {"X"}, !["b"] = {"Y"}],
    !.serves = [x \in {"X", "Y"} |-> {Far}], !.flaps = 3,
    !.sends = {Send1(11, 8, "c", "lan")}]
Leaving == [Gateways EXCEPT
    !.netmaps = <<Plain, Map(<<Plain.entries[1], Row("b", <<LanB>>, TRUE, FALSE), Plain.entries[3]>>)>>,
    !.flaps = 2]
Inwards == [Gateways EXCEPT !.flaps = 2, !.sends = {Send1(8, 11, "a", "dn42")}]
Lazy == [Base EXCEPT
    !.netmaps = <<Plain, Map(<<Plain.entries[1], Plain.entries[3]>>), Plain>>,
    !.linked = FALSE,
    !.sends = {Send1(11, 4, "c", "lan"), Send1(0, 1, "a", "lan")}]

\* a and b are members of a tailnet with the host h; b is the subnet router of the mesh.
TailAddrs == [a |-> P(12, 4), b |-> P(13, 4), h |-> P(14, 4)]
Member == [Base EXCEPT
    !.netmaps = <<Map(<<Plain.entries[1], Row("b", <<LanB, P(12, 2)>>, FALSE, FALSE), Plain.entries[3]>>)>>,
    !.tailnet = <<"a", "b", "h">>, !.tailAddr = TailAddrs,
    !.fixed = [None(DOMAIN TailAddrs) EXCEPT !["b"] = {LanB}], !.summarize = {"b"},
    !.sends = {Send1(0, 14, "a", "lan"), Send1(11, 14, "c", "lan"), Send1(14, 11, "b", "tailnet"),
               Send1(14, 0, "b", "tailnet"), Send1(14, 0, "a", "tailnet"), Send1(12, 14, "a", "lan"),
               Send1(4, 14, "b", "lan")}]

\* Exits: a and b in the mesh, h in the tailnet.
ExitMap == Map(<<Row("a", <<LanA>>, FALSE, TRUE), Row("b", <<LanB>>, FALSE, TRUE), Plain.entries[3]>>)
ExitGone == Map(<<Row("a", <<LanA>>, TRUE, TRUE), Row("b", <<LanB>>, FALSE, TRUE), Plain.entries[3]>>)
ExitsOf(S) == [Base EXCEPT
    !.netmaps = <<ExitMap, ExitGone>>, !.looping = S,
    !.tailnet = <<"c", "h">>, !.tailAddr = [c |-> P(12, 4), h |-> P(14, 4)],
    !.fixed = [c |-> {}, h |-> {P(0, 0)}],
    !.prefer = [n \in MCNodes |-> IF n = "c" THEN <<"tailnet", "mesh">> ELSE <<"mesh">>],
    !.sends = {Send1(11, 10, "c", "lan"), Send1(12, 10, "c", "lan"), Send1(0, 10, "a", "lan")}]

\* The policy lets c reach b only.
Policy == [enabled |-> TRUE, groups |-> [guests |-> {"c"}],
           rules |-> <<[prefix |-> LanB, subjects |-> {"any"}, allow |-> TRUE],
                       [prefix |-> P(0, 0), subjects |-> {"guests"}, allow |-> FALSE],
                       [prefix |-> P(0, 0), subjects |-> {"a", "b"}, allow |-> TRUE]>>]
Guarded == [Base EXCEPT
    !.netmaps = <<[Plain EXCEPT !.acl = Policy], Plain>>,
    !.sends = {Send1(11, 4, "c", "lan"), Send1(11, 0, "c", "lan"), Send1(4, 0, "b", "lan")}]

Groups == [Base EXCEPT !.sends = {Send1(0, 15, "a", "lan")}, !.looping = {"a", "b"}]

\* Two subnet routers of one mesh in one tailnet.
TwoGateways == [Base EXCEPT
    !.tailnet = <<"a", "b", "h">>, !.tailAddr = TailAddrs, !.fixed = None(DOMAIN TailAddrs), !.summarize = {"a", "b"},
    !.sends = {Send1(11, 4, "c", "lan"), Send1(14, 4, "a", "tailnet")}]

\* Nothing but what the coordinator tells c.
Alone(exit) == Map(<<Row("c", <<LanC>>, FALSE, exit)>>)
Told == [Base EXCEPT !.netmaps = <<Alone(FALSE)>>]
ToldAgain == [Told EXCEPT !.netmaps = <<Alone(FALSE), Alone(TRUE)>>]
Start == [Told EXCEPT !.linked = FALSE]

MCPlaces == [gateways |-> Gateways, lazy |-> Lazy, member |-> Member, exits |-> ExitsOf({}),
             looping |-> ExitsOf({"a", "b"}), guarded |-> Guarded, groups |-> Groups,
             safe |-> TwoGateways, inwards |-> Inwards, leaving |-> Leaving,
             told |-> Told, toldAgain |-> ToldAgain, start |-> Start]

\* A is the configured one; the first audit of the node's entry asks B.
MCReplicas == <<"A", "B", "C">>
Setting(n, first, down, gone, member) ==
    [faults |-> n, leader |-> first, down |-> down, gone |-> gone, member |-> member]
MCSettings == [still |-> Setting(0, "B", {}, {}, TRUE),
               first |-> Setting(0, "B", {}, {}, FALSE),
               failover |-> Setting(2, "B", {}, {"B"}, TRUE),
               blink |-> Setting(1, "B", {}, {"B"}, TRUE),
               faulty |-> Setting(1, "B", {}, {}, FALSE),
               minority |-> Setting(0, "A", {"B"}, {"B"}, FALSE)]

MCPairs == ({"gateways", "leaving", "inwards", "member", "exits", "looping", "guarded", "groups", "safe"} \X {"still"})
           \cup {<<"lazy", "first">>, <<"told", "failover">>, <<"toldAgain", "blink">>,
                 <<"start", "faulty">>, <<"start", "minority">>}
=============================================================================
