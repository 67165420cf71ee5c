---------------------------- MODULE MCDn42Session ----------------------------
(***************************************************************************)
(* A small instance of Dn42Session: prefix 3 is not admitted, the limit is *)
(* reached by prefixes 1 and 2 together.                                   *)
(***************************************************************************)
EXTENDS Dn42Session

Open(ok, h) == [type |-> "OPEN", acceptable |-> ok, hold |-> h]
Update(a, w) == [type |-> "UPDATE", announced |-> a, withdrawn |-> w]

Session ==
    {Open(TRUE, "long"), Open(TRUE, "none"),
     Update({1}, {}), Update({2, 3}, {1}), Update({1, 2}, {}), Update({}, {1, 2})}
    \cup [type : {"KEEPALIVE", "NOTIFICATION", "REFRESH"}]
AnyMessage == Session \cup {Open(FALSE, "long"), Open(TRUE, "short"), [type |-> "garbage"]}

SingleMessages == [batch |-> 1, udp |-> FALSE]
Bursts == [batch |-> 3, udp |-> FALSE]
UdpErrors == [batch |-> 1, udp |-> TRUE]
PassingEnvironments == {SingleMessages, Bursts, UdpErrors}
=============================================================================
