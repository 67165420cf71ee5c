---------------------------- MODULE MCCoordinator ----------------------------
(***************************************************************************)
(* Small instances of Coordinator.  Auth keys are records so that network   *)
(* and expiry are read off the key, as the code parses them out of it.      *)
(* One unit of time is 30 seconds.                                          *)
(***************************************************************************)
EXTENDS Coordinator, TLC

CONSTANTS p1, p2, c1, c2

OneNet == {1}
TwoNets == {1, 2}
TwoConns == {c1, c2}
TwoPubs == {p1, p2}
OnePub == {p1}

\* A one-time key and a reusable one that expires at 1.
Once == [name |-> "once", net |-> 1, expiry |-> 0]
Multi == [name |-> "multi", net |-> 1, expiry |-> 1]
OnceAndMulti == {Once, Multi}
OnlyOnce == {Once}
Lasting == [name |-> "lasting", net |-> 1, expiry |-> 0]
Other == [name |-> "other", net |-> 2, expiry |-> 0]
LastingAndOther == {Lasting, Other}
NoKeys == {}
NetOf == [k \in AuthKeys |-> k.net]
ExpiryOf == [k \in AuthKeys |-> k.expiry]

Wan == [acl |-> TRUE, route |-> "wan"]
WanAttr == {Wan}

Allow(r) == [n \in Nets |-> r]
AllKeys == [keys |-> AuthKeys, acl |-> {}, routes |-> Allow({"lan", "wan"})]
NoMulti == [keys |-> AuthKeys \ {Multi}, acl |-> {}, routes |-> Allow({"lan", "wan"})]
KeyConfigs == {AllKeys, NoMulti}
OneConfig == {AllKeys}

\* A state without the histories and the liveness table: no guard reads them.
Essential == <<procVars, registryVars, keyVars, endpoints, store, connVars>>

\* A state without the liveness table only.
WithHistories == <<Essential, issued, acked, revokedAt>>

Symmetric == Permutations({p1, p2}) \cup Permutations({c1, c2})
=============================================================================
