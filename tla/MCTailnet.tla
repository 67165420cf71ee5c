----------------------------- MODULE MCTailnet -----------------------------
EXTENDS Tailnet

StaticRoutes == [c \in Legs |-> IF c = 1 THEN {"lan"} ELSE {"exit"}]
MeshRoutes == [c \in Legs |-> IF c = 1 THEN {"mesh", "other"} ELSE {}]

Times(m) == [f \in Faults |-> IF f \in DOMAIN m THEN m[f] ELSE 0]
E(settled, cap, m) == [runs |-> Legs, settled |-> settled, cap |-> cap, may |-> Times(m), linger |-> 1]
E0(settled, cap, m) == [E(settled, cap, m) EXCEPT !.linger = 0]
Alone(m) == [E({}, 1, m) EXCEPT !.runs = {1}]

Never == [x \in {} |-> 0]
All ==
    {E({}, 2, Never), E({1}, 2, [poke |-> 1]), E({2}, 2, [poke |-> 1]),
     E({1, 2}, 2, [break |-> 1, poke |-> 1]), E({1, 2}, 2, [restart |-> 1]), E({1, 2}, 2, [derp |-> 1]),
     E({1, 2}, 1, [evict |-> 1, break |-> 1]),
     E0({1, 2}, 1, [break |-> 1, poke |-> 1]), E0({1, 2}, 2, [restart |-> 1, poke |-> 1]),
     E0({1, 2}, 2, [derp |-> 2]), E0({1}, 2, [refuse |-> 1, derp |-> 1]),
     E0({1}, 1, [evict |-> 1, poke |-> 1]), E0({1, 2}, 2, [wipe |-> 1]),
     Alone([break |-> 1, wipe |-> 1, poke |-> 1]), Alone([wipe |-> 2, derp |-> 1])}
=============================================================================
