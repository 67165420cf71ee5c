------------------------------ MODULE MCPaths ------------------------------
EXTENDS Paths

May1(S) == [f \in Faults |-> IF f \in S THEN 1 ELSE 0]

(* Node 3 has a public address, node 4 is listed by name; the other file excludes node 3. *)
Usual == [max |-> 1, include |-> {4}, exclude |-> {}]
Without3 == [max |-> 1, include |-> {4}, exclude |-> {3}]
Files == {Usual, Without3}

Three(followed, may) == [members |-> {1, 2, 3}, measured |-> {3}, followed |-> followed,
                         relay |-> Usual, may |-> may]
Four(followed, may) == [members |-> {1, 2, 3, 4}, measured |-> {3, 4}, followed |-> followed,
                        relay |-> Usual, may |-> may]

(* Rosters come and go, seen by source and destination, and by a relay that is a source as      *)
(* well.  With four nodes there are more relays than candidates.                                *)
Rosters == {Four({1, 2}, May1({"change"})), Three({1, 3}, May1({"change"})),
            Three({1}, [May1({}) EXCEPT !["change"] = 3])}

(* A revocation while rosters are proposed, connections break, the coordinator stops. *)
Revocations == {Four({1}, May1({"revoke", "change"})), Three({1}, May1({"revoke", "break"})),
                Three({1, 2}, May1({"revoke", "crash"})), Three({1}, [May1({"crash"}) EXCEPT !["change"] = 2])}

(* Sets expire, a node restarts, the configuration is loaded again. *)
Expiry == {Three({1}, [May1({"restart", "reload"}) EXCEPT !["tick"] = 2]),
           Three({1, 2}, [May1({"restart"}) EXCEPT !["tick"] = 2])}

All == Rosters \cup Revocations \cup Expiry
=============================================================================
