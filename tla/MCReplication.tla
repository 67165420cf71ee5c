--------------------------- MODULE MCReplication ---------------------------
(* Three replicas in small environments. *)
EXTENDS Replication, TLC

CONSTANTS r1, r2, r3

Three == {r1, r2, r3}
Symmetric == Permutations({r1, r3})

(* The link between r1 and r3 is down, so that r2 is in every majority. *)
Chain == {<<r1, r2>>, <<r3, r2>>}

Calm(ks, len, ts) ==
    [links |-> Chain, keys |-> ks, log |-> len, terms |-> ts, may |-> [f \in Faults |-> 0]]
Once(e, S) == [e EXCEPT !.may = [f \in Faults |-> IF f \in S THEN 1 ELSE 0]]

(* A leader or a follower restarts around an election. *)
Elections == {Once(Calm({"k1"}, 3, 2), {"crash"})}

(* Registration and revocation with a restart, or with a broken connection. *)
Revocations == {Once(Calm({"k1"}, 4, 1), {"revoke", "crash"}), Once(Calm({"k1"}, 3, 1), {"revoke", "break"})}

(* A follower catches up from a snapshot and gets its configuration back; a replica restarts    *)
(* with a purged log.                                                                           *)
Snapshots == {Once(Calm({"k1", "k2"}, 3, 1), {"snapshot", "reload"}), Once(Calm({"k1"}, 3, 1), {"snapshot", "crash"})}

(* A call is given up under one leader. *)
Slow == {Once(Calm({"k1"}, 2, 1), {"timeout"})}

(* A state file cannot be written; the replica is restarted, or the others go on. *)
Failures == {Once(Calm({"k1"}, 3, 1), {"store", "crash"}), Once(Calm({"k1"}, 3, 2), {"store"}),
             Once(Calm({"k1"}, 3, 1), {"store", "snapshot"})}

Passing == Elections \cup Revocations \cup Snapshots \cup Slow \cup Failures

(* A call is given up before an election. *)
Timeouts == {Once(Calm({"k1"}, 3, 2), {"timeout"})}
=============================================================================
