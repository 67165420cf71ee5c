------------------------------ MODULE Membership ------------------------------
(***************************************************************************)
(* What the coordinator promises about the membership of its networks,      *)
(* whatever the handlers, crashes and restarts behind it: a member is a     *)
(* node id bound to one network and one public key, ids are handed out once *)
(* and a revoked id never comes back.                                      *)
(***************************************************************************)
CONSTANTS
    Identity      \* the bindings a member may have: records [id, net, pub]

VARIABLES
    members,      \* the bindings in force
    gone          \* ids that were revoked

mvars == <<members, gone>>

MInit == members = {} /\ gone = {}

\* A fresh id is bound to a public key that is not yet a member of the network.
Join(m) ==
    /\ m.id \notin gone
    /\ \A x \in members : x.id # m.id /\ ~(x.net = m.net /\ x.pub = m.pub)
    /\ members' = members \cup {m}
    /\ UNCHANGED gone

\* A member leaves for good.
Leave(m) ==
    /\ members' = members \ {m}
    /\ gone' = gone \cup {m.id}

MNext == \/ \E m \in Identity : Join(m)
         \/ \E m \in members : Leave(m)

MSpec == MInit /\ [][MNext]_mvars
=============================================================================
