------------------------------ MODULE RouteReport ------------------------------
(***************************************************************************)
(* Routes learned over BGP, from the dn42 leg of one node to the route     *)
(* tables of all others: the leg's events (pump_dn42), the debounced       *)
(* report (RouteReporter), the RouteSync message, the coordinator's route  *)
(* map with its three gates (RouteMapService), the push that rides on a    *)
(* heartbeat and the rebuild of the DynDn42 routes at the consumer.        *)
(*                                                                         *)
(* A control connection is a pair of FIFO streams.  A node writes as soon  *)
(* as it is connected, before it is registered; what is in flight when the *)
(* connection ends is lost.                                                *)
(*                                                                         *)
(* Abstractions.  A prefix is a number.  The next hop is left out: it is   *)
(* stored and forwarded, and no code reads it.  The 5 s window of the      *)
(* reporter is open exactly while something is pending, so a flush may     *)
(* come at any moment after a change.                                      *)
(***************************************************************************)
EXTENDS Integers, Sequences, FiniteSets

CONSTANTS
    Nodes,          \* node ids
    Peers,          \* names of BGP peers
    NumPrefixes,    \* prefixes are 1..NumPrefixes
    MaxPerNode,     \* ROUTE_MAP_MAX_PER_NODE
    FlapWindow,     \* FLAP_WINDOW_SECS
    FlapLimit,      \* FLAP_LIMIT
    LeaseExpiry,    \* LEASE_EXPIRY_SECS
    Environments,   \* what may happen, see Environment
    MaxQueue        \* bound on heartbeat answers in flight to one node

Prefixes == 1..NumPrefixes

\* legs: the BGP peers of each node
\* coverage: the prefixes that the routes a node registered cover
\* joined: do the nodes start registered, before any BGP session is up?
\* faults: which of them may happen
\* changes, upsets, time: bounds on BGP events, on faults and on the clock
Environment ==
    [legs : [Nodes -> SUBSET Peers], coverage : [Nodes -> SUBSET Prefixes], joined : BOOLEAN,
     faults : SUBSET {"link", "restart", "coordinator", "revoke", "lease"},
     changes : Nat, upsets : Nat, time : Nat]

ASSUME ReportConstants ==
    /\ Nodes \subseteq Nat /\ IsFiniteSet(Nodes)
    /\ {"none", "withdraw"} \cap Peers = {}
    /\ NumPrefixes \in Nat /\ MaxPerNode \in Nat /\ FlapWindow \in Nat
    /\ FlapLimit \in Nat /\ LeaseExpiry \in Nat \ {0} /\ MaxQueue \in Nat
    /\ Environments \subseteq Environment

VARIABLES
    env,        \* the environment of this behaviour, fixed
    via,        \* RouteEngine, Dn42 entries: prefix -> suppliers, oldest first
    pending,    \* RouteReporter.pending: "none", "withdraw" or the announcing peer
    reported,   \* RouteReporter.reported: "none" or the peer it is attributed to
    link,       \* control connection: "down", "joining" (unregistered) or "up"
    syncs,      \* RouteSync messages in flight to the coordinator
    pushes,     \* heartbeat answers in flight to the node
    dyn,        \* RouteEngine, DynDn42 entries: <<prefix, node>>
    lease,      \* Node.lease_expires_at, -1 when unknown
    members,    \* nodes in the registry
    seen,       \* Liveness.last_seen, -1 when absent
    offline,    \* Liveness.offline
    map,        \* RouteMapService: entries, count, flaps, damped, version
    pushed,     \* route_map_pushed, -1 when absent
    refused,    \* history: announcements the gates turned away, until a later one passes
    now,        \* unix_seconds()
    changes, upsets

nodeVars == <<via, pending, reported, dyn, lease>>
wireVars == <<link, syncs, pushes>>
coordVars == <<members, seen, offline, map, pushed, refused>>
budgets == <<now, changes, upsets>>
vars == <<env, nodeVars, wireVars, coordVars, budgets>>

Keys == Prefixes \X Nodes
EmptyMap ==
    [entries |-> {}, count |-> [n \in Nodes |-> 0], flaps |-> [k \in Keys |-> <<>>],
     damped |-> [k \in Keys |-> 0], version |-> 0]

Nothing == [p \in Prefixes |-> "none"]

Init ==
    /\ env \in Environments
    /\ via = [n \in Nodes |-> [p \in Prefixes |-> <<>>]]
    /\ pending = [n \in Nodes |-> Nothing]
    /\ reported = [n \in Nodes |-> Nothing]
    /\ link = [n \in Nodes |-> IF env.joined THEN "up" ELSE "down"]
    /\ syncs = [n \in Nodes |-> <<>>] /\ pushes = [n \in Nodes |-> <<>>]
    /\ dyn = [n \in Nodes |-> {}] /\ lease = [n \in Nodes |-> -1]
    /\ members = Nodes /\ offline = {}
    /\ seen = [n \in Nodes |-> IF env.joined THEN 0 ELSE -1]
    /\ pushed = [n \in Nodes |-> -1]
    /\ map = EmptyMap /\ refused = {}
    /\ now = 0 /\ changes = env.changes /\ upsets = env.upsets

-----------------------------------------------------------------------------
(* The route map service. *)

\* flip: the timestamps within the window, this one included.
Flipped(M, k, t) ==
    Append(SelectSeq(M.flaps[k], LAMBDA x : t - x <= FlapWindow), t)

Damped(M, k, t) == t < M.damped[k]

\* apply_sync, one announced prefix: damping, coverage, limit, then the flip that may
\* start the damping.  A refreshed entry is no flip.
Announced(M, k, t) ==
    LET new == k \notin M.entries
        fs == Flipped(M, k, t)
    IN
    IF Damped(M, k, t) \/ k[1] \notin env.coverage[k[2]] THEN M
    ELSE IF ~new \/ M.count[k[2]] >= MaxPerNode THEN M
    ELSE IF Len(fs) >= FlapLimit
         THEN [entries |-> M.entries, count |-> M.count, flaps |-> [M.flaps EXCEPT ![k] = fs],
               damped |-> [M.damped EXCEPT ![k] = t + FlapWindow], version |-> M.version]
         ELSE [entries |-> M.entries \cup {k}, count |-> [M.count EXCEPT ![k[2]] = @ + 1],
               flaps |-> [M.flaps EXCEPT ![k] = fs], damped |-> M.damped, version |-> M.version]

\* apply_sync, one withdrawn prefix: the flip that starts the damping still removes.
Withdrawn(M, k, t) ==
    LET fs == Flipped(M, k, t) IN
    IF Damped(M, k, t) \/ k \notin M.entries THEN M
    ELSE [entries |-> M.entries \ {k}, count |-> [M.count EXCEPT ![k[2]] = @ - 1],
          flaps |-> [M.flaps EXCEPT ![k] = fs],
          damped |-> [M.damped EXCEPT ![k] = IF Len(fs) >= FlapLimit THEN t + FlapWindow ELSE @],
          version |-> M.version]

Bumped(old, new) ==
    [entries |-> new.entries, count |-> new.count, flaps |-> new.flaps, damped |-> new.damped,
     version |-> IF new.entries # old.entries THEN new.version + 1 ELSE new.version]

\* The three gates run over the prefixes in their order, announcements first.
apply_sync(M, n, sync, t) ==
    LET A[i \in 0..NumPrefixes] ==
            IF i = 0 THEN M
            ELSE IF i \in sync.announced THEN Announced(A[i - 1], <<i, n>>, t) ELSE A[i - 1]
        W[i \in 0..NumPrefixes] ==
            IF i = 0 THEN A[NumPrefixes]
            ELSE IF i \in sync.withdrawn THEN Withdrawn(W[i - 1], <<i, n>>, t) ELSE W[i - 1]
    IN Bumped(M, W[NumPrefixes])

\* withdraw_node for every node of S.  All of it is conditional on a change: a node
\* with no entry keeps its flip history and its damping.
withdraw_nodes(M, S) ==
    LET hit == {n \in S : \E k \in M.entries : k[2] = n} IN
    [entries |-> {k \in M.entries : k[2] \notin hit},
     count |-> [n \in Nodes |-> IF n \in hit THEN 0 ELSE M.count[n]],
     flaps |-> [k \in Keys |-> IF k[2] \in hit THEN <<>> ELSE M.flaps[k]],
     damped |-> [k \in Keys |-> IF k[2] \in hit THEN 0 ELSE M.damped[k]],
     version |-> M.version + Cardinality(hit)]

-----------------------------------------------------------------------------
(* The node that learns: pump_dn42 and RouteReporter. *)

Supplied(n) == {p \in Prefixes : via[n][p] # <<>>}

\* What a leg's event makes of the pending changes: the latest change of a prefix wins,
\* and the end of a session withdraws what is attributed to the peer unless a change of
\* it is pending.
learned(changed, p, l) == [changed EXCEPT ![p] = l]
withdrawn(changed, p) == [changed EXCEPT ![p] = "withdraw"]
session_down(changed, rep, l) ==
    [p \in Prefixes |-> IF rep[p] = l /\ changed[p] = "none" THEN "withdraw" ELSE changed[p]]

\* RouteChange::Learned, also for a path that replaces an older one of the peer.
Learned(n, l, p) ==
    /\ changes > 0 /\ l \in env.legs[n]
    /\ via' = [via EXCEPT ![n][p] = IF \E i \in DOMAIN @ : @[i] = l THEN @ ELSE Append(@, l)]
    /\ pending' = [pending EXCEPT ![n] = learned(@, p, l)]
    /\ changes' = changes - 1
    /\ UNCHANGED <<env, reported, dyn, lease, wireVars, coordVars, now, upsets>>

\* A supplier is listed once.
Without(s, l) ==
    IF \E i \in DOMAIN s : s[i] = l
    THEN LET i == CHOOSE i \in DOMAIN s : s[i] = l IN SubSeq(s, 1, i - 1) \o SubSeq(s, i + 1, Len(s))
    ELSE s

\* RouteChange::Withdrawn
RouteWithdrawn(n, l, p) ==
    /\ changes > 0 /\ \E i \in DOMAIN via[n][p] : via[n][p][i] = l
    /\ via' = [via EXCEPT ![n][p] = Without(@, l)]
    /\ pending' = [pending EXCEPT ![n] = withdrawn(@, p)]
    /\ changes' = changes - 1
    /\ UNCHANGED <<env, reported, dyn, lease, wireVars, coordVars, now, upsets>>

\* Faulty variant of SessionDown: a pending announcement of the peer survives it.
SessionDownKeeps(n, l) ==
    /\ changes > 0 /\ \E p \in Prefixes : \E i \in DOMAIN via[n][p] : via[n][p][i] = l
    /\ via' = [via EXCEPT ![n] = [p \in Prefixes |-> Without(@[p], l)]]
    /\ pending' = [pending EXCEPT ![n] = session_down(@, reported[n], l)]
    /\ changes' = changes - 1
    /\ UNCHANGED <<env, reported, dyn, lease, wireVars, coordVars, now, upsets>>

\* The end of a BGP session: the withdrawals of purge_peer, then SessionDown, which
\* removes the peer's routes and withdraws what is attributed to it.
SessionDown(n, l) ==
    LET supplies == {p \in Prefixes : \E i \in DOMAIN via[n][p] : via[n][p][i] = l} IN
    /\ changes > 0
    /\ supplies # {} \/ \E p \in Prefixes : reported[n][p] = l
    /\ via' = [via EXCEPT ![n] = [p \in Prefixes |-> Without(@[p], l)]]
    /\ pending' = [pending EXCEPT ![n] =
           session_down([p \in Prefixes |-> IF p \in supplies THEN "withdraw" ELSE @[p]], reported[n], l)]
    /\ changes' = changes - 1
    /\ UNCHANGED <<env, reported, dyn, lease, wireVars, coordVars, now, upsets>>

\* The lease watchdog runs before everything else in pump_timers.
Expired(n) == lease[n] # -1 /\ now > lease[n]

\* flush: what is reported, what is announced and what is withdrawn.  A withdrawal of a
\* prefix that another peer supplies is dropped; only the attribution moves.
flush(n) ==
    LET told == {p \in Prefixes : pending[n][p] \in Peers}
        gone == {p \in Prefixes : pending[n][p] = "withdraw"} \ Supplied(n)
        kept == {p \in Supplied(n) : pending[n][p] = "withdraw" /\ reported[n][p] # "none"}
    IN  [announced |-> told, withdrawn |-> gone,
         reported |-> [p \in Prefixes |->
                          CASE p \in told -> pending[n][p]
                            [] p \in gone -> "none"
                            [] p \in kept -> Head(via[n][p])
                            [] OTHER -> reported[n][p]]]

\* The send that follows flush.  Nothing is flushed while there is no connection.
Sent(n, f) ==
    /\ pending' = [pending EXCEPT ![n] = Nothing]
    /\ reported' = [reported EXCEPT ![n] = f.reported]
    /\ syncs' = IF f.announced \cup f.withdrawn = {} THEN syncs
                ELSE [syncs EXCEPT ![n] = Append(@, [announced |-> f.announced, withdrawn |-> f.withdrawn])]
    /\ UNCHANGED <<env, via, dyn, lease, link, pushes, coordVars, budgets>>

\* Faulty variant of Flush: only a learned route opens the window.
FlushOnLearned(n) ==
    /\ link[n] # "down" /\ ~Expired(n) /\ flush(n).announced # {}
    /\ Sent(n, flush(n))

Flush(n) ==
    /\ link[n] # "down" /\ ~Expired(n) /\ pending[n] # Nothing
    /\ Sent(n, flush(n))

-----------------------------------------------------------------------------
(* The control connection. *)

Connect(n) ==
    /\ link[n] = "down"
    /\ link' = [link EXCEPT ![n] = "joining"]
    /\ lease' = [lease EXCEPT ![n] = -1]
    /\ UNCHANGED <<env, via, pending, reported, dyn, syncs, pushes, coordVars, budgets>>

\* What is in flight on a connection that ends is lost, and so is the lease.
Cut(S) ==
    /\ link' = [n \in Nodes |-> IF n \in S THEN "down" ELSE link[n]]
    /\ syncs' = [n \in Nodes |-> IF n \in S THEN <<>> ELSE syncs[n]]
    /\ pushes' = [n \in Nodes |-> IF n \in S THEN <<>> ELSE pushes[n]]

\* Coordinator::heartbeat: the lease of n is renewed, lapsed nodes go offline and lose
\* their routes.
Lapsed(n) ==
    {m \in members \ (offline \cup {n}) : seen[m] # -1 /\ now - seen[m] > LeaseExpiry}
Beat(n) ==
    /\ seen' = [seen EXCEPT ![n] = now]
    /\ offline' = (offline \ {n}) \cup Lapsed(n)
    /\ map' = withdraw_nodes(map, Lapsed(n))

Forgotten(n) == [m \in Nodes |-> IF m \in Lapsed(n) THEN -1 ELSE pushed[m]]

\* Every reported prefix is pending again, whatever was pending for it.
resync_on_registered(n) ==
    [p \in Prefixes |-> IF reported[n][p] # "none" THEN reported[n][p] ELSE pending[n][p]]

\* The challenge is answered.  A report written after the answer to the challenge is
\* still in flight and valid; one written before it ends in RouteSync.  The coordinator counts a heartbeat and pushes the netmap,
\* the node handles Registered.
Register(n) ==
    /\ link[n] = "joining" /\ n \in members
    /\ link' = [link EXCEPT ![n] = "up"]
    /\ Beat(n)
    /\ pushed' = Forgotten(n)
    /\ pushes' = [pushes EXCEPT ![n] =
           Append(@, [alive |-> members \ offline', full |-> FALSE, entries |-> {}, lease |-> -1])]
    /\ pending' = [pending EXCEPT ![n] = resync_on_registered(n)]
    /\ UNCHANGED <<env, via, reported, dyn, lease, syncs, members, refused, budgets>>

\* A node that is no longer registered has no domain: nothing happens.
apply_route_sync(n, sync) == IF n \in members THEN apply_sync(map, n, sync, now) ELSE map

\* ROUTE_SYNC.  Before registration it is an error that ends the connection.
RouteSync(n) ==
    LET sync == Head(syncs[n])
        keys(S) == {<<p, n>> : p \in S}
    IN
    /\ syncs[n] # <<>>
    /\ \/ /\ link[n] = "joining"
          /\ Cut({n})
          /\ UNCHANGED <<nodeVars, coordVars>>
       \/ /\ link[n] = "up"
          /\ syncs' = [syncs EXCEPT ![n] = Tail(@)]
          /\ map' = apply_route_sync(n, sync)
          /\ refused' = (refused \cup keys(sync.announced)) \ (map'.entries \cup keys(sync.withdrawn))
          /\ UNCHANGED <<nodeVars, link, pushes, members, seen, offline, pushed>>
    /\ UNCHANGED <<env, budgets>>

\* take_route_map_push: what the cursors let go to n, and where they stand after it.
take_route_map_push(n, cursors, M) ==
    [some |-> n \in members /\ cursors[n] # M.version,
     cursors |-> IF n \in members THEN [cursors EXCEPT ![n] = M.version] ELSE cursors]

\* HEARTBEAT and its answer: netmap, route map if its version is not the one pushed
\* last, lease.  The cursor moves before the answer is written.
Heartbeat(n) ==
    /\ link[n] = "up" /\ ~Expired(n) /\ Len(pushes[n]) < MaxQueue
    /\ Beat(n)
    /\ pushed' = take_route_map_push(n, Forgotten(n), map').cursors
    /\ pushes' = [pushes EXCEPT ![n] =
           Append(@, [alive |-> members \ offline',
                      full |-> take_route_map_push(n, Forgotten(n), map').some,
                      entries |-> map'.entries, lease |-> now + LeaseExpiry])]
    /\ UNCHANGED <<env, nodeVars, link, syncs, members, refused, budgets>>

\* Faulty variant of Rebuilt: the new table is added to the old one.
RebuiltOnTop(n, m) ==
    LET kept == {k \in dyn[n] : k[2] \in m.alive} IN
    IF m.full THEN kept \cup {k \in m.entries : k[2] # n} ELSE kept

\* apply_netmap drops the routes over nodes that are offline or gone; a route map
\* replaces all of them but skips the node's own.
Rebuilt(n, m) ==
    LET kept == {k \in dyn[n] : k[2] \in m.alive} IN
    IF m.full THEN {k \in m.entries : k[2] # n} ELSE kept

Deliver(n) ==
    /\ pushes[n] # <<>>
    /\ dyn' = [dyn EXCEPT ![n] = Rebuilt(n, Head(pushes[n]))]
    /\ lease' = IF Head(pushes[n]).lease = -1 THEN lease
                ELSE [lease EXCEPT ![n] = Head(pushes[n]).lease]
    /\ pushes' = [pushes EXCEPT ![n] = Tail(@)]
    /\ UNCHANGED <<env, via, pending, reported, link, syncs, coordVars, budgets>>

\* The node gives up a control session whose lease ran out.
Watchdog(n) ==
    /\ link[n] # "down" /\ Expired(n)
    /\ Cut({n})
    /\ lease' = [lease EXCEPT ![n] = -1]
    /\ UNCHANGED <<env, via, pending, reported, dyn, coordVars, budgets>>

-----------------------------------------------------------------------------
(* Faults and time. *)

Upset(f) == f \in env.faults /\ upsets > 0 /\ upsets' = upsets - 1

LinkLost(n) ==
    /\ Upset("link") /\ link[n] # "down"
    /\ Cut({n})
    /\ UNCHANGED <<env, nodeVars, coordVars, now, changes>>

\* Everything of the node is in memory; its BGP sessions start over.
NodeRestart(n) ==
    /\ Upset("restart")
    /\ Cut({n})
    /\ via' = [via EXCEPT ![n] = [p \in Prefixes |-> <<>>]]
    /\ pending' = [pending EXCEPT ![n] = Nothing]
    /\ reported' = [reported EXCEPT ![n] = Nothing]
    /\ dyn' = [dyn EXCEPT ![n] = {}]
    /\ lease' = [lease EXCEPT ![n] = -1]
    /\ UNCHANGED <<env, coordVars, now, changes>>

\* The registry is persistent; liveness, route map and cursors are not.
CoordinatorRestart ==
    /\ Upset("coordinator")
    /\ Cut(Nodes)
    /\ seen' = [n \in Nodes |-> -1] /\ offline' = {}
    /\ map' = EmptyMap /\ pushed' = [n \in Nodes |-> -1]
    /\ refused' = {}
    /\ UNCHANGED <<env, nodeVars, members, now, changes>>

\* Coordinator::revoke, as far as routes are concerned.
Revoke(n) ==
    /\ Upset("revoke") /\ n \in members
    /\ members' = members \ {n}
    /\ seen' = [seen EXCEPT ![n] = -1] /\ offline' = offline \ {n}
    /\ map' = withdraw_nodes(map, {n})
    /\ pushed' = [m \in Nodes |-> -1]
    /\ UNCHANGED <<env, nodeVars, wireVars, refused, now, changes>>

\* Without the fault "lease", heartbeats are answered within a unit of time.
Tick ==
    /\ now < env.time
    /\ "lease" \in env.faults \/ \A n \in Nodes : seen[n] = now /\ pushes[n] = <<>>
    /\ now' = now + 1
    /\ UNCHANGED <<env, nodeVars, wireVars, coordVars, changes, upsets>>

BgpEvent(n) ==
    \E l \in Peers :
        \/ \E p \in Prefixes : Learned(n, l, p) \/ RouteWithdrawn(n, l, p)
        \/ SessionDown(n, l)

Next ==
    \/ \E n \in Nodes :
        \/ BgpEvent(n) \/ Flush(n) \/ Connect(n) \/ Register(n) \/ RouteSync(n)
        \/ Heartbeat(n) \/ Deliver(n) \/ Watchdog(n)
        \/ LinkLost(n) \/ NodeRestart(n) \/ Revoke(n)
    \/ CoordinatorRestart
    \/ Tick

\* The timers of a node and the connection tasks of the coordinator keep running.
Fairness ==
    \A n \in Nodes :
        /\ WF_vars(Flush(n)) /\ WF_vars(Connect(n)) /\ WF_vars(Register(n))
        /\ WF_vars(RouteSync(n)) /\ WF_vars(Heartbeat(n)) /\ WF_vars(Deliver(n))
        /\ WF_vars(Watchdog(n))

Spec == Init /\ [][Next]_vars
FairSpec == Spec /\ Fairness

-----------------------------------------------------------------------------
(* Properties *)

EntriesOf(n) == {p \in Prefixes : <<p, n>> \in map.entries}

\* Everything the node had to say was sent and processed.
Settled(n) == link[n] = "up" /\ n \in members /\ pending[n] = Nothing /\ syncs[n] = <<>>

\* Nothing breaks, and the nodes were registered before the first BGP event.
Calm == env.faults = {} /\ env.joined

\* In the calm a settled node has no entry for a prefix that none of its BGP peers
\* announces: no black hole (route_report.rs, flush and session_down).
NoPhantom ==
    Calm => \A n \in Nodes : Settled(n) => EntriesOf(n) \subseteq Supplied(n)

\* A node whose connection never broke, and whose cursor says that it has the current
\* version, has the current routes over all other nodes once the answers have arrived
\* (take_route_map_push, the RouteMap event).
CursorHonest ==
    env.faults \subseteq {"coordinator", "revoke"} =>
        \A n \in members :
            pushed[n] = map.version /\ pushes[n] = <<>> =>
                dyn[n] = {k \in map.entries : k[2] # n}

\* In the calm, and with one BGP peer, what the peer announces in the end is what
\* every other node routes to the learning node in the end, gates excepted.
Settles ==
    Calm /\ (\A n \in Nodes : Cardinality(env.legs[n]) <= 1) =>
        <>[](\A n \in Nodes : \A m \in Nodes \ {n} : \A p \in Prefixes :
                 /\ <<p, m>> \in dyn[n] => p \in Supplied(m)
                 /\ p \in Supplied(m) => <<p, m>> \in dyn[n] \cup refused)
=============================================================================
