------------------------------- MODULE Paths -------------------------------
(* The path service of one network: path sets per (source, destination), the relay roster that  *)
(* feeds them, the events queued for every participant, their delivery with the heartbeat, and  *)
(* the path tables, forwarding entries and path keys that nodes build from them.                *)
(*                                                                                              *)
(* A candidate is its id, its hops and its expiry.  The epoch is always 1 and the version is    *)
(* never read, so both are left out.  A path set that does not exist is the empty sequence: the *)
(* code never stores an empty one.  Registration, leases and failing writes are in Coordinator. *)
EXTENDS Naturals, Sequences, FiniteSets, SequencesExt

CONSTANTS
    Nodes,          \* node ids
    Pathful,        \* nodes whose netmap entry says protocol version 2: paths to them are requested
    Capable,        \* nodes registered with the relay capability
    Budget,         \* max_candidates of a request, clamped to 2..4
    PendingMax,     \* PENDING_EVENTS_MAX
    RelayConfigs,   \* relay sections of configuration files: [max, include, exclude]
    Public,         \* nodes whose echoed address is one of their own (Directory.public_direct)
    ExitMisses,     \* RELAY_EXIT_MISS_ROUNDS
    Rtts,           \* round-trip times a probe may measure
    Ttl,            \* PATH_DEFAULT_TTL
    Environments    \* what operators, network and processes may do, see Env

ASSUME Constants ==
    /\ Nodes \subseteq Nat /\ Pathful \subseteq Nodes /\ Capable \subseteq Nodes
    /\ Public \subseteq Nodes
    /\ RelayConfigs \subseteq [max : Nat, include : SUBSET Nodes, exclude : SUBSET Nodes]
    /\ Budget \in 2..4 /\ PendingMax \in Nat \ {0}
    /\ ExitMisses \in Nat \ {0} /\ Rtts \subseteq Nat /\ Ttl \in Nat

VARIABLES
    env,        \* chosen once: registered nodes, relays with a measurement, nodes whose requests and
                \* messages are followed (a bound: receivers do not affect each other, sources share
                \* only ids and queues), and how often each fault may happen
    now,        \* unix time, in units of the instance
    members,    \* nodes with a registry entry
    seen,       \* nodes in Liveness.last_seen
    relayCfg,   \* NetworkDomain.relay_cfg
    probed,     \* probed_nodes of the round of probes under way, {} between rounds
    rtt,        \* NetworkDomain.relay_rtt: last measurement, 0 = none
    miss,       \* NetworkDomain.relay_miss
    proposal,   \* the roster, if any, that is proposed and not yet applied
    roster,     \* NetworkDomain.roster = PathService.relays
    map,        \* PathService.map
    seq,        \* PathService.seq
    pending,    \* PathService.pending
    store,      \* the durable part of the above
    up,         \* nodes with a registered control connection
    asks,       \* PATH_REQUESTs of a node that the coordinator has not handled
    node,       \* what a node made of the messages: pending_path_requests (wanted), netmap_peers
                \* (peers), path_table (table), forward_paths, ids of key_path_table (keys)
    used,       \* faults so far
    flaws       \* history: what a node missed ("overflow": a full queue; "loss": lost messages)

roundVars == <<relayCfg, probed, rtt, miss, proposal>>
serviceVars == <<roster, map, seq, pending, store>>
linkVars == <<up, asks>>
vars == <<env, now, members, seen, roundVars, serviceVars, linkVars, node, used, flaws>>

Pairs == {p \in Nodes \X Pathful : p[1] # p[2]}
Faults == {"tick", "revoke", "change", "reload", "break", "crash", "restart"}
Env == [members : SUBSET Nodes, measured : SUBSET Nodes, followed : SUBSET Nodes,
        relay : RelayConfigs, may : [Faults -> Nat]]

May(fault) == used[fault] < env.may[fault]
Count(fault) == used' = [used EXCEPT ![fault] = @ + 1]

(* op applied along a sequence, from the left; singletons make each value be computed once. *)
Fold(op(_, _), base, elements) ==
    LET upto[i \in 0..Len(elements)] ==
            IF i = 0 THEN {base} ELSE {op(x, elements[i]) : x \in upto[i - 1]}
    IN  CHOOSE x \in upto[Len(elements)] : TRUE

----------------------------------------------------------------------------
(* The path service: operators on [map, seq, out], where out lists what is pushed to whom. *)

Hops(c) == Range(c.hops)
Expired(cs) == \A i \in DOMAIN cs : now > cs[i].exp
Relays(list, p) == SelectSeq(list, LAMBDA r : r \notin {p[1], p[2]})
First(cs, n) == SubSeq(cs, 1, IF Len(cs) < n THEN Len(cs) ELSE n)

Update(p, cs) == [kind |-> "update", source |-> p[1], dest |-> p[2], cands |-> cs]
Withdraw(p, c) == [kind |-> "withdraw", dest |-> p[2], id |-> c.id]
Netmap == [kind |-> "netmap", nodes |-> members]

push_to_participants(p, relays, cs) ==
    [to |-> {p[1], p[2]} \cup Range(relays), event |-> Update(p, cs)]

(* Faulty variant of push_withdraw: only the source learns of a withdrawal. *)
push_withdraw_source(p, c) == [to |-> {p[1]}, event |-> Withdraw(p, c)]

push_withdraw(p, c) == [to |-> {p[1], p[2]} \cup Hops(c), event |-> Withdraw(p, c)]

(* Relay candidates for the relays in list, numbered from id + 1. *)
Candidates(p, list, id) ==
    [i \in DOMAIN list |-> [id |-> id + i, hops |-> <<list[i], p[2]>>, exp |-> now + Ttl]]

Direct(p, id) == <<[id |-> id, hops |-> <<p[2]>>, exp |-> now + Ttl]>>

(* A live set is pushed again, an expired or missing one is built anew with new ids. *)
request(st, p) ==
    LET relays == Relays(roster, p)
        fresh == Direct(p, st.seq + 1) \o Candidates(p, First(relays, Budget - 1), st.seq + 1)
        set == IF Expired(st.map[p]) THEN fresh ELSE st.map[p]
    IN  [map |-> [st.map EXCEPT ![p] = set],
         seq |-> IF Expired(st.map[p]) THEN st.seq + Len(fresh) ELSE st.seq,
         out |-> Append(st.out, push_to_participants(p, relays, set))]

withdraw_relay_in_set(st, p, n) ==
    LET gone == SelectSeq(st.map[p], LAMBDA c : n \in Hops(c))
        left == SelectSeq(st.map[p], LAMBDA c : n \notin Hops(c))
        rest == UNION {Hops(left[i]) : i \in DOMAIN left} \cup {p[1], p[2]}
    IN  [map |-> [st.map EXCEPT ![p] = left],
         seq |-> st.seq,
         out |-> st.out \o [i \in DOMAIN gone |-> push_withdraw(p, gone[i])]
                        \o IF gone = <<>> \/ left = <<>> THEN <<>>
                           ELSE <<[to |-> rest, event |-> Update(p, left)]>>]

withdraw_set(st, p) ==
    [map |-> [st.map EXCEPT ![p] = <<>>],
     seq |-> st.seq,
     out |-> st.out \o [i \in DOMAIN st.map[p] |-> push_withdraw(p, st.map[p][i])]]

(* order: the iteration order of the HashMap. *)
withdraw_node(st, n, order) ==
    Fold(LAMBDA s, p : IF n \in {p[1], p[2]} THEN withdraw_set(s, p)
                           ELSE withdraw_relay_in_set(s, p, n), st, order)

withdraw_relay(st, n, order) ==
    Fold(LAMBDA s, p : withdraw_relay_in_set(s, p, n), st, order)

(* Faulty variant of expand_relay_candidates: every live set is built anew. *)
expand_anew(st, list, order) ==
    Fold(
        LAMBDA s, p :
            LET relays == Relays(list, p)
                set == s.map[p]
                via(r) == \E i \in DOMAIN set : set[i].hops[1] = r
                fresh == Direct(p, s.seq + 1) \o Candidates(p, First(relays, Budget - 1), s.seq + 1)
            IN  IF Expired(set) \/ \A r \in Range(relays) : via(r) THEN s
                ELSE [map |-> [s.map EXCEPT ![p] = fresh],
                      seq |-> s.seq + Len(fresh),
                      out |-> Append(s.out, push_to_participants(p, relays, fresh))],
        st, order)

(* Live sets that lack a relay of the roster: the direct path and the candidates over relays    *)
(* still listed are kept, missing relays are added within the budget.                           *)
expand_relay_candidates(st, list, order) ==
    Fold(
        LAMBDA s, p :
            LET relays == Relays(list, p)
                set == s.map[p]
                via(r) == \E i \in DOMAIN set : set[i].hops[1] = r
                direct == SelectSeq(set, LAMBDA c : Len(c.hops) = 1)
                base == IF direct = <<>> THEN Direct(p, s.seq + 1) ELSE direct
                id == IF direct = <<>> THEN s.seq + 1 ELSE s.seq
                kept == base \o SelectSeq(set, LAMBDA c : Len(c.hops) > 1
                                                          /\ c.hops[1] \in Range(relays))
                room == IF Len(kept) < Budget THEN Budget - Len(kept) ELSE 0
                added == Candidates(p, First(SelectSeq(relays, LAMBDA r : ~via(r)), room), id)
            IN  IF Expired(set) \/ \A r \in Range(relays) : via(r) THEN s
                ELSE [map |-> [s.map EXCEPT ![p] = kept \o added],
                      seq |-> id + Len(added),
                      out |-> Append(s.out, push_to_participants(p, relays, kept \o added))],
        st, order)

(* The events of out for node n, in order. *)
EventsFor(out, n) ==
    LET mine == SelectSeq(out, LAMBDA o : n \in o.to) IN [i \in DOMAIN mine |-> mine[i].event]

Queued(out, n) == pending[n] \o EventsFor(out, n)

(* Whatever does not fit into a queue is dropped. *)
push_event(out) ==
    /\ pending' = [n \in Nodes |-> IF n \in env.followed THEN First(Queued(out, n), PendingMax) ELSE <<>>]
    /\ flaws' = [n \in Nodes |-> IF n \in env.followed /\ Len(Queued(out, n)) > PendingMax
                                 THEN flaws[n] \cup {"overflow"} ELSE flaws[n]]

persist == store' = [members |-> members', roster |-> roster', map |-> map', seq |-> seq']

(* The outcome st of an operation becomes the state of the service. *)
Becomes(st) == /\ map' = st.map
               /\ seq' = st.seq
               /\ push_event(st.out)

Service == [map |-> map, seq |-> seq, out |-> <<>>]
Orders == SetToSeqs({p \in Pairs : map[p] # <<>>})

----------------------------------------------------------------------------
(* The coordinator. *)

(* The task that proposes a roster holds the server's lock until it is applied: no message and  *)
(* no reload is handled in between, only the administration endpoint takes no such lock.        *)
ServerFree == proposal = {}

(* CoordinatorServer, PATH_REQUEST: both ends must be registered; nothing is answered. *)
request_paths(n) ==
    /\ ServerFree /\ asks[n] # <<>>
    /\ asks' = [asks EXCEPT ![n] = Tail(@)]
    /\ IF {n, Head(asks[n])} \subseteq members
       THEN \E st \in {request(Service, <<n, Head(asks[n])>>)} : Becomes(st)
       ELSE UNCHANGED <<map, seq, pending, flaws>>
    /\ UNCHANGED <<members, roster>>
    /\ persist
    /\ UNCHANGED <<env, now, seen, roundVars, up, node, used>>

(* relay_probe_targets under the constraints cfg. *)
Targets(cfg) == (members \cap Capable) \ cfg.exclude
LastResult(n) == IF miss[n] = 0 THEN rtt[n] ELSE 0

(* Bound: misses beyond ExitMisses are not counted. *)
record_relay_rtt_round(results) ==
    /\ rtt' = [n \in Nodes |-> IF n \in probed /\ results[n] # 0 THEN results[n] ELSE rtt[n]]
    /\ miss' = [n \in Nodes |-> IF n \notin probed THEN miss[n]
                                ELSE IF results[n] # 0 THEN 0
                                ELSE IF miss[n] < ExitMisses THEN miss[n] + 1 ELSE miss[n]]

(* Nodes by round-trip time, then by id. *)
Ranked(S, time) ==
    SetToSortSeq(S, LAMBDA a, b : time[a] < time[b] \/ (time[a] = time[b] /\ a < b))

(* Faulty variant of propose_relay_roster: what was measured once stays fit. *)
propose_measured(cfg, time, misses, offline) ==
    LET fit == {n \in Targets(cfg) \ offline : time[n] # 0}
        auto == First(Ranked(fit \cap Public, time), cfg.max)
    IN  Ranked(Range(auto) \cup (fit \cap cfg.include), time)

propose_relay_roster(cfg, time, misses, offline) ==
    LET fit == {n \in Targets(cfg) \ offline : time[n] # 0 /\ misses[n] < ExitMisses}
        auto == First(Ranked(fit \cap Public, time), cfg.max)
    IN  Ranked(Range(auto) \cup (fit \cap cfg.include), time)

(* Nodes whose lease may have lapsed: a node is swept only if it was heard of. *)
Lapsable == (members \cap seen) \ up

(* A round of probes begins.  Without a target none does: the timer is only set again. *)
RoundBegins ==
    /\ ServerFree /\ probed = {}
    /\ Targets(relayCfg) # {}
    /\ probed' = Targets(relayCfg)
    /\ UNCHANGED <<env, now, members, seen, relayCfg, rtt, miss, proposal, serviceVars, linkVars,
                   node, used, flaws>>

(* It ends: answers of the nodes that were probed are recorded and a roster is proposed. *)
RoundEnds ==
    /\ ServerFree /\ probed # {}
    /\ \E results \in [probed -> Rtts \cup {0}], offline \in SUBSET Lapsable :
        /\ IF offline = {} /\ \A n \in probed : results[n] = LastResult(n)
           THEN UNCHANGED used
           ELSE May("change") /\ Count("change")
        /\ record_relay_rtt_round(results)
        /\ proposal' = {propose_relay_roster(relayCfg, rtt', miss', offline)}
    /\ probed' = {}
    /\ UNCHANGED <<env, now, members, seen, relayCfg, serviceVars, linkVars, node, flaws>>

(* SIGHUP: the new constraints take effect, and the roster is proposed from what was measured   *)
(* so far.                                                                                      *)
Reload(cfg) ==
    /\ ServerFree /\ May("reload") /\ Count("reload")
    /\ relayCfg' = cfg
    /\ \E offline \in SUBSET Lapsable : proposal' = {propose_relay_roster(cfg, rtt, miss, offline)}
    /\ UNCHANGED <<env, now, members, seen, probed, rtt, miss, serviceVars, linkVars, node, flaws>>

(* Relays that leave the roster are withdrawn, then live sets are completed from the new one. *)
apply_relay_roster ==
    /\ \E list \in proposal, order \in Orders :
       \E cut \in {Fold(LAMBDA s, n : withdraw_relay(s, n, order), Service,
                            SelectSeq(roster, LAMBDA r : r \notin Range(list)))} :
       \E st \in {expand_relay_candidates(cut, list, order)} :
        /\ roster' = list
        /\ Becomes(st)
    /\ proposal' = {}
    /\ UNCHANGED members
    /\ persist
    /\ UNCHANGED <<env, now, seen, relayCfg, probed, rtt, miss, linkVars, node, used>>

(* Coordinator::revoke, the part that concerns paths. *)
revoke(n) ==
    /\ n \in members /\ May("revoke") /\ Count("revoke")
    /\ members' = members \ {n}
    /\ seen' = seen \ {n}
    /\ \E order \in Orders : \E st \in {withdraw_node(Service, n, order)} : Becomes(st)
    /\ roster' = SelectSeq(roster, LAMBDA r : r # n)
    /\ persist
    /\ UNCHANGED <<env, now, roundVars, linkVars, node>>

(* Faulty variant of Crash: the id counter is not restored. *)
CrashForgetsSeq ==
    /\ May("crash") /\ Count("crash")
    /\ members' = store.members
    /\ roster' = store.roster
    /\ map' = store.map
    /\ seq' = 0
    /\ pending' = [n \in Nodes |-> <<>>]
    /\ rtt' = [n \in Nodes |-> 0] /\ miss' = [n \in Nodes |-> 0] /\ proposal' = {} /\ probed' = {}
    /\ up' = up \ env.followed
    /\ seen' = up'
    /\ asks' = [n \in Nodes |-> <<>>]
    /\ flaws' = [n \in Nodes |-> flaws[n] \cup {"loss"}]
    /\ UNCHANGED <<env, now, relayCfg, store, node>>

(* The process stops and starts from its store: queues, measurements and connections are gone. *)
Crash ==
    /\ May("crash") /\ Count("crash")
    /\ members' = store.members
    /\ roster' = store.roster
    /\ map' = store.map
    /\ seq' = store.seq
    /\ pending' = [n \in Nodes |-> <<>>]
    /\ rtt' = [n \in Nodes |-> 0] /\ miss' = [n \in Nodes |-> 0] /\ proposal' = {} /\ probed' = {}
    /\ up' = up \ env.followed
    /\ seen' = up'
    /\ asks' = [n \in Nodes |-> <<>>]
    /\ flaws' = [n \in Nodes |-> flaws[n] \cup {"loss"}]
    /\ UNCHANGED <<env, now, relayCfg, store, node>>

Tick == /\ May("tick") /\ Count("tick")
        /\ now' = now + 1
        /\ UNCHANGED <<env, members, seen, roundVars, serviceVars, linkVars, node, flaws>>

----------------------------------------------------------------------------
(* The node. *)

Ids(cs) == {cs[i].id : i \in DOMAIN cs}

(* Faulty variant of apply_netmap: paths are requested when a peer is first seen only. *)
apply_netmap_once(nd, n, m) ==
    LET fresh == m.nodes \ {n}
        stale == nd.peers \ fresh
    IN  [wanted |-> nd.wanted \cup ((fresh \ nd.peers) \cap Pathful),
         peers |-> fresh,
         table |-> [d \in Nodes |-> IF d \in stale THEN <<>> ELSE nd.table[d]],
         forward |-> nd.forward,
         keys |-> nd.keys \ UNION {Ids(nd.table[d]) : d \in stale}]

(* Peers that left the netmap lose their paths and the keys of these paths. *)
apply_netmap(nd, n, m) ==
    LET fresh == m.nodes \ {n}
        stale == nd.peers \ fresh
    IN  [wanted |-> nd.wanted \cup (fresh \cap Pathful),
         peers |-> fresh,
         table |-> [d \in Nodes |-> IF d \in stale THEN <<>> ELSE nd.table[d]],
         forward |-> nd.forward,
         keys |-> nd.keys \ UNION {Ids(nd.table[d]) : d \in stale}]

(* Every key is taken.  Paths of one's own go to the table, others that one is part of to the   *)
(* forwarding entries.                                                                          *)
apply_paths(nd, n, m) ==
    [wanted |-> IF m.source = n THEN nd.wanted \ {m.dest} ELSE nd.wanted,
     peers |-> nd.peers,
     table |-> IF m.source = n THEN [nd.table EXCEPT ![m.dest] = m.cands] ELSE nd.table,
     forward |-> IF m.source = n THEN nd.forward
                 ELSE LET mine == {c \in Range(m.cands) : n \in Hops(c)}
                      IN  {c \in nd.forward : \A e \in mine : c.id # e.id} \cup mine,
     keys |-> nd.keys \cup Ids(m.cands)]

withdraw_path(nd, n, m) ==
    [wanted |-> nd.wanted,
     peers |-> nd.peers,
     table |-> [nd.table EXCEPT ![m.dest] = SelectSeq(@, LAMBDA c : c.id # m.id)],
     forward |-> {c \in nd.forward : c.id # m.id},
     keys |-> nd.keys \ {m.id}]

Handle(nd, n, m) ==
    CASE m.kind = "netmap" -> apply_netmap(nd, n, m)
      [] m.kind = "update" -> apply_paths(nd, n, m)
      [] m.kind = "withdraw" -> withdraw_path(nd, n, m)

Read(nd, n, messages) == Fold(LAMBDA d, m : Handle(d, n, m), nd, messages)

Blank == [wanted |-> {}, peers |-> {}, table |-> [d \in Nodes |-> <<>>], forward |-> {}, keys |-> {}]

----------------------------------------------------------------------------
(* The control connection.  A node sends a heartbeat and the path requests it has; the answer   *)
(* to the heartbeat is the netmap and the queued events.  The node reads this answer before its *)
(* next heartbeat, and nothing else depends on when it does: sending and reading are one step.  *)

(* What is pushed to n; a node without an entry gets an empty netmap and no events. *)
Answer(n) == IF n \in members THEN <<Netmap>> \o pending[n]
             ELSE <<[kind |-> "netmap", nodes |-> {}]>>

take_events(n) == pending' = IF n \in members THEN [pending EXCEPT ![n] = <<>>] ELSE pending

Heartbeat(n) ==
    /\ ServerFree /\ n \in up /\ asks[n] = <<>>
    /\ asks' = [asks EXCEPT ![n] = SetToSeq(node[n].wanted)]
    /\ take_events(n)
    /\ node' = [node EXCEPT ![n] = Read(@, n, Answer(n))]
    /\ seen' = seen \cup {n}
    /\ UNCHANGED <<env, now, members, roundVars, roster, map, seq, store, up, used, flaws>>

(* The node resumes its registration and gets the netmap. *)
Reconnect(n) ==
    /\ ServerFree /\ n \in members \ up
    /\ up' = up \cup {n} /\ seen' = seen \cup {n}
    /\ node' = [node EXCEPT ![n] = Handle(@, n, Netmap)]
    /\ UNCHANGED <<env, now, members, roundVars, serviceVars, asks, used, flaws>>

Lose(n) == /\ up' = up \ {n}
           /\ asks' = [asks EXCEPT ![n] = <<>>]
           /\ flaws' = [flaws EXCEPT ![n] = @ \cup {"loss"}]
           /\ UNCHANGED <<env, now, members, seen, roundVars, roster, map, seq, store>>

(* The connection breaks while the answer is on its way: the events are taken, some of the      *)
(* messages arrive.                                                                             *)
Break(n) ==
    /\ ServerFree /\ n \in up /\ May("break") /\ Count("break")
    /\ Lose(n)
    /\ take_events(n)
    /\ \E k \in 0..Len(Answer(n)) : node' = [node EXCEPT ![n] = Read(@, n, SubSeq(Answer(n), 1, k))]

(* The node's process restarts with empty tables. *)
NodeRestart(n) ==
    /\ May("restart") /\ Count("restart")
    /\ Lose(n)
    /\ UNCHANGED pending
    /\ node' = [node EXCEPT ![n] = Blank]

----------------------------------------------------------------------------
(* The registered nodes are connected and have their first netmap; some relays were measured. *)
Init ==
    /\ env \in Environments
    /\ now = 0
    /\ members = env.members /\ seen = env.members
    /\ relayCfg = env.relay /\ probed = {}
    /\ rtt \in [Nodes -> Rtts \cup {0}] /\ \A n \in Nodes : rtt[n] # 0 <=> n \in env.measured
    /\ miss = [n \in Nodes |-> 0] /\ proposal = {}
    /\ roster = <<>> /\ map = [p \in Pairs |-> <<>>] /\ seq = 0
    /\ pending = [n \in Nodes |-> <<>>]
    /\ store = [members |-> members, roster |-> roster, map |-> map, seq |-> seq]
    /\ up = members
    /\ asks = [n \in Nodes |-> <<>>]
    /\ node = [n \in Nodes |-> IF n \in env.followed THEN apply_netmap(Blank, n, Netmap) ELSE Blank]
    /\ used = [f \in Faults |-> 0]
    /\ flaws = [n \in Nodes |-> {}]

Next ==
    \/ RoundBegins \/ RoundEnds \/ apply_relay_roster \/ Crash \/ Tick
    \/ \E cfg \in RelayConfigs : Reload(cfg)
    \/ \E n \in env.members : revoke(n)
    \/ \E n \in env.followed :
        request_paths(n) \/ Heartbeat(n) \/ Reconnect(n) \/ Break(n) \/ NodeRestart(n)

Spec == Init /\ [][Next]_vars

(* Heartbeats, probe rounds and reconnections are driven by timers that never stop; what was    *)
(* written to a connection that lives is read; and the server's lock is handed over in the      *)
(* order in which tasks asked for it, so that rounds do not keep messages out.                  *)
Fairness ==
    /\ WF_vars(RoundBegins \/ RoundEnds \/ apply_relay_roster)
    /\ \A n \in Nodes : SF_vars(n \in env.followed /\ (Heartbeat(n) \/ Reconnect(n) \/ request_paths(n)))

FairSpec == Spec /\ Fairness

----------------------------------------------------------------------------
(* Properties. *)

Updates(n) == {m \in Range(pending[n]) : m.kind = "update"}

(* A path id means one path for ever: wherever two candidates carry the same id, in the         *)
(* service, in a queue or at a node, they are the same path between the same ends.  Ids survive *)
(* restarts of the coordinator because the counter is stored (alloc_path_id, persistent).       *)
Known ==
    UNION {{p} \X Range(map[p]) : p \in Pairs}
    \cup UNION {UNION {{<<m.source, m.dest>>} \X Range(m.cands) : m \in Updates(n)} : n \in Nodes}
    \cup UNION {{<<n, d>>} \X Range(node[n].table[d]) : n \in Nodes, d \in Nodes}

OnePathPerId ==
    \A x \in Known :
        /\ \A y \in Known : x[2].id = y[2].id => x = y
        /\ \A n \in Nodes : \A c \in node[n].forward : x[2].id = c.id => x[2] = c

(* What a node will know once it has handled everything that is queued for it. *)
Settled(n) == Read(node[n], n, pending[n])

(* Events are complete: unless a full queue or a broken connection took something from it, a    *)
(* registered node that handles its queue has exactly the service's sets in its table, and, as  *)
(* relay or destination of other paths, forwarding entries for exactly the live candidates it   *)
(* is part of, with their keys.                                                                 *)
EventsComplete ==
    \A n \in members \cap env.followed : flaws[n] = {} =>
        LET will == Settled(n)
            live(p) == {c \in Range(map[p]) : now <= c.exp}
            part == UNION {{c \in live(p) : n \in Hops(c)} : p \in {q \in Pairs : q[1] # n}}
        IN  /\ \A p \in Pairs : p[1] = n => /\ will.table[p[2]] = map[p]
                                           /\ Ids(map[p]) \subseteq will.keys
            /\ {c \in will.forward : now <= c.exp} = part
            /\ {c.id : c \in part} \subseteq will.keys

(* A candidate that has not expired leaves its set only with one of its nodes: an end or a hop  *)
(* is revoked, or a hop leaves the roster.  A roster that changes, a request that is repeated   *)
(* and a restart of the coordinator leave the other candidates, with their ids, alone.  (A hop  *)
(* that leaves the roster takes the paths along of which it is the destination.)                *)
LivePathsStay ==
    [][\A p \in Pairs : \A c \in Range(map[p]) :
        now <= c.exp /\ c \notin Range(map'[p]) =>
            \/ ~(Hops(c) \cup {p[1]} \subseteq members')
            \/ Hops(c) \cap (Range(roster) \ Range(roster')) # {}]_vars

(* Once nothing fails any more, the sets of every source are those of the service, whatever was *)
(* lost before: requests are repeated with the netmap.  Full queues are excepted, since they    *)
(* drop withdrawals that nobody repeats.                                                        *)
TablesConverge ==
    <>[](\A p \in Pairs :
            /\ {p[1], p[2]} \subseteq members /\ p[1] \in env.followed
            /\ "overflow" \notin flaws[p[1]]
            => node[p[1]].table[p[2]] = map[p])

(* In the end every relay, in the roster and in the path sets, is a registered node that        *)
(* answered one of the last ExitMisses rounds: dead and revoked relays leave, also one that a   *)
(* roster proposed before its revocation brought back.  Only as long as there is a target:      *)
(* without one no round runs, and the last roster stays as it is.                               *)
RelaysConverge ==
    <>[](Targets(relayCfg) # {} =>
            \A r \in Range(roster) \cup UNION {{c.hops[1] : c \in {d \in Range(map[p]) : Len(d.hops) > 1}}
                                              : p \in Pairs} :
                r \in members /\ rtt[r] # 0 /\ miss[r] < ExitMisses)
=============================================================================
