------------------------------ MODULE Tailnet ------------------------------
(* The tailnet: the ts2021 server (registry, long-poll map streams, DERP hub) and the legs that *)
(* nodes run against it (control task, netmap snapshot, WireGuard sessions, DERP connection).   *)
(*                                                                                              *)
(* A machine is a leg; a node key is the machine and the number of the process that made it.    *)
(* What a peer is told of a node is its key, approved routes and endpoints; the endpoints are a *)
(* Boolean: none, or the one UDP endpoint of the process.  by_machine and by_node_key are       *)
(* searches of the registry.  Frames of one stream are delivered in order (HTTP/2 over TCP).    *)
(* The requests of a leg are awaited, so a leg has at most one under way.                       *)
EXTENDS Naturals, Sequences, FiniteSets

CONSTANTS
    Legs,           \* machines
    Whitelist,      \* routes that RoutesWhitelist approves
    Exit,           \* the default route: an announcement of an exit node
    Static,         \* Static[c]: advertise_routes of the configuration of leg c
    Mesh,           \* Mesh[c]: what the mesh netmap of leg c may add (nothing unless summarize_mesh)
    Window,         \* frames of a stream in flight, flow control of HTTP/2
    Environments    \* the legs that run, those that are settled at the start, how often each fault may happen, how
                    \* many events a stream queues (64 in the code) and, a bound, how many streams
                    \* of a leg may not have ended yet when it opens another, see Env

VARIABLES
    env,        \* chosen once
    nodes,      \* Registry.nodes: node id -> entry
    nextId,     \* Registry.next_id
    streams,    \* the running handle_map tasks: stream id -> stream
    hub,        \* Ts2021Server.derp_hub: the DERP sessions that own the entry of their key
    derps,      \* the running serve_derp tasks: <<node key, number>>
    poisoned,   \* the registry's mutex is poisoned: a task panicked while it held the lock
    noise,      \* the number of the server's Noise key
    leg,        \* the legs, see Process
    used        \* faults so far

hubVars == <<hub, derps>>
serverVars == <<poisoned, noise>>
vars == <<env, nodes, nextId, streams, hubVars, serverVars, leg, used>>

Faults == {"break", "derp", "refuse", "wipe", "restart", "poke", "evict"}
Env == [runs : SUBSET Legs, settled : SUBSET Legs, may : [Faults -> Nat], cap : Nat \ {0}, linger : Nat]

ASSUME TailnetAssumption == IsFiniteSet(Legs) /\ Environments \subseteq Env

May(f) == used[f] < env.may[f]
Use(f) == used' = [used EXCEPT ![f] = @ + 1]

------------------------------------------------------------------------------
(* The registry.  Every change is an event for the streams that have subscribed; a stream whose *)
(* queue is full loses its oldest event and knows that it lagged.  missed is history: the nodes *)
(* that changed between a stream's first frame and its subscription.                            *)

Put(f, k, v) == [x \in DOMAIN f \cup {k} |-> IF x = k THEN v ELSE f[x]]
Drop(f, k) == [x \in DOMAIN f \ {k} |-> f[x]]

Notify(s, e) ==
    CASE s.phase = "live" ->
           IF Len(s.queue) < env.cap
           THEN [s EXCEPT !.queue = Append(@, e)]
           ELSE [s EXCEPT !.queue = Append(Tail(@), e), !.lagged = TRUE]
      [] s.phase = "sent" -> [s EXCEPT !.missed = @ \cup {e.nid}]
      [] OTHER -> s

Publish(ss, nid, removed) == [i \in DOMAIN ss |-> Notify(ss[i], [nid |-> nid, removed |-> removed])]

NodesOf(machine) == {n \in DOMAIN nodes : nodes[n].machine = machine}
NodeByKey(key) == {n \in DOMAIN nodes : nodes[n].key = key}

(* register: the machine keeps its node id and loses its routes until the next MapRequest *)
register(machine, key) ==
    /\ \A n \in NodeByKey(key) : nodes[n].machine = machine
    /\ \E n \in IF NodesOf(machine) = {} THEN {nextId} ELSE NodesOf(machine) :
         /\ nodes' = Put(nodes, n, [machine |-> machine, key |-> key, announced |-> {}, approved |-> {},
                                    endpoints |-> n \in DOMAIN nodes /\ nodes[n].endpoints, online |-> TRUE])
         /\ nextId' = IF n = nextId THEN nextId + 1 ELSE nextId
         /\ streams' = Publish(streams, n, FALSE)

(* apply_map_update of one request: routes are announced anew only when they differ, and only   *)
(* a change of the approved routes is an event.                                                 *)
approves(route) == route \in Whitelist

Announced(e, request) ==
    [e EXCEPT !.endpoints = request.endpoints, !.online = TRUE, !.announced = request.routable,
              !.approved = IF e.announced = request.routable THEN @ ELSE {r \in request.routable : approves(r)}]

Updated(ns, nid, request) ==
    IF nid \in DOMAIN ns THEN [ns EXCEPT ![nid] = Announced(@, request)] ELSE ns

UpdateEvent(ss, nid, before, after) ==
    IF nid \in DOMAIN before /\ before[nid].approved # after[nid].approved THEN Publish(ss, nid, FALSE) ELSE ss

(* mark_online *)
Marked(ns, nid, online) == IF nid \in DOMAIN ns THEN [ns EXCEPT ![nid].online = online] ELSE ns
MarkEvent(ss, nid, online) ==
    IF nid \in DOMAIN nodes /\ nodes[nid].online # online THEN Publish(ss, nid, FALSE) ELSE ss

(* evict: the e2e trigger that removes a node.  Its streams are left running. *)
evict(c) ==
    /\ May("evict") /\ Use("evict") /\ ~poisoned
    /\ \E n \in NodesOf(c) :
         /\ nodes' = Drop(nodes, n)
         /\ streams' = Publish(streams, n, TRUE)
    /\ UNCHANGED <<env, nextId, hubVars, serverVars, leg>>

------------------------------------------------------------------------------
(* Map streams.  handle_map checks the key ("map"), applies the request ("poll"), sends the     *)
(* whole netmap ("sent"), subscribes ("live"), and takes the lock anew for each.                *)

View(n) == [key |-> nodes[n].key, routes |-> nodes[n].approved, endpoints |-> nodes[n].endpoints]
(* Faulty variant of FullFrame: only the nodes that are online. *)
FullFrameOnline(nid) ==
    [full |-> TRUE, peers |-> [n \in {m \in DOMAIN nodes \ {nid} : nodes[m].online} |-> View(n)], removed |-> {}]
FullFrame(nid) == [full |-> TRUE, peers |-> [n \in DOMAIN nodes \ {nid} |-> View(n)], removed |-> {}]
DeltaFrame(changed, removed) == [full |-> FALSE, peers |-> [n \in changed |-> View(n)], removed |-> removed]

(* The request of a long poll names no endpoint, that of a Lite update names the leg's. *)
map_request_json(adv) == [routable |-> adv, endpoints |-> FALSE]
map_endpoints_update_json(adv) == [routable |-> adv, endpoints |-> TRUE]

Stream(c, nid, request) ==
    [leg |-> c, nid |-> nid, phase |-> "map", request |-> request, dead |-> FALSE,
     queue |-> <<>>, lagged |-> FALSE, out |-> <<>>, missed |-> {}]

(* The connection is gone, or the leg gave the stream up: no frame arrives any more. *)
Cut(s) == [s EXCEPT !.dead = TRUE, !.out = <<>>]
CutStreams(c) == [i \in DOMAIN streams |-> IF streams[i].leg = c THEN Cut(streams[i]) ELSE streams[i]]

Send(s, frame) == IF s.dead THEN s ELSE [s EXCEPT !.out = Append(@, frame)]

(* The request takes effect, then the response is sent: the leg holds the stream.  On a dead    *)
(* stream the response may fail, which ends the task.                                           *)
Apply(i) ==
    LET s == streams[i]
        after == Updated(nodes, s.nid, s.request)
    IN  /\ s.phase = "map" /\ ~poisoned
        /\ nodes' = after
        /\ \E ss \in {[streams EXCEPT ![i].phase = "poll"]} \cup (IF s.dead THEN {Drop(streams, i)} ELSE {}) :
             streams' = UpdateEvent(ss, s.nid, nodes, after)
        /\ leg' = IF s.dead THEN leg ELSE [leg EXCEPT ![s.leg].phase = "holding"]
        /\ UNCHANGED <<env, nextId, hubVars, serverVars, used>>

(* The first frame.  The node may have been evicted since the key was checked: the task panics  *)
(* with the lock held.                                                                          *)
FirstFrame(i) ==
    LET s == streams[i]
    IN  /\ s.phase = "poll" /\ ~poisoned
        /\ IF s.nid \in DOMAIN nodes
           THEN /\ nodes' = Marked(nodes, s.nid, TRUE)
                /\ streams' = [MarkEvent(streams, s.nid, TRUE) EXCEPT
                                 ![i] = Send([s EXCEPT !.phase = "sent"], FullFrame(s.nid))]
                /\ UNCHANGED poisoned
           ELSE /\ poisoned' = TRUE
                /\ streams' = [streams EXCEPT ![i] = Cut([s EXCEPT !.phase = "panicked"])]
                /\ UNCHANGED nodes
        /\ UNCHANGED <<env, nextId, hubVars, noise, leg, used>>

Subscribe(i) ==
    /\ streams[i].phase = "sent" /\ ~streams[i].dead /\ ~poisoned
    /\ streams' = [streams EXCEPT ![i].phase = "live"]
    /\ UNCHANGED <<env, nodes, nextId, hubVars, serverVars, leg, used>>

(* One event: a change of the stream's own node is skipped, the entry is read when it is sent. *)
PushDelta(i) ==
    LET s == streams[i]
        e == Head(s.queue)
        changed == IF e.removed THEN {} ELSE {e.nid} \cap DOMAIN nodes
        taken == [s EXCEPT !.queue = Tail(@)]
    IN  /\ s.phase = "live" /\ ~s.dead /\ ~s.lagged /\ s.queue # <<>> /\ ~poisoned
        /\ Len(s.out) < Window
        /\ streams' = [streams EXCEPT ![i] =
                         IF ~e.removed /\ e.nid = s.nid THEN taken
                         ELSE Send(taken, DeltaFrame(changed, IF e.removed THEN {e.nid} ELSE {}))]
        /\ UNCHANGED <<env, nodes, nextId, hubVars, serverVars, leg, used>>

(* Faulty variant of PushFull: the lag is noted and nothing is sent again. *)
PushFullSkipped(i) ==
    /\ streams[i].phase = "live" /\ ~streams[i].dead /\ streams[i].lagged /\ ~poisoned
    /\ streams' = [streams EXCEPT ![i].lagged = FALSE]
    /\ UNCHANGED <<env, nodes, nextId, hubVars, serverVars, leg, used>>

(* After a lag the whole netmap is sent again; the events still queued follow it. *)
PushFull(i) ==
    LET s == streams[i]
    IN  /\ s.phase = "live" /\ ~s.dead /\ s.lagged /\ ~poisoned
        /\ Len(s.out) < Window
        /\ IF s.nid \in DOMAIN nodes
           THEN /\ streams' = [streams EXCEPT ![i] = Send([s EXCEPT !.lagged = FALSE, !.missed = {}], FullFrame(s.nid))]
                /\ UNCHANGED poisoned
           ELSE /\ poisoned' = TRUE
                /\ streams' = [streams EXCEPT ![i] = Cut([s EXCEPT !.phase = "panicked"])]
        /\ UNCHANGED <<env, nodes, nextId, hubVars, noise, leg, used>>

(* A send on a dead stream fails, at the latest the next keepalive: the node is marked offline. *)
EndStream(i) ==
    LET s == streams[i]
    IN  /\ s.phase \in {"sent", "live"} /\ s.dead /\ ~poisoned
        /\ nodes' = Marked(nodes, s.nid, FALSE)
        /\ streams' = Drop(MarkEvent(streams, s.nid, FALSE), i)
        /\ UNCHANGED <<env, nextId, hubVars, serverVars, leg, used>>

------------------------------------------------------------------------------
(* A leg.  It establishes a connection ("joined") and registers ("registered"), opens the map   *)
(* stream ("opening"), and holds it ("holding").  While it holds, it waits for a frame, a       *)
(* change of its routes or the loss of DERP ("read"), or finishes what a frame or a change      *)
(* started: a DERP connection ("derp") and a Lite update ("lite").                              *)

Process(c, n) ==
    [key |-> <<c, n>>, phase |-> "down", control |-> 0, broken |-> FALSE, stream |-> 0, torn |-> FALSE, todo |-> "read",
     snapshot |-> <<>>, engine |-> {}, exits |-> {}, adv |-> Static[c], poke |-> FALSE, derp |-> <<>>, preferred |-> FALSE, lost |-> FALSE]

(* pump_ts2021, in the node's own task, drains the netmap events: the routes of peers that left *)
(* are removed, those of the others replaced; a default route makes an exit candidate instead.  *)
(* The task shares nothing else with the leg, so its step is taken with the frame's.            *)
RoutesOf(snapshot) == UNION {{<<r, snapshot[n].key>> : r \in snapshot[n].routes \ {Exit}} : n \in DOMAIN snapshot}
ExitsOf(snapshot) == {snapshot[n].key : n \in {n \in DOMAIN snapshot : Exit \in snapshot[n].routes}}

pump_ts2021(l) ==
    LET mirror == {r[2] : r \in l.engine}
        fresh == {l.snapshot[n].key : n \in DOMAIN l.snapshot}
        stay == {r \in l.engine : r[2] \notin (mirror \ fresh) \cup fresh}
    IN  [l EXCEPT !.exits = ExitsOf(l.snapshot), !.engine = stay \cup RoutesOf(l.snapshot)]

(* Legs settled one after the other: each was told of the earlier ones with their endpoints,    *)
(* and of the later ones before they had reported any.                                          *)
Numbered(S) == CHOOSE q \in [1..Cardinality(S) -> S] : \A c \in S : \E k \in DOMAIN q : q[k] = c
Entry(c, key) ==
    [machine |-> c, key |-> key, announced |-> Static[c], approved |-> Static[c] \cap Whitelist,
     endpoints |-> TRUE, online |-> TRUE]
Holding(q, k) ==
    pump_ts2021([Process(q[k], 1) EXCEPT
       !.phase = "holding", !.stream = k, !.derp = <<<<q[k], 1>>, 1>>, !.preferred = TRUE,
       !.snapshot = [j \in DOMAIN q \ {k} |->
                       [key |-> <<q[j], 1>>, routes |-> Static[q[j]] \cap Whitelist, endpoints |-> j < k]]])

Init ==
    /\ env \in Environments
    /\ LET q == Numbered(env.settled) IN
         /\ nodes = [k \in DOMAIN q |-> Entry(q[k], <<q[k], 1>>)]
         /\ nextId = Len(q) + 1
         /\ streams = [k \in DOMAIN q |-> [Stream(q[k], k, map_request_json(Static[q[k]])) EXCEPT !.phase = "live"]]
         /\ derps = {<<<<c, 1>>, 1>> : c \in env.settled}
         /\ leg = [c \in Legs |-> IF c \in env.settled THEN Holding(q, CHOOSE k \in DOMAIN q : q[k] = c)
                                  ELSE IF c \in env.runs THEN Process(c, 1)
                                  ELSE [Process(c, 1) EXCEPT !.phase = "off"]]
    /\ hub = derps /\ poisoned = FALSE /\ noise = 1
    /\ used = [f \in Faults |-> 0]

Set(c, l) == leg' = [leg EXCEPT ![c] = l]

Alive(c) == leg[c].stream \in DOMAIN streams /\ ~streams[leg[c].stream].dead
Holds(c) == leg[c].phase = "holding" /\ leg[c].todo = "read"
Inbox(c) == IF Alive(c) THEN streams[leg[c].stream].out ELSE <<>>
Known(c) == \E n \in NodeByKey(leg[c].key) : nodes[n].machine = c

(* run_control starts over: the client is dropped, and with it the connection and its streams *)
GiveUp(c, l) ==
    /\ Set(c, [l EXCEPT !.phase = "down", !.broken = FALSE, !.control = 0, !.stream = 0, !.torn = FALSE, !.todo = "read"])
    /\ streams' = CutStreams(c)

(* The server's side of a new connection: GET /key is answered with its Noise key, a handshake  *)
(* made with that key gets a session, any other none.                                           *)
respond(control) == control = noise

serve_connection(path, control) ==
    CASE path = "/key" -> {noise}
      [] path = "/ts2021" -> {k \in {control} : respond(k)}

(* establish, the first connection: the server's Noise key is fetched anew every time. *)
fetch_control_key(c) ==
    /\ leg[c].phase = "down"
    /\ \E k \in serve_connection("/key", 0) : Set(c, [leg[c] EXCEPT !.phase = "keyed", !.control = k])
    /\ UNCHANGED <<env, nodes, nextId, streams, hubVars, serverVars, used>>

(* The second: controlhttp and the Noise handshake, which the server drops without an answer    *)
(* when it was made with a key that it no longer has; then the early payload and HTTP/2.        *)
upgrade(control) == serve_connection("/ts2021", control) # {}

Connect(c) ==
    /\ leg[c].phase = "keyed"
    /\ Set(c, [leg[c] EXCEPT !.phase = IF upgrade(leg[c].control) THEN "joined" ELSE "down", !.control = 0])
    /\ UNCHANGED <<env, nodes, nextId, streams, hubVars, serverVars, used>>

(* serve_control: a request on a connection that stands is answered by a task of its own, which *)
(* panics when the lock is poisoned.                                                            *)
serve_control(c) == ~leg[c].broken /\ ~poisoned

(* The machine registers on the connection. *)
handle_register(c) == serve_control(c) /\ register(c, leg[c].key)

Establish(c) ==
    /\ leg[c].phase = "joined"
    /\ handle_register(c)
    /\ Set(c, [leg[c] EXCEPT !.phase = "registered"])
    /\ UNCHANGED <<env, hubVars, serverVars, used>>

EstablishFails(c) ==
    /\ leg[c].phase = "joined" /\ ~serve_control(c)
    /\ GiveUp(c, leg[c])
    /\ UNCHANGED <<env, nodes, nextId, hubVars, serverVars, used>>

(* map_stream: the request reaches handle_map, which checks the key. *)
MapStream(c) ==
    LET i == CHOOSE i \in 1..Cardinality(DOMAIN streams) + 1 : i \notin DOMAIN streams
    IN  /\ leg[c].phase = "registered"
        /\ Cardinality({j \in DOMAIN streams : streams[j].leg = c}) <= env.linger
        /\ IF ~serve_control(c) \/ ~Known(c)
           THEN GiveUp(c, leg[c])
           ELSE /\ \E n \in NodeByKey(leg[c].key) : streams' = Put(streams, i, Stream(c, n, map_request_json(leg[c].adv)))
                /\ Set(c, [leg[c] EXCEPT !.phase = "opening", !.stream = i])
        /\ UNCHANGED <<env, nodes, nextId, hubVars, serverVars, used>>

(* The connection goes before the response comes. *)
MapFails(c) ==
    /\ leg[c].phase = "opening" /\ ~Alive(c)
    /\ GiveUp(c, leg[c])
    /\ UNCHANGED <<env, nodes, nextId, hubVars, serverVars, used>>

(* apply_netmap: a whole netmap replaces the snapshot and is followed by DERP and a Lite        *)
(* update; a delta is merged.  Routes and sessions follow the snapshot: the sessions of peers   *)
(* that stay are kept.                                                                          *)
apply_delta(snapshot, frame) ==
    [n \in (DOMAIN snapshot \cup DOMAIN frame.peers) \ frame.removed |->
       IF n \in DOMAIN frame.peers THEN frame.peers[n] ELSE snapshot[n]]

has_netmap_data(frame) == frame.full \/ DOMAIN frame.peers \cup frame.removed # {}

apply_netmap(l, frame) ==
    IF frame.full
    THEN [l EXCEPT !.snapshot = frame.peers, !.todo = IF l.preferred THEN "lite" ELSE "derp"]
    ELSE [l EXCEPT !.snapshot = apply_delta(@, frame)]

Netmap(c) ==
    /\ Holds(c) /\ ~leg[c].torn /\ Inbox(c) # <<>>
    /\ LET frame == Head(Inbox(c)) IN
         Set(c, IF has_netmap_data(frame) THEN pump_ts2021(apply_netmap(leg[c], frame)) ELSE leg[c])
    /\ streams' = [streams EXCEPT ![leg[c].stream].out = Tail(@)]
    /\ UNCHANGED <<env, nodes, nextId, hubVars, serverVars, used>>

(* The stream is closed, or what is read of it makes no sense: the stream is opened again on the *)
(* same connection.  A torn stream may first swallow frames.                                     *)
StreamFails(c) ==
    /\ Holds(c) /\ (leg[c].torn \/ ~Alive(c))
    /\ Set(c, [leg[c] EXCEPT !.phase = "registered", !.stream = 0, !.torn = FALSE])
    /\ streams' = IF Alive(c) THEN [streams EXCEPT ![leg[c].stream] = Cut(@)] ELSE streams
    /\ UNCHANGED <<env, nodes, nextId, hubVars, serverVars, used>>

Swallow(c) ==
    /\ Holds(c) /\ leg[c].torn /\ Inbox(c) # <<>>
    /\ streams' = [streams EXCEPT ![leg[c].stream].out = Tail(@)]
    /\ UNCHANGED <<env, nodes, nextId, hubVars, serverVars, leg, used>>

(* Routes changed: a Lite update follows.  The read that select! drops may be in the middle of  *)
(* a frame: its bytes are gone and the stream is torn.                                          *)
Poke(c) ==
    /\ Holds(c) /\ leg[c].poke
    /\ \E mid \in {FALSE} \cup {Inbox(c) # <<>>} :
         /\ Set(c, [leg[c] EXCEPT !.poke = FALSE, !.todo = "lite", !.torn = @ \/ mid])
         /\ streams' = IF mid THEN [streams EXCEPT ![leg[c].stream].out = Tail(@)] ELSE streams
    /\ UNCHANGED <<env, nodes, nextId, hubVars, serverVars, used>>

(* A request with an answer: the key must be the connection's machine's. *)
post_json(c) == serve_control(c) /\ Known(c)

(* map_endpoints_update: routes and endpoint of the leg, if the server knows its key. *)
Lite(c) ==
    LET n == CHOOSE n \in NodeByKey(leg[c].key) : TRUE
        after == Updated(nodes, n, map_endpoints_update_json(leg[c].adv))
        heard == post_json(c)
    IN  /\ leg[c].phase = "holding" /\ leg[c].todo = "lite"
        /\ nodes' = IF heard THEN after ELSE nodes
        /\ streams' = IF heard THEN UpdateEvent(streams, n, nodes, after) ELSE streams
        /\ Set(c, [leg[c] EXCEPT !.todo = "read"])
        /\ UNCHANGED <<env, nextId, hubVars, serverVars, used>>

SessionsOf(key) == {d \in derps \cup hub : d[1] = key}

(* serve_derp up to the hub: the new session takes the entry of its key. *)
serve_derp(d) ==
    /\ derps' = derps \cup {d}
    /\ hub' = (hub \ SessionsOf(d[1])) \cup {d}

ConnectDerp(c) ==
    LET key == leg[c].key
        d == <<key, CHOOSE k \in 1..Cardinality(derps) + 1 : <<key, k>> \notin derps>>
    IN  /\ leg[c].phase = "holding" /\ leg[c].todo = "derp"
        /\ \/ /\ serve_derp(d)
              /\ Set(c, [leg[c] EXCEPT !.derp = d, !.preferred = TRUE, !.todo = "lite"])
              /\ UNCHANGED used
           \/ /\ May("refuse") /\ Use("refuse")
              /\ Set(c, [leg[c] EXCEPT !.todo = "lite"])
              /\ UNCHANGED hubVars
        /\ UNCHANGED <<env, nodes, nextId, streams, serverVars>>

(* run_data_plane: receiving fails, the control task is told. *)
DerpError(c) ==
    /\ leg[c].derp # <<>>
    /\ \/ leg[c].derp \notin derps /\ UNCHANGED used
       \/ leg[c].derp \in derps /\ May("derp") /\ Use("derp")
    /\ Set(c, [leg[c] EXCEPT !.derp = <<>>, !.lost = TRUE])
    /\ UNCHANGED <<env, nodes, nextId, streams, hubVars, serverVars>>

(* Faulty variant of DerpLost: the region is still thought to be connected. *)
DerpLostKept(c) ==
    /\ Holds(c) /\ leg[c].lost
    /\ GiveUp(c, [leg[c] EXCEPT !.lost = FALSE])
    /\ UNCHANGED <<env, nodes, nextId, hubVars, serverVars, used>>

DerpLost(c) ==
    /\ Holds(c) /\ leg[c].lost
    /\ GiveUp(c, [leg[c] EXCEPT !.preferred = FALSE, !.lost = FALSE])
    /\ UNCHANGED <<env, nodes, nextId, hubVars, serverVars, used>>

(* serve_derp notices that its connection is gone and removes the entry of its key. *)
EndDerp(d) ==
    /\ \A c \in Legs : leg[c].derp # d
    /\ derps' = derps \ {d}
    /\ hub' = hub \ SessionsOf(d[1])
    /\ UNCHANGED <<env, nodes, nextId, streams, serverVars, leg, used>>

(* set_mesh_routes *)
SetMeshRoutes(c) ==
    /\ May("poke") /\ Use("poke")
    /\ leg[c].phase # "off"
    /\ \E routes \in {Static[c], Static[c] \cup Mesh[c]} \ {leg[c].adv} :
         Set(c, [leg[c] EXCEPT !.adv = routes, !.poke = TRUE])
    /\ UNCHANGED <<env, nodes, nextId, streams, hubVars, serverVars>>

------------------------------------------------------------------------------
(* What may go wrong: a control connection breaks, the server restarts, a leg's process does. *)

Break(c) ==
    /\ May("break") /\ Use("break")
    /\ leg[c].phase \notin {"off", "down", "keyed"} /\ ~leg[c].broken
    /\ Set(c, [leg[c] EXCEPT !.broken = TRUE, !.stream = 0])
    /\ streams' = CutStreams(c)
    /\ UNCHANGED <<env, nodes, nextId, hubVars, serverVars>>

Wipe ==
    /\ May("wipe") /\ Use("wipe")
    /\ nodes' = <<>> /\ nextId' = 1 /\ streams' = <<>> /\ hub' = {} /\ derps' = {} /\ poisoned' = FALSE
    /\ noise' \in {noise, noise + 1}
    /\ leg' = [c \in Legs |-> [leg[c] EXCEPT !.broken = @ \/ leg[c].phase \notin {"off", "down", "keyed"}, !.stream = 0,
                                           !.derp = <<>>, !.lost = @ \/ leg[c].derp # <<>>]]
    /\ UNCHANGED env

RestartLeg(c) ==
    /\ May("restart") /\ Use("restart") /\ leg[c].phase # "off"
    /\ Set(c, Process(c, leg[c].key[2] + 1))
    /\ streams' = CutStreams(c)
    /\ UNCHANGED <<env, nodes, nextId, hubVars, serverVars>>

Program ==
    \/ \E i \in DOMAIN streams : Apply(i) \/ FirstFrame(i) \/ Subscribe(i) \/ PushDelta(i) \/ PushFull(i) \/ EndStream(i)
    \/ \E d \in derps : EndDerp(d)
    \/ \E c \in Legs : \/ fetch_control_key(c) \/ Connect(c) \/ Establish(c) \/ EstablishFails(c)
                       \/ MapStream(c) \/ MapFails(c) \/ Netmap(c) \/ StreamFails(c)
                       \/ Poke(c) \/ Lite(c) \/ ConnectDerp(c) \/ DerpError(c) \/ DerpLost(c)

Faulty ==
    \/ Wipe
    \/ \E c \in Legs : SetMeshRoutes(c) \/ Break(c) \/ RestartLeg(c) \/ evict(c) \/ Swallow(c)

Next == Program \/ Faulty
Spec == Init /\ [][Next]_vars /\ WF_vars(Program)

------------------------------------------------------------------------------
(* Work under way about node n in stream s: an event queued, a frame in flight, a lag not yet   *)
(* answered.  A change between the first frame and the subscription is missed for good.         *)
Pending(s, n) ==
    \/ s.phase \notin {"sent", "live"} \/ s.lagged \/ n \in s.missed \/ n = s.nid
    \/ \E k \in DOMAIN s.queue : s.queue[k].nid = n
    \/ \E k \in DOMAIN s.out : s.out[k].full \/ n \in DOMAIN s.out[k].peers \cup s.out[k].removed

Told(c, n) == IF n \in DOMAIN leg[c].snapshot THEN {leg[c].snapshot[n]} ELSE {}
Registered(n) == IF n \in DOMAIN nodes THEN {View(n)} ELSE {}
Gist(v) == [key |-> v.key, routes |-> v.routes]
Undisturbed(c) == Alive(c) /\ ~leg[c].torn
PeersOf(c) == DOMAIN nodes \cup DOMAIN leg[c].snapshot

(* A node routes into the tailnet by what its leg was told: no route to a key that was          *)
(* replaced, none missing, and a peer that announces the default route is an exit candidate and *)
(* never a route (pump_ts2021).  And a leg that reads an undisturbed stream was told, of every  *)
(* peer about which nothing is under way, what the registry holds: the same peers with the same *)
(* keys and approved routes.  The broadcast channel's lag is healed by the whole netmap         *)
(* (serve_long_poll), deltas and whole netmaps never overtake each other, and no change of the  *)
(* registry goes without its event.                                                             *)
CaughtUp ==
    \A c \in Legs :
      /\ leg[c].engine = RoutesOf(leg[c].snapshot) /\ leg[c].exits = ExitsOf(leg[c].snapshot)
      /\ Undisturbed(c) =>
           \A n \in PeersOf(c) :
             \/ Pending(streams[leg[c].stream], n)
             \/ {Gist(v) : v \in Told(c, n)} = {Gist(v) : v \in Registered(n)}

Tunnels(c) == {leg[c].snapshot[n].key : n \in DOMAIN leg[c].snapshot}

(* A WireGuard session is torn down only when its peer or the leg itself started anew, and when *)
(* the server forgot or evicted nodes: a peer's reconnections, its going offline, lag and       *)
(* whole netmaps leave it alone (merge_sessions keeps the tunnel of a key that stays).          *)
TunnelsKept ==
    [][\A c \in Legs : \A key \in Tunnels(c) \ Tunnels(c)' :
         \/ leg[c].key # leg'[c].key \/ leg[key[1]].key # key
         \/ used["wipe"] > 0 \/ used["evict"] > 0]_vars

Settled(c) ==
    /\ Holds(c) /\ ~leg[c].broken /\ Undisturbed(c) /\ ~leg[c].poke
    /\ LET s == streams[leg[c].stream] IN s.phase = "live" /\ s.queue = <<>> /\ ~s.lagged /\ s.out = <<>>
    /\ \/ leg[c].derp # <<>> /\ (used["derp"] = 0 => leg[c].derp \in hub)
       \/ used["refuse"] > 0

(* Whatever breaks, every leg returns: it holds a live map stream that has been read to its     *)
(* end, and its DERP connection, unless a task of the server panicked with the registry's lock  *)
(* held, or the server refused a DERP connection (which run_control does not try again).  While *)
(* no connection to DERP was lost, the hub's entry of its key is that session, not another      *)
(* one's and not removed by the end of an older session (serve_derp removes by key).            *)
LegsReturn == \A c \in Legs : <>[](c \in env.runs => Settled(c) \/ poisoned)
=============================================================================
