---------------------------- MODULE NodeControl ----------------------------
(* A node's connection to the replicas of the coordinator (runtime/mod.rs: run; control/        *)
(* client.rs; control/server.rs): connect, register by challenge, heartbeats and leases, the    *)
(* redirect of a replica that does not lead, the watchdog, the backoff, and the audit of the    *)
(* node's own binding at the replicas in turn.                                                  *)
(*                                                                                              *)
(* The cluster (Replication) is here what a node sees of it: who leads, whom a replica takes    *)
(* for the leader, and which replicas have applied the node's registration.  A unit of time is  *)
(* a heartbeat interval; all that is ready happens within it.  Messages other than those below  *)
(* change nothing here (PATH_REQUEST and ROUTE_SYNC are redirected like ENDPOINT_REPORT).       *)
EXTENDS Integers, Sequences, FiniteSets

CONSTANTS
    Replicas,       \* in the order of replica_endpoints: a sequence
    Configured,     \* the replica of coordinator_url
    LeaseTicks,     \* the lease the coordinator grants
    WindowTicks,    \* how long a challenge can be answered
    MaxBackoff,     \* RECONNECT_MAX_BACKOFF, in intervals
    MaxQueue,       \* bound on unread messages to a replica that does not read
    CtlEnvironments \* name -> environment, see env

VARIABLES
    setting,    \* the name of the environment of this behaviour, fixed
    faults,     \* faults left
    run,        \* replica -> "up", "frozen" (does not answer, connections stay open), "dead"
    leader,     \* the replica that leads, or "none"
    view,       \* replica -> whom it takes for the leader (itself: it acts as leader), or "none"
    entry,      \* the node's id in the replicated registry, 0: none
    applied,    \* replica -> the node's id in its registry
    issued,     \* history: ids issued to this node's key
    control,    \* Node.control: "none", "connecting" (the task is running), "open"
    target,     \* the replica it connects or is connected to
    coord_override, \* Node.coord_override, "none": none
    node_id,    \* Node.node_id, 0: none
    client,     \* ClientSession: [st, id]
    lease,      \* Node.lease_expires_at: intervals left, -1: none
    backoff,    \* ReconnectPolicy.backoff
    wait,       \* intervals left in sleep_with_timers
    due,        \* is a heartbeat due?
    toServer, toNode, \* the two directions of the connection
    conn,       \* ConnectionState at the replica: [registered, challenge (0 none), age, beat]
    ignored,    \* history: did the replica leave a message of this connection for an interval?
    audited,    \* audited_claims has the node's own entry of the netmap
    cursor,     \* Node.audit_cursor modulo the number of replicas, as long as it decides whom the
                \* entry is asked for at: it is not followed while audited holds
    asking,     \* replicas with an audit request under way
    hasReplicas \* Node.audit_endpoints is known

cluster == <<setting, faults, run, leader, view, entry, applied, issued>>
link == <<toServer, toNode, conn, ignored>>
self == <<control, target, coord_override, node_id, client, lease, backoff, wait, due>>
audits == <<audited, cursor, asking, hasReplicas>>
ctlVars == <<cluster, link, self, audits>>

\* faults: bound on faults; leader: who leads at the start; down: replicas that do not run then;
\* gone: replicas that stay dead when they are; member: is the node registered at the start?
env == CtlEnvironments[setting]

Rs == {Replicas[i] : i \in DOMAIN Replicas}

\* LEASE_EXPIRY_SECS is 6 of DEFAULT_HEARTBEAT_INTERVAL; that it is 2 is what is needed.
ASSUME ControlAssumption ==
    /\ LeaseTicks \in Nat /\ LeaseTicks >= 2 /\ WindowTicks \in Nat /\ MaxQueue \in Nat \ {0}
    /\ Configured \in Rs
    /\ \A x \in DOMAIN CtlEnvironments :
        CtlEnvironments[x].leader \in Rs /\ CtlEnvironments[x].member \in BOOLEAN

NoConn == [registered |-> 0, challenge |-> "none", age |-> 0, beat |-> FALSE]
MinOf(a, b) == IF a < b THEN a ELSE b

Msg(t) == [t |-> t]
IdMsg(t, id) == [t |-> t, id |-> id]
NetmapMsg(snap) == [t |-> "netmap", snap |-> snap]
RouteMapMsg(routes) == [t |-> "routemap", routes |-> routes]

------------------------------------------------------------------------------
(* ReconnectPolicy and the ends of a connection. *)

(* ReconnectPolicy::on_disconnect *)
on_disconnect == wait' = backoff /\ backoff' = MinOf(2 * backoff, MaxBackoff)

Up == {r \in Rs : run[r] = "up"}
Quorum == 2 * Cardinality(Up) > Len(Replicas)

(* The registration is committed: a majority, the leader among it, has applied it. *)
Commit(r) ==
    /\ leader = r /\ Quorum
    /\ LET id == IF entry = 0 THEN issued + 1 ELSE entry IN
       /\ entry' = id /\ issued' = IF entry = 0 THEN id ELSE issued
       /\ \E Q \in SUBSET Up : /\ r \in Q /\ 2 * Cardinality(Q) > Len(Replicas)
                              /\ applied' = [x \in Rs |-> IF x \in Q THEN id ELSE applied[x]]

(* The connection is gone on the node's side.  What was sent on it may still be handled. *)
Drop ==
    /\ control' = "none" /\ toServer' = <<>> /\ toNode' = <<>> /\ conn' = NoConn
    /\ ignored' = FALSE
    /\ \/ UNCHANGED <<entry, applied, issued>>
       \/ /\ Msg("ack") \in {toServer[i] : i \in DOMAIN toServer}
          /\ conn.challenge = "new" /\ conn.age <= WindowTicks /\ run[target] = "up"
          /\ entry = 0 /\ Commit(target)

(* The task of run: establish_control with the override or the configured address. *)
SpawnConnect ==
    /\ control = "none" /\ wait = 0
    /\ control' = "connecting"
    /\ target' = IF coord_override # "none" THEN coord_override ELSE Configured
    /\ UNCHANGED <<cluster, link, coord_override, node_id, client, lease, backoff, wait, due, audits>>

restore(id) == IF id = 0 THEN [st |-> "unreg", id |-> 0] ELSE [st |-> "recon", id |-> id]

(* ControlSession::connect sends REGISTER. *)
connect ==
    /\ client' = restore(node_id)
    /\ toServer' = <<Msg("register")>> /\ toNode' = <<>> /\ conn' = NoConn /\ ignored' = FALSE

(* establish_control succeeds at a replica that runs and fails at one that does not; at one     *)
(* that hangs it has no end.                                                                    *)
establish_control(ok) == control = "connecting" /\ run[target] = IF ok THEN "up" ELSE "dead"

(* Faulty variant of ConnectOk: the lease of the last session stays. *)
ConnectOkStale ==
    /\ establish_control(TRUE)
    /\ control' = "open" /\ connect
    /\ UNCHANGED <<cluster, target, coord_override, node_id, lease, backoff, wait, due, audits>>
(* The lease of the last session is forgotten. *)
ConnectOk ==
    /\ establish_control(TRUE)
    /\ control' = "open" /\ connect
    /\ lease' = -1
    /\ UNCHANGED <<cluster, target, coord_override, node_id, backoff, wait, due, audits>>

(* Faulty variant of ConnectFail: the redirect is kept. *)
ConnectFailKeeps ==
    /\ establish_control(FALSE)
    /\ control' = "none" /\ on_disconnect
    /\ UNCHANGED <<cluster, link, target, coord_override, node_id, client, lease, due, audits>>
(* A target that cannot be reached: back to the configured address, after the backoff. *)
ConnectFail ==
    /\ establish_control(FALSE)
    /\ control' = "none" /\ coord_override' = "none" /\ on_disconnect
    /\ UNCHANGED <<cluster, link, target, node_id, client, lease, due, audits>>

------------------------------------------------------------------------------
(* The server: handle_message at the replica of the connection. *)

Reply(ms) == toNode' = toNode \o ms
Redirect(r) == [t |-> "redirect", to |-> view[r]]
Follows(r) == view[r] # r

(* A message of the node; the guard and the rest of the step are those of Serve. *)
HandleRegister(r) ==
    /\ \/ Follows(r) /\ Reply(<<Redirect(r)>>) /\ UNCHANGED conn
       \/ /\ ~Follows(r)
          /\ conn' = [conn EXCEPT !.challenge = IF applied[r] # 0 THEN "resume" ELSE "new", !.age = 0]
          /\ Reply(<<IdMsg("challenge", applied[r])>>)
    /\ UNCHANGED <<entry, applied, issued>>

(* A known key resumes with what the replica has applied. *)
Resume(r, snap) ==
    /\ conn.challenge = "resume"
    /\ conn' = [conn EXCEPT !.challenge = "none", !.registered = applied[r]]
    /\ Reply(<<IdMsg("response", applied[r]), NetmapMsg(snap)>>)
    /\ UNCHANGED <<entry, applied, issued>>
(* A new key is registered through the log, which waits for a majority, or for the news of      *)
(* another leader.                                                                              *)
RegisterNew(r, snap) ==
    /\ conn.challenge = "new"
    /\ \/ /\ Commit(r)
          /\ conn' = [conn EXCEPT !.challenge = "none", !.registered = entry']
          /\ Reply(<<IdMsg("response", entry'), NetmapMsg(snap)>>)
       \/ /\ Follows(r)
          /\ conn' = [conn EXCEPT !.challenge = "none"]
          /\ Reply(<<Redirect(r)>>)
          /\ UNCHANGED <<entry, applied, issued>>
(* Faulty variant of HandleAck: a key that is known gets another id. *)
HandleAckAnew(r, snap) ==
    /\ conn.challenge # "none" /\ conn.age <= WindowTicks /\ leader = r
    /\ entry' = issued + 1 /\ issued' = issued + 1
    /\ applied' = [x \in Rs |-> IF x \in Up THEN entry' ELSE applied[x]]
    /\ conn' = [conn EXCEPT !.challenge = "none", !.registered = entry']
    /\ Reply(<<IdMsg("response", entry'), NetmapMsg(snap)>>)
(* CHALLENGE_ACK: without a challenge, or after its window, the connection ends. *)
HandleAck(r, snap) ==
    \/ /\ conn.challenge = "none" \/ conn.age > WindowTicks
       /\ Reply(<<Msg("close")>>)
       /\ UNCHANGED <<conn, entry, applied, issued>>
    \/ conn.age <= WindowTicks /\ Resume(r, snap)
    \/ conn.age <= WindowTicks /\ RegisterNew(r, snap)

(* Faulty variant of HandleHeartbeat: the answer has no netmap. *)
HandleHeartbeatBare(r, snap, more) ==
    /\ IF conn.registered = 0 \/ conn.beat THEN UNCHANGED <<conn, toNode>>
       ELSE IF Follows(r) THEN Reply(<<Redirect(r)>>) /\ UNCHANGED conn
       ELSE conn' = [conn EXCEPT !.beat = TRUE] /\ Reply(Append(more, Msg("lease")))
    /\ UNCHANGED <<entry, applied, issued>>
(* HEARTBEAT: a registered node is redirected by a follower and gets from the leader, once in   *)
(* heartbeat_min_interval, the snapshot, the route map if it is due (more), and a lease.        *)
HandleHeartbeat(r, snap, more) ==
    /\ \/ conn.registered = 0 /\ UNCHANGED <<conn, toNode>>
       \/ conn.registered # 0 /\ Follows(r) /\ Reply(<<Redirect(r)>>) /\ UNCHANGED conn
       \/ conn.registered # 0 /\ ~Follows(r) /\ conn.beat /\ UNCHANGED <<conn, toNode>>
       \/ /\ conn.registered # 0 /\ ~Follows(r) /\ ~conn.beat
          /\ conn' = [conn EXCEPT !.beat = TRUE]
          /\ Reply(<<NetmapMsg(snap)>> \o more \o <<Msg("lease")>>)
    /\ UNCHANGED <<entry, applied, issued>>

(* ENDPOINT_REPORT: set_endpoints is a proposal and waits likewise. *)
HandleReport(r) ==
    /\ \/ conn.registered # 0 /\ Follows(r) /\ Reply(<<Redirect(r)>>)
       \/ (conn.registered = 0 \/ (leader = r /\ Quorum)) /\ UNCHANGED toNode
    /\ UNCHANGED <<conn, entry, applied, issued>>

(* Does the message at the head of the stream wait for a majority? *)
Waits ==
    /\ toServer # <<>>
    /\ ~Follows(target) /\ ~(leader = target /\ Quorum)
    /\ \/ Head(toServer).t = "report" /\ conn.registered # 0
       \/ Head(toServer).t = "ack" /\ conn.challenge = "new" /\ conn.age <= WindowTicks

ReadMessage(t) ==
    /\ control = "open" /\ run[target] = "up" /\ toServer # <<>> /\ Head(toServer).t = t
    /\ toServer' = Tail(toServer)
    /\ UNCHANGED <<setting, faults, run, leader, view, ignored, self, audits>>
(* snap: the netmap that push_snapshot would write now; more: what push_route_map would *)
Serve(snap, more) ==
    \/ ReadMessage("register") /\ HandleRegister(target)
    \/ ReadMessage("ack") /\ HandleAck(target, snap)
    \/ ReadMessage("heartbeat") /\ HandleHeartbeat(target, snap, more)
    \/ ReadMessage("report") /\ HandleReport(target)

------------------------------------------------------------------------------
(* The node: read_event and handle_control_event, pump_timers. *)

(* Faulty variant of queue_binding_audit: the cursor stays where it is. *)
queue_binding_auditStays(known, claims) ==
    /\ asking' = IF known THEN asking \cup {Replicas[i] : i \in {j \in DOMAIN claims : claims[j] = "entry"}}
                 ELSE asking
    /\ UNCHANGED cursor
(* One request for every claim, to the replicas in turn.  "own" is the binding under the mark   *)
(* node_id = 0: that is not what was signed, so its answer is always Unknown and changes        *)
(* nothing; what it does is to move the cursor.  "entry" is the node's entry of the netmap.     *)
(* Once that is verified, only "own" is asked for until a restart sets the cursor to 0 again:   *)
(* where the cursor is in the meantime makes no difference.                                     *)
queue_binding_audit(known, claims) ==
    IF ~known THEN UNCHANGED <<cursor, asking>>
    ELSE /\ asking' = asking \cup {Replicas[((cursor + i - 1) % Len(Replicas)) + 1] :
                                      i \in {j \in DOMAIN claims : claims[j] = "entry"}}
         /\ cursor' = IF audited THEN cursor ELSE (cursor + Len(claims)) % Len(Replicas)
OwnClaims == IF audited THEN <<"own">> ELSE <<"own", "entry">>

read_event(t) == control = "open" /\ toNode # <<>> /\ Head(toNode).t = t

(* ClientSession::handle(RegisterOk) *)
Accepts(id) == client.st = "unreg" \/ client.id = id

Write(m) == toServer' = Append(toServer, m)

(* The registration: the only thing that resets the backoff. *)
Registered ==
    /\ read_event("response") /\ Accepts(Head(toNode).id)
    /\ client' = [st |-> "reg", id |-> Head(toNode).id]
    /\ node_id' = Head(toNode).id
    /\ backoff' = 1
    /\ queue_binding_audit(hasReplicas, <<"own">>)
    /\ Write(Msg("report")) /\ toNode' = Tail(toNode)
    /\ UNCHANGED <<cluster, conn, ignored, control, target, coord_override, lease, wait, due, audited, hasReplicas>>

(* An error of read_event: the end of the stream, or an answer with another id. *)
ReadError ==
    /\ \/ read_event("close")
       \/ read_event("response") /\ ~Accepts(Head(toNode).id)
    /\ Drop /\ on_disconnect
    /\ UNCHANGED <<setting, faults, run, leader, view, target, coord_override, node_id, client, lease, due, audits>>

(* A netmap proves the challenge passed, names the replicas and is applied (Forwarding). *)
NetmapEvent ==
    /\ read_event("netmap")
    /\ client' = IF client.st = "recon" THEN [client EXCEPT !.st = "reg"] ELSE client
    /\ hasReplicas' = TRUE
    /\ queue_binding_audit(TRUE, OwnClaims)
    /\ toNode' = Tail(toNode)
    /\ UNCHANGED <<cluster, toServer, conn, ignored, control, target, coord_override, node_id, lease, backoff, wait, due, audited>>

(* A route map is applied (Forwarding). *)
RouteMapEvent ==
    /\ read_event("routemap")
    /\ toNode' = Tail(toNode)
    /\ UNCHANGED <<cluster, toServer, conn, ignored, self, audits>>

LeaseEvent ==
    /\ read_event("lease")
    /\ lease' = LeaseTicks /\ toNode' = Tail(toNode)
    /\ UNCHANGED <<cluster, toServer, conn, ignored, control, target, coord_override, node_id, client, backoff, wait, due, audits>>

ChallengeEvent ==
    /\ read_event("challenge")
    /\ Write(Msg("ack")) /\ toNode' = Tail(toNode)
    /\ UNCHANGED <<cluster, conn, ignored, self, audits>>

(* A redirect names the leader, or nobody during an election; the node reconnects at once. *)
LeaderRedirect ==
    /\ read_event("redirect")
    /\ coord_override' = IF Head(toNode).to # "none" THEN Head(toNode).to ELSE coord_override
    /\ Drop
    /\ UNCHANGED <<setting, faults, run, leader, view, target, node_id, client, lease, backoff, wait, due, audits>>

(* AUDIT_REQUEST: any replica answers, by what it has applied and without a redirect. *)
Verdict(r) == IF applied[r] = node_id THEN "verified" ELSE "behind"

(* A connection of its own for one request; a replica that is not up gives no answer. *)
audit_binding(r) == IF run[r] = "up" THEN {Verdict(r)} ELSE {}

(* Only a verdict is noted: what is behind, or without an answer, is asked for again. *)
pump_audits(r) ==
    /\ r \in asking
    /\ asking' = asking \ {r}
    /\ audited' = (audited \/ "verified" \in audit_binding(r))
    /\ UNCHANGED <<cluster, link, self, cursor, hasReplicas>>

Broken == \E i \in DOMAIN toNode : toNode[i].t = "close"

(* pump_timers: a session whose lease is over is dropped, without a wait. *)
Watchdog ==
    /\ control = "open" /\ lease = 0
    /\ lease' = -1 /\ Drop
    /\ UNCHANGED <<setting, faults, run, leader, view, target, coord_override, node_id, client, backoff, wait, due, audits>>

(* pump_timers: the heartbeat; a write that fails ends the session, without a wait. *)
Heartbeat ==
    /\ due /\ due' = FALSE
    /\ \/ /\ control = "open" /\ Broken /\ Drop
          /\ UNCHANGED <<setting, faults, run, leader, view>>
       \/ /\ control = "open" /\ Len(toServer) < MaxQueue /\ Write(Msg("heartbeat"))
          /\ UNCHANGED <<cluster, toNode, conn, ignored, control>>
       \/ /\ control # "open" \/ Len(toServer) = MaxQueue
          /\ UNCHANGED <<cluster, link, control>>
    /\ UNCHANGED <<target, coord_override, node_id, client, lease, backoff, wait, audits>>

------------------------------------------------------------------------------
(* Time, the cluster, faults. *)

Quiet ==
    /\ ~due /\ asking = {}
    /\ control = "none" => wait > 0
    /\ control = "connecting" => run[target] = "frozen"
    /\ control = "open" => toNode = <<>> /\ lease # 0 /\ (toServer # <<>> => run[target] # "up" \/ Waits)

Tick ==
    /\ Quiet
    /\ due' = TRUE
    /\ wait' = IF wait > 0 THEN wait - 1 ELSE 0
    /\ lease' = IF lease > 0 THEN lease - 1 ELSE lease
    /\ conn' = [conn EXCEPT !.beat = FALSE,
                            !.age = IF conn.challenge = "none" THEN 0 ELSE MinOf(@ + 1, WindowTicks + 1)]
    /\ ignored' = (ignored \/ (control = "open" /\ toServer # <<>>))
    /\ UNCHANGED <<cluster, toServer, toNode, control, target, coord_override, node_id, client, backoff, audits>>

(* The cluster elects a replica that has all that is committed. *)
Elect(r) ==
    /\ r \in Up /\ Quorum /\ applied[r] = entry
    /\ leader \notin Up
    /\ leader' = r /\ view' = [view EXCEPT ![r] = r]
    /\ UNCHANGED <<setting, faults, run, entry, applied, issued, link, self, audits>>
Follow(r) ==
    /\ r \in Up /\ leader \in Up \ {r}
    /\ view[r] # leader \/ applied[r] # entry
    /\ view' = [view EXCEPT ![r] = leader]
    /\ applied' = [applied EXCEPT ![r] = entry]
    /\ UNCHANGED <<setting, faults, run, leader, entry, issued, link, self, audits>>
Forget(r) ==
    /\ r \in Up /\ view[r] \notin Up \cup {"none"}
    /\ view' = [view EXCEPT ![r] = "none"]
    /\ UNCHANGED <<setting, faults, run, leader, entry, applied, issued, link, self, audits>>
Revive(r) ==
    /\ run[r] = "frozen" \/ (run[r] = "dead" /\ r \notin env.gone)
    /\ run' = [run EXCEPT ![r] = "up"]
    /\ UNCHANGED <<setting, faults, leader, view, entry, applied, issued, link, self, audits>>

Fault == faults > 0 /\ faults' = faults - 1

(* The end of the stream reaches the node; what was on its way may or may not. *)
Close ==
    IF control = "open" /\ ~Broken
    THEN \E k \in 0..Len(toNode) : toNode' = Append(SubSeq(toNode, 1, k), Msg("close"))
    ELSE UNCHANGED toNode

Die(r) ==
    /\ Fault /\ run[r] # "dead"
    /\ run' = [run EXCEPT ![r] = "dead"]
    /\ view' = [view EXCEPT ![r] = "none"]
    /\ leader' = IF leader = r THEN "none" ELSE leader
    /\ IF target = r THEN Close ELSE UNCHANGED toNode
    /\ UNCHANGED <<setting, entry, applied, issued, toServer, conn, ignored, self, audits>>
Freeze(r) ==
    /\ Fault /\ run[r] = "up"
    /\ run' = [run EXCEPT ![r] = "frozen"]
    /\ UNCHANGED <<setting, leader, view, entry, applied, issued, link, self, audits>>
(* Another replica wins an election although the leader is up. *)
Handover(r) ==
    /\ Fault /\ leader \in Up /\ r \in Up \ {leader} /\ Quorum /\ applied[r] = entry
    /\ leader' = r /\ view' = [view EXCEPT ![r] = r]
    /\ UNCHANGED <<setting, run, entry, applied, issued, link, self, audits>>
Break ==
    /\ Fault /\ control = "open" /\ ~Broken /\ Close
    /\ UNCHANGED <<setting, run, leader, view, entry, applied, issued, toServer, conn, ignored, self, audits>>
(* The daemon stops (graceful_shutdown) or dies, and is started again. *)
Respawn ==
    /\ Fault /\ Drop
    /\ coord_override' = "none" /\ node_id' = 0 /\ client' = restore(0) /\ lease' = -1
    /\ backoff' = 1 /\ wait' = 0 /\ due' = FALSE
    /\ audited' = FALSE /\ cursor' = 0 /\ asking' = {} /\ hasReplicas' = FALSE
    /\ UNCHANGED <<setting, run, leader, view, target>>

------------------------------------------------------------------------------
CtlInit ==
    /\ setting \in DOMAIN CtlEnvironments
    /\ faults = env.faults
    /\ run = [r \in Rs |-> IF r \in env.down THEN "dead" ELSE "up"]
    /\ leader = env.leader
    /\ view = [r \in Rs |-> IF r \in env.down THEN "none" ELSE leader]
    /\ entry = IF env.member THEN 1 ELSE 0
    /\ applied = [r \in Rs |-> IF r \in env.down THEN 0 ELSE entry]
    /\ issued = entry
    /\ control = IF env.member THEN "open" ELSE "none"
    /\ target = leader
    /\ coord_override = IF env.member /\ leader # Configured THEN leader ELSE "none"
    /\ node_id = entry
    /\ client = IF env.member THEN [st |-> "reg", id |-> 1] ELSE restore(0)
    /\ lease = IF env.member THEN LeaseTicks ELSE -1
    /\ backoff = 1 /\ wait = 0 /\ due = FALSE
    /\ toServer = <<>> /\ toNode = <<>> /\ conn = [NoConn EXCEPT !.registered = entry]
    /\ ignored = FALSE
    /\ audited = env.member /\ cursor = 0 /\ asking = {} /\ hasReplicas = env.member

NodeStep ==
    \/ SpawnConnect
    \/ ConnectOk
    \/ ConnectFail
    \/ Registered
    \/ ReadError
    \/ LeaseEvent
    \/ ChallengeEvent
    \/ LeaderRedirect
    \/ Watchdog
    \/ Heartbeat
    \/ \E r \in Rs : pump_audits(r)
ClusterStep ==
    \/ \E r \in Rs : Elect(r)
    \/ \E r \in Rs : Follow(r)
    \/ \E r \in Rs : Forget(r)
    \/ \E r \in Rs : Revive(r)
FaultStep ==
    \/ \E r \in Rs : Die(r) \/ Freeze(r) \/ Handover(r)
    \/ Break
    \/ Respawn
CtlNext == NodeStep \/ NetmapEvent \/ RouteMapEvent \/ Serve(0, <<>>) \/ Tick \/ ClusterStep \/ FaultStep

CtlSpec == CtlInit /\ [][CtlNext]_ctlVars

------------------------------------------------------------------------------
Attached ==
    /\ control = "open" /\ target = leader /\ run[target] = "up" /\ ~Broken
    /\ entry # 0 /\ node_id = entry /\ conn.registered = entry

(* After the last fault the node comes back to the leader and stays registered there, whatever  *)
(* replica it was redirected to and whatever it was waiting for: the redirect target that died  *)
(* is given up (ConnectFail), a follower redirects (HEARTBEAT, REGISTER), the watchdog ends a   *)
(* session that is not answered.                                                                *)
Rejoined == <>[]Attached

(* The watchdog (pump_timers) drops a session only if the replica has left the node without an  *)
(* answer for an interval: never a new session because of the lease of an older one.            *)
WatchdogHonest == [][control = "open" /\ lease = 0 /\ lease' = -1 => ignored]_ctlVars

(* The key of the node gets one identity, whatever is lost between the registration and its     *)
(* answer, and the node never has another one (control/server.rs: REGISTER classifies by key).  *)
OneIdentity == issued <= 1 /\ (node_id # 0 => node_id = entry)

(* The node's entry of the netmap is verified in the end, although a replica may be gone for    *)
(* good or behind and the claim marked 0 takes a turn every time (queue_binding_audit).         *)
Audited == <>[]audited
=============================================================================
