---------------------------- MODULE Replication ----------------------------
(* The replicated coordinator: coordinators that apply one log of commands.  The consensus      *)
(* library is external and modelled by what it does with the code's storage, state machine and  *)
(* RPC transport: elections are one step, a leader sends what a follower lacks over one         *)
(* connection, one call at a time.  The transport is the code's.                                *)
(*                                                                                              *)
(* The coordinator is reduced to the identities, with the log position they were issued at, and *)
(* the tombstones of revoked ones: every other command changes state of its own in the same     *)
(* way.  Whether the auth key of the nodes is configured is local to a replica.                 *)
EXTENDS Naturals, Sequences, FiniteSets

CONSTANTS
    Replicas,       \* members of the cluster
    Environments    \* what may happen, see Env

VARIABLES
    env,        \* chosen once: the links that work, who registers, bounds, faults
    vote,       \* term of the vote in the log store
    log,        \* log store of each replica; entries up to purged are only a history
    purged,
    disk,       \* state file: coordinator state and applied index, written in one transaction
    mem,        \* state machine in memory: state, applied, and whether the auth key is configured
    snap,       \* current_snapshot, if any; in memory only
    halted,     \* replicas whose library stopped for good after a storage error
    lead,       \* term a replica leads, 0 = it does not
    match,      \* leader: index up to which a follower is known to have the log
    commit,     \* index a replica knows to be committed
    wire,       \* connections from leaders to followers: requests, replies
    call,       \* the call a leader waits for, if any: kind, index it will conclude from a success
    acked,      \* history: bindings answered to nodes, with the term of the leader that answered
    refused,    \* history: registrations refused by a replica that lacked the auth key
    used        \* faults so far

storeVars == <<vote, log, purged, disk>>
leaderVars == <<lead, match, wire, call>>
vars == <<env, storeVars, mem, snap, halted, leaderVars, commit, acked, refused, used>>

(* keys: static keys of nodes that register; log, terms: bounds on the log and on elections;    *)
(* may: how often a fault, a reload or a revocation may happen.                                 *)
Faults == {"crash", "timeout", "break", "snapshot", "reload", "revoke", "store"}
Env == [links : SUBSET (Replicas \X Replicas), keys : SUBSET STRING, log : Nat, terms : Nat,
        may : [Faults -> Nat]]

ASSUME ClusterConstants == IsFiniteSet(Replicas) /\ Environments \subseteq Env

May(f) == used[f] < env.may[f]
Reach(r) == {r} \cup {s \in Replicas : <<r, s>> \in env.links \/ <<s, r>> \in env.links}
Count(f) == used' = [used EXCEPT ![f] = @ + 1]

Largest(a, b) == IF a > b THEN a ELSE b
Least(a, b) == IF a < b THEN a ELSE b
Majorities == {Q \in SUBSET Replicas : 2 * Cardinality(Q) > Cardinality(Replicas)}

----------------------------------------------------------------------------
(* The state machine. *)

Blank == [op |-> "blank"]
Register(k) == [op |-> "register", key |-> k]
Revoke(id) == [op |-> "revoke", id |-> id]

Fresh == [entries |-> {}, next |-> 1, revoked |-> {}]

(* A known key is answered with what it has, an unknown one needs the auth key. *)
register(S, k, configured, anchor) ==
    IF ~configured \/ \E x \in S.entries : x.key = k THEN S
    ELSE [entries |-> S.entries \cup {[id |-> S.next, key |-> k, anchor |-> anchor]},
          next |-> S.next + 1, revoked |-> S.revoked]

revoke(S, id) ==
    LET gone == {x \in S.entries : x.id = id}
    IN  IF gone = {} THEN S
        ELSE [entries |-> S.entries \ gone, next |-> S.next, revoked |-> S.revoked \cup {id}]

apply_command(S, configured, i, e) ==
    CASE e.cmd.op = "register" -> register(S, e.cmd.key, configured, <<i, e.term>>)
      [] e.cmd.op = "revoke" -> revoke(S, e.cmd.id)
      [] e.cmd.op = "blank" -> S

(* The state after the entries first..last of entries. *)
Replay(S, configured, entries, first, last) ==
    LET upto[i \in (first - 1)..last] ==
            IF i = first - 1 THEN S ELSE apply_command(upto[i - 1], configured, i, entries[i])
    IN  upto[last]

----------------------------------------------------------------------------
(* Applying.  A batch of committed entries and the applied index are stored in one transaction. *)

Bindings(r, S, first, last) ==
    {[binding |-> x, term |-> lead[r]] :
        x \in {x \in S.entries : \E i \in first..last :
                  /\ log[r][i].cmd.op = "register" /\ log[r][i].cmd.key = x.key
                  /\ log[r][i].term = lead[r]}}

(* checkpoint: the state and the applied index in one transaction. *)
save_with_extras(r, S, last) == disk' = [disk EXCEPT ![r] = [state |-> S, applied |-> last]]

(* Faulty variant of checkpoint: the state is stored without the applied index. *)
CheckpointUncounted(r) == disk' = [disk EXCEPT ![r].state = mem'[r].state]

checkpoint(r) == save_with_extras(r, mem'[r].state, mem'[r].applied)

Closed == [req |-> <<>>, rep |-> <<>>]
NoWires == [s \in Replicas |-> Closed]
NoCalls == [s \in Replicas |-> {}]

(* A checkpoint that fails: memory is ahead of the file, and the library stops (external). *)
checkpoint_fails(r) == /\ May("store") /\ Count("store")
                       /\ halted' = halted \cup {r} /\ UNCHANGED disk

(* Applies the batch in memory.  The auth key is only needed by registrations of new keys. *)
Applied(r, S, last) ==
    /\ mem' = [mem EXCEPT ![r] = [state |-> S, applied |-> last, configured |-> @.configured]]
    /\ refused' = IF mem[r].configured THEN refused
                  ELSE refused \cup {i \in (mem[r].applied + 1)..last : log[r][i].cmd.op = "register"}

(* Results reach the callers only if the checkpoint succeeded. *)
apply(r) ==
    \E last \in {commit[r]} \ {mem[r].applied} :
    \E S \in {Replay(mem[r].state, mem[r].configured, log[r], mem[r].applied + 1, last)} :
        /\ r \notin halted
        /\ Applied(r, S, last)
        /\ \/ /\ checkpoint(r)
              /\ acked' = acked \cup Bindings(r, S, mem[r].applied + 1, last)
              /\ UNCHANGED <<halted, leaderVars, used>>
           \/ /\ checkpoint_fails(r)
              /\ lead' = [lead EXCEPT ![r] = 0]
              /\ wire' = [wire EXCEPT ![r] = NoWires] /\ call' = [call EXCEPT ![r] = NoCalls]
              /\ UNCHANGED <<match, acked>>
        /\ UNCHANGED <<env, vote, log, purged, snap, commit>>

(* The snapshot is the state in memory; purging the log follows. *)
build_snapshot(r) ==
    /\ r \notin halted /\ May("snapshot") /\ Count("snapshot") /\ mem[r].applied > purged[r]
    /\ snap' = [snap EXCEPT ![r] = {[state |-> mem[r].state, at |-> mem[r].applied]}]
    /\ UNCHANGED <<env, storeVars, mem, halted, leaderVars, commit, acked, refused>>

purge(r) ==
    /\ r \notin halted
    /\ \E s \in snap[r] : purged[r] < s.at /\ purged' = [purged EXCEPT ![r] = s.at]
    /\ UNCHANGED <<env, vote, log, disk, mem, snap, halted, leaderVars, commit, acked, refused, used>>

----------------------------------------------------------------------------
(* Writes and soft state at the leader. *)

(* The server handles one message at a time and waits for its command. *)
Busy(r) == \E i \in (mem[r].applied + 1)..Len(log[r]) :
               log[r][i].cmd.op = "register" /\ log[r][i].term = lead[r]

propose(r, cmd) ==
    /\ lead[r] # 0 /\ Len(log[r]) < env.log
    /\ log' = [log EXCEPT ![r] = Append(@, [term |-> lead[r], cmd |-> cmd])]
    /\ UNCHANGED <<env, vote, purged, disk, mem, snap, halted, leaderVars, commit, acked, refused>>

RegisterNode(r, k) == /\ mem[r].configured /\ ~Busy(r) /\ propose(r, Register(k))
                      /\ k \notin {x.key : x \in mem[r].state.entries}
                      /\ UNCHANGED used

(* The administration endpoint does not wait for the server. *)
RevokeNode(r, id) == /\ May("revoke") /\ Count("revoke")
                     /\ id \in {x.id : x \in mem[r].state.entries}
                     /\ propose(r, Revoke(id))

(* SIGHUP: the configuration is applied again. *)
Reload(r) ==
    /\ ~mem[r].configured /\ May("reload") /\ Count("reload")
    /\ mem' = [mem EXCEPT ![r] = [state |-> @.state, applied |-> @.applied, configured |-> TRUE]]
    /\ UNCHANGED <<env, storeVars, snap, halted, leaderVars, commit, acked, refused>>

----------------------------------------------------------------------------
(* Elections, external: a majority saves its vote; the log of the winner is at least as good as *)
(* any of theirs.  A new leader appends a blank entry.                                          *)

(* get_log_state: index and term of the last entry, which a purge does not take away. *)
get_log_state(l) == [index |-> Len(l), term |-> IF l = <<>> THEN 0 ELSE l[Len(l)].term]
UpToDate(a, b) == \/ a.term > b.term
                  \/ a.term = b.term /\ a.index >= b.index

(* save_vote: durable before it is answered.  A replica that votes leads no longer. *)
save_vote(Q, t) == vote' = [q \in Replicas |-> IF q \in Q THEN t ELSE vote[q]]

Elect(r) ==
    \E Q \in Majorities \cap SUBSET (Reach(r) \ halted) :
    \E t \in 1..env.terms :
        /\ r \in Q /\ Len(log[r]) < env.log
        /\ (\A q \in Q : vote[q] < t) /\ (\E q \in Q : vote[q] = t - 1)
        /\ \A q \in Q : UpToDate(get_log_state(log[r]), get_log_state(log[q]))
        /\ save_vote(Q, t)
        /\ lead' = [q \in Replicas |-> IF q = r THEN t ELSE IF q \in Q THEN 0 ELSE lead[q]]
        /\ log' = [log EXCEPT ![r] = Append(@, [term |-> t, cmd |-> Blank])]
        /\ match' = [match EXCEPT ![r] = [s \in Replicas |-> 0]]
        /\ wire' = [q \in Replicas |-> IF q \in Q THEN NoWires ELSE wire[q]]
        /\ call' = [q \in Replicas |-> IF q \in Q THEN NoCalls ELSE call[q]]
        /\ UNCHANGED <<env, purged, disk, mem, snap, halted, commit, acked, refused, used>>

----------------------------------------------------------------------------
(* Replication over the transport. *)

(* What s lacks: the entries after match, or a snapshot when these are purged. *)
Lacking(l, s) ==
    IF purged[l] > match[l][s]
    THEN LET sn == CHOOSE x \in snap[l] : TRUE
         IN  [kind |-> "snapshot", term |-> lead[l], state |-> sn.state, last |-> sn.at,
              past |-> SubSeq(log[l], 1, sn.at), commit |-> commit[l]]
    ELSE [kind |-> "append", term |-> lead[l], prev |-> match[l][s], last |-> Len(log[l]),
          past |-> log[l], commit |-> commit[l]]

(* PeerConn::call, up to the reply. *)
Send(l, s) ==
    /\ lead[l] # 0 /\ s \in Reach(l) \ {l} /\ call[l][s] = {}
    /\ match[l][s] < Len(log[l]) \/ commit[s] < commit[l] \/ vote[s] > lead[l]
    /\ wire' = [wire EXCEPT ![l][s] = [req |-> Append(@.req, Lacking(l, s)), rep |-> @.rep]]
    /\ call' = [call EXCEPT ![l][s] = {[kind |-> Lacking(l, s).kind, last |-> Lacking(l, s).last]}]
    /\ UNCHANGED <<env, storeVars, mem, snap, halted, lead, match, commit, acked, refused, used>>

(* RaftLogStore: what conflicts is truncated, what is new is appended, both durable. *)
Merged(own, m) ==
    IF \/ Len(own) < m.last
       \/ \E i \in (m.prev + 1)..m.last : own[i].term # m.past[i].term
    THEN m.past ELSE own

Holds(own, m) == /\ Len(own) >= m.prev
                 /\ m.prev = 0 \/ own[m.prev].term = m.past[m.prev].term

append(s, m) ==
    /\ log' = [log EXCEPT ![s] = IF Holds(@, m) THEN Merged(@, m) ELSE @]
    /\ commit' = [commit EXCEPT ![s] = IF Holds(log[s], m) THEN Largest(@, Least(m.commit, m.last)) ELSE @]
    /\ UNCHANGED <<purged, disk, mem, snap, halted, used>>

(* The coordinator is built anew from networks and snapshot: without its configuration. *)
install_snapshot(s, m) ==
    IF m.last <= mem[s].applied THEN UNCHANGED <<log, purged, disk, mem, snap, commit, halted, used>>
    ELSE /\ mem' = [mem EXCEPT ![s] = [state |-> m.state, applied |-> m.last, configured |-> FALSE]]
         /\ snap' = [snap EXCEPT ![s] = {[state |-> m.state, at |-> m.last]}]
         /\ (checkpoint(s) /\ UNCHANGED <<halted, used>>) \/ checkpoint_fails(s)
         /\ log' = [log EXCEPT ![s] = IF Len(@) >= m.last /\ @[m.last].term = m.past[m.last].term
                                      THEN @ ELSE m.past]
         /\ purged' = [purged EXCEPT ![s] = IF s \in halted' THEN @ ELSE m.last]
         /\ commit' = [commit EXCEPT ![s] = Largest(@, m.last)]

(* serve_raft_rpc: one request after the other, in the order of the connection.  A replica that *)
(* stopped, also over this request, answers with an error.                                      *)
Serve(l, s) ==
    /\ wire[l][s].req # <<>>
    /\ LET m == Head(wire[l][s].req)
           idle == m.term < vote[s] \/ s \in halted
           ok == ~idle /\ (m.kind = "append" => Holds(log[s], m))
           reply == IF s \in halted' THEN [kind |-> "error"]
                    ELSE [kind |-> m.kind, ok |-> ok, term |-> Largest(vote[s], m.term)]
       IN  /\ IF idle THEN UNCHANGED <<log, purged, disk, mem, snap, commit, halted, used>>
              ELSE IF m.kind = "append" THEN append(s, m) ELSE install_snapshot(s, m)
           /\ wire' = [q \in Replicas |->
                        IF q = l THEN [wire[l] EXCEPT ![s] = [req |-> Tail(@.req), rep |-> Append(@.rep, reply)]]
                        ELSE IF q = s /\ ~idle THEN NoWires ELSE wire[q]]
           /\ call' = [call EXCEPT ![s] = IF idle THEN @ ELSE NoCalls]
           /\ save_vote(IF idle THEN {} ELSE {s}, m.term)
           /\ lead' = [lead EXCEPT ![s] = IF idle THEN @ ELSE 0]
    /\ UNCHANGED <<env, match, acked, refused>>

(* The leader commits what a majority has, of its own term: up to index c. *)
Committed(l, known, c) ==
    LET common == {i \in 1..Len(log[l]) : /\ log[l][i].term = lead[l]
                                          /\ {s \in Replicas : s = l \/ known[s] >= i} \in Majorities}
    IN  c \in {commit[l]} \cup common /\ c >= commit[l] /\ \A i \in common : i <= c

(* The next reply on the connection is taken for the answer to the call.  One of another kind,  *)
(* or an error, counts as unreachable.                                                          *)
Receive(l, s) ==
    /\ wire[l][s].rep # <<>>
    /\ \E cl \in call[l][s], c \in 0..Len(log[l]) :
       LET reply == Head(wire[l][s].rep)
           fits == reply.kind = cl.kind
           deposed == fits /\ reply.term > lead[l]
           known == IF fits /\ reply.ok /\ cl.last > match[l][s] THEN [match[l] EXCEPT ![s] = cl.last] ELSE match[l]
       IN  /\ match' = [match EXCEPT ![l] = known]
           /\ IF ~fits \/ deposed THEN c = commit[l] ELSE Committed(l, known, c)
           /\ commit' = [commit EXCEPT ![l] = c]
           /\ lead' = IF deposed THEN [lead EXCEPT ![l] = 0] ELSE lead
           /\ IF deposed THEN save_vote({l}, reply.term) ELSE UNCHANGED vote
           /\ wire' = IF deposed THEN [wire EXCEPT ![l] = NoWires] ELSE [wire EXCEPT ![l][s] = [req |-> @.req, rep |-> Tail(@.rep)]]
           /\ call' = IF deposed THEN [call EXCEPT ![l] = NoCalls] ELSE [call EXCEPT ![l][s] = {}]
    /\ UNCHANGED <<env, log, purged, disk, mem, snap, halted, acked, refused, used>>

(* call_with_ttl: the call is given up, the connection stays. *)
Timeout(l, s) ==
    /\ call[l][s] # {} /\ May("timeout") /\ Count("timeout")
    /\ call' = [call EXCEPT ![l][s] = {}]
    /\ UNCHANGED <<env, storeVars, mem, snap, halted, lead, match, wire, commit, acked, refused>>

(* The connection breaks: it is dropped and opened again by the next call. *)
Break(l, s) ==
    /\ wire[l][s] # Closed /\ May("break") /\ Count("break")
    /\ wire' = [wire EXCEPT ![l][s] = Closed]
    /\ call' = [call EXCEPT ![l][s] = {}]
    /\ UNCHANGED <<env, storeVars, mem, snap, halted, lead, match, commit, acked, refused>>

(* A replica stops and starts from its files, with its configuration.  The library builds a     *)
(* snapshot at once when the log is purged.                                                     *)
open(r) == [state |-> disk[r].state, applied |-> disk[r].applied, configured |-> TRUE]

Reopen(r) ==
    /\ May("crash") /\ Count("crash")
    /\ mem' = [mem EXCEPT ![r] = open(r)]
    /\ snap' = [snap EXCEPT ![r] = IF purged[r] = 0 THEN {}
                                   ELSE {[state |-> disk[r].state, at |-> disk[r].applied]}]
    /\ commit' = [commit EXCEPT ![r] = disk[r].applied]
    /\ halted' = halted \ {r}
    /\ lead' = [lead EXCEPT ![r] = 0]
    /\ wire' = [q \in Replicas |-> IF q = r THEN NoWires ELSE [wire[q] EXCEPT ![r] = Closed]]
    /\ call' = [q \in Replicas |-> IF q = r THEN NoCalls ELSE [call[q] EXCEPT ![r] = {}]]
    /\ UNCHANGED <<env, log, purged, disk, match, acked, refused>>

(* Faulty variant of Restart: the vote is not in the log store. *)
RestartWithoutVote(r) == Reopen(r) /\ vote' = [vote EXCEPT ![r] = 0]

Restart(r) == Reopen(r) /\ UNCHANGED vote

----------------------------------------------------------------------------
(* Faulty variant of audit_binding: progress is not compared. *)
AuditWithoutProgress(r, b, applied) ==
    CASE b.id \in mem[r].state.revoked -> "unknown"
      [] b \in mem[r].state.entries -> "verified"
      [] OTHER -> "conflict"

(* The verdict of a replica on a binding with a valid signature.  The applied index is read     *)
(* first; entries may be applied before the state is.                                           *)
audit_binding(r, b, applied) ==
    CASE b.id \in mem[r].state.revoked -> "unknown"
      [] b.id \notin mem[r].state.revoked /\ b.anchor[1] > applied -> "behind"
      [] OTHER -> IF b \in mem[r].state.entries THEN "verified" ELSE "conflict"

----------------------------------------------------------------------------
Init ==
    /\ env \in Environments
    /\ vote = [r \in Replicas |-> 0] /\ log = [r \in Replicas |-> <<>>]
    /\ purged = [r \in Replicas |-> 0]
    /\ disk = [r \in Replicas |-> [state |-> Fresh, applied |-> 0]]
    /\ mem = [r \in Replicas |-> [state |-> Fresh, applied |-> 0, configured |-> TRUE]]
    /\ snap = [r \in Replicas |-> {}] /\ halted = {}
    /\ lead = [r \in Replicas |-> 0] /\ match = [r \in Replicas |-> [s \in Replicas |-> 0]]
    /\ commit = [r \in Replicas |-> 0]
    /\ wire = [r \in Replicas |-> NoWires] /\ call = [r \in Replicas |-> NoCalls]
    /\ acked = {} /\ refused = {}
    /\ used = [f \in Faults |-> 0]

Next ==
    \/ \E r \in Replicas : \/ apply(r) \/ build_snapshot(r) \/ purge(r)
                           \/ Reload(r) \/ Elect(r) \/ Restart(r)
    \/ \E r \in Replicas, k \in env.keys : RegisterNode(r, k)
    \/ \E r \in Replicas, id \in 1..env.log : RevokeNode(r, id)
    \/ \E l, s \in Replicas : Send(l, s) \/ Serve(l, s) \/ Receive(l, s) \/ Timeout(l, s) \/ Break(l, s)

Spec == Init /\ [][Next]_vars

----------------------------------------------------------------------------
(* Properties. *)

(* Applied exactly once: the identities in the memory and in the file of a replica are those    *)
(* that its log up to the applied index defines, across batches, snapshots, elections and       *)
(* restarts, and replicas that applied the same index agree.  Registrations that a replica      *)
(* refused because it ran without its configuration are excepted.                               *)
ReplicasReplay ==
    refused = {} => \A r \in Replicas :
        /\ mem[r].state = Replay(Fresh, TRUE, log[r], 1, mem[r].applied)
        /\ disk[r].state = Replay(Fresh, TRUE, log[r], 1, disk[r].applied)
        /\ \A s \in Replicas : mem[s].applied = mem[r].applied =>
                mem[s].state = mem[r].state

(* A binding that was answered to a node is never called a conflict: every replica verifies it, *)
(* knows that it is behind, or knows the revocation; also when it applies entries between the   *)
(* two reads of the audit, and when it applied what it could not store.                         *)
AuditSound ==
    refused = {} => \A r \in Replicas, a \in acked :
        \A applied \in 0..mem[r].applied : audit_binding(r, a.binding, applied) # "conflict"

(* What was answered survives elections: every leader of the term of the answer or a later one  *)
(* has the entry (REQ-049: "诚实多数下 Raft 保证已提交日志不可分叉").                                *)
LeadersKeepAnswers ==
    \A r \in Replicas, a \in acked :
        lead[r] >= a.term => /\ Len(log[r]) >= a.binding.anchor[1]
                             /\ log[r][a.binding.anchor[1]].term = a.binding.anchor[2]

=============================================================================
