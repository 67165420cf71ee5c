------------------------------ MODULE Coordinator ------------------------------
(***************************************************************************)
(* The coordinator's registration path: node registry, key versions,       *)
(* liveness, revocation and write-through persistence, driven by control   *)
(* connections (challenge, proof of possession, heartbeat) and by the      *)
(* administration endpoint.                                                *)
(*                                                                         *)
(* The control server handles one message at a time (it holds one mutex    *)
(* for a whole message), but the administration endpoint reaches the same  *)
(* Coordinator through its own handle: a revocation can fall between any   *)
(* two Coordinator calls of one message.  A CHALLENGE_ACK is therefore     *)
(* several steps here, one per Coordinator call that matters.              *)
(***************************************************************************)
EXTENDS Integers, FiniteSets

CONSTANTS
    Nets,             \* network ids, in the order of the configuration
    PubKeys,          \* static public keys of nodes
    AuthKeys,         \* auth keys that may ever be configured
    OneTimeKeys,      \* those with policy "onetime"
    KeyNet,           \* the network embedded in an auth key
    KeyExpiry,        \* the expiry embedded in an auth key, 0 = never
    Attrs,            \* what a registration carries: [acl : BOOLEAN, route : ...]
    Configs,          \* configuration files: [keys, acl, routes]
    Reporters,        \* ids of the nodes that have an address to report
    Conns,            \* control connections (slots, reused after a close)
    ChallengeWindow,  \* 30 s in the code
    RevokeWindow,     \* REVOKE_ROTATION_WINDOW_SECS
    LeaseExpiry,      \* LEASE_EXPIRY_SECS
    StoreMayFail,     \* may a write to the store fail?
    MaxNodeId,        \* bound on allocated node ids
    MaxKeyVersion,    \* no explicit rotation at or above this version
    MaxTime,          \* bound on the clock
    MaxCrashes        \* bound on process crashes

ASSUME NetsAssumption == Nets \subseteq Nat
ASSUME KeysAssumption ==
    /\ OneTimeKeys \subseteq AuthKeys
    /\ KeyNet \in [AuthKeys -> Nets]
    /\ KeyExpiry \in [AuthKeys -> Nat]
ASSUME ConfigsAssumption ==
    \A cfg \in Configs : /\ cfg.keys \subseteq AuthKeys
                         /\ cfg.acl \subseteq Nets
ASSUME BoundsAssumption ==
    /\ ChallengeWindow \in Nat /\ RevokeWindow \in Nat /\ LeaseExpiry \in Nat
    /\ MaxNodeId \in Nat /\ MaxKeyVersion \in Nat /\ MaxTime \in Nat /\ MaxCrashes \in Nat
    /\ StoreMayFail \in BOOLEAN
    /\ Reporters \subseteq 1..MaxNodeId

VARIABLES
    now,          \* unix_seconds()
    up,           \* is the process running?
    crashes,      \* crashes so far
    config,       \* the configuration file last applied
    entries,      \* NodeEntry records of all registries
    pubkeys,      \* Registry.pubkeys of all registries: [net, pub, id]
    authKeys,     \* Registry.auth_keys of all registries
    consumed,     \* Registry.consumed_one_time of all registries
    nextNodeId,   \* Coordinator.next_node_id
    revoked,      \* Coordinator.revoked (tombstones)
    keyVersion,   \* KeyManager.key_version of each network
    pending,      \* KeyManager.pending_revoke_rotation of each network
    endpoints,    \* nodes with an entry in Directory.endpoints
    lastSeen,     \* Liveness.last_seen
    offline,      \* Liveness.offline
    store,        \* the snapshot in redb
    phase,        \* where the handler of each connection is
    chal,         \* ConnectionState.challenge: {} or one challenge
    reg,          \* ConnectionState.registered, 0 = none
    issued,       \* history: every admission [id, pub, net, key]
    acked,        \* history: identities sent in a REGISTER_RESPONSE
    revokedAt     \* history: [id, net, at, ver] of every revocation

registryVars == <<entries, pubkeys, authKeys, consumed, nextNodeId, revoked>>
keyVars == <<keyVersion, pending>>
liveVars == <<lastSeen, offline>>
connVars == <<phase, chal, reg>>
procVars == <<now, up, crashes, config>>
vars == <<procVars, registryVars, keyVars, endpoints, liveVars, store, connVars,
          issued, acked, revokedAt>>

NodeIds == 1..MaxNodeId
Never == -1         \* a node without last_seen, a network without a window

Entry == [id : NodeIds, net : Nets, pub : PubKeys, attrs : Attrs]
Index == [net : Nets, pub : PubKeys, id : NodeIds]
Challenge == [id : NodeIds \cup {0}, pub : PubKeys, key : AuthKeys,
              attrs : Attrs, issuedAt : Nat]

Ids(S) == {e.id : e \in S}
EntryOf(id) == {e \in entries : e.id = id}

\* Faulty variants of Snapshot: the next id recomputed from the entries, the
\* tombstones left out, the armed rotations left out.
SnapshotRecountsIds ==
    [entries |-> entries, consumed |-> consumed,
     nextNodeId |-> 1 + Cardinality(entries),
     revoked |-> revoked, keyVersion |-> keyVersion, pending |-> pending,
     endpoints |-> endpoints]

SnapshotForgetsTombstones ==
    [entries |-> entries, consumed |-> consumed, nextNodeId |-> nextNodeId,
     revoked |-> {}, keyVersion |-> keyVersion, pending |-> pending,
     endpoints |-> endpoints]

SnapshotForgetsWindows ==
    [entries |-> entries, consumed |-> consumed, nextNodeId |-> nextNodeId,
     revoked |-> revoked, keyVersion |-> keyVersion,
     pending |-> [n \in Nets |-> Never], endpoints |-> endpoints]

\* snapshot(): the durable part of the state.
Snapshot ==
    [entries |-> entries, consumed |-> consumed, nextNodeId |-> nextNodeId,
     revoked |-> revoked, keyVersion |-> keyVersion, pending |-> pending,
     endpoints |-> endpoints]

\* persist(): a failed write is logged and the old snapshot stays.
Persist == \/ store' = Snapshot'
           \/ StoreMayFail /\ store' = store
-----------------------------------------------------------------------------
(* Registry                                                                *)

\* node_id_by_pubkey: what the first domain, in order, whose index knows the key
\* says ({} when none does).
NodeIdByPubkey(p) ==
    LET hits == {x \in pubkeys : x.pub = p}
    IN  {x.id : x \in {y \in hits : \A z \in hits : y.net <= z.net}}

Unexpired(k) == KeyExpiry[k] = 0 \/ now <= KeyExpiry[k]

AuthKeyAdmissible(k) == Unexpired(k) /\ k \in authKeys

ResumeMatches(id, a) == \E e \in EntryOf(id) : e.attrs = a

\* Faulty variant of RegisterOutcome: the auth key is not looked at again.
RegisterTrustsCheck(p, k, a) ==
    LET n == KeyNet[k]
        known == {x \in pubkeys : x.net = n /\ x.pub = p}
    IN  IF ~(n \in config.acl => a.acl) THEN {}
        ELSE IF known # {}
             THEN {[id |-> x.id, new |-> FALSE] :
                       x \in {y \in known : ResumeMatches(y.id, a)}}
             ELSE IF a.route \in config.routes[n]
                  THEN {[id |-> nextNodeId, new |-> TRUE]} ELSE {}

\* What register_inner and Registry::register do with one request: the set of
\* outcomes is empty (refused) or has one element, [id, new].
RegisterOutcome(p, k, a) ==
    LET n == KeyNet[k]
        known == {x \in pubkeys : x.net = n /\ x.pub = p}
    IN  IF ~Unexpired(k) \/ ~(n \in config.acl => a.acl) \/ k \notin authKeys THEN {}
        ELSE IF known # {}
             THEN {[id |-> x.id, new |-> FALSE] :
                       x \in {y \in known : ResumeMatches(y.id, a)}}
             ELSE IF a.route \in config.routes[n]
                  THEN {[id |-> nextNodeId, new |-> TRUE]} ELSE {}

\* Faulty variant of Consume: no key is recorded.
ConsumeForgets(k) == consumed

\* consumed_one_time after a new node used k.
Consume(k) == consumed \cup ({k} \cap OneTimeKeys)

\* The insertions of Registry::register for a new node.
Admit(id, p, k, a) ==
    /\ entries' = entries \cup {[id |-> id, net |-> KeyNet[k], pub |-> p, attrs |-> a]}
    /\ pubkeys' = pubkeys \cup {[net |-> KeyNet[k], pub |-> p, id |-> id]}
    /\ authKeys' = authKeys \ ({k} \cap OneTimeKeys)
    /\ consumed' = Consume(k)
    /\ nextNodeId' = nextNodeId + 1
    /\ issued' = issued \cup {[id |-> id, pub |-> p, net |-> KeyNet[k], key |-> k]}
    /\ UNCHANGED revoked
-----------------------------------------------------------------------------
(* Key versions and liveness                                               *)

\* Networks whose merge window has ended (take_revoke_rotation).
Due == {n \in Nets : pending[n] # Never /\ now >= pending[n]}

FlushedVersion == [n \in Nets |-> keyVersion[n] + (IF n \in Due THEN 1 ELSE 0)]
FlushedPending == [n \in Nets |-> IF n \in Due THEN Never ELSE pending[n]]

\* The snapshot flush_revoke_rotations writes on its own.
FlushedSnapshot ==
    [Snapshot EXCEPT !.keyVersion = FlushedVersion, !.pending = FlushedPending]

\* Liveness::sweep after last_seen became seen.
ExpiredLeases(seen) == {i \in NodeIds : seen[i] # Never /\ now - seen[i] > LeaseExpiry}

\* flush_revoke_rotations in a call that changes nothing else that is durable.
FlushRotations ==
    /\ keyVersion' = FlushedVersion
    /\ pending' = FlushedPending
    /\ UNCHANGED <<registryVars, endpoints>>
    /\ IF Due # {} THEN Persist ELSE UNCHANGED store

\* Coordinator::heartbeat.
CoordHeartbeat(id) ==
    /\ FlushRotations
    /\ lastSeen' = [lastSeen EXCEPT ![id] = now]
    /\ offline' = (offline \ {id}) \cup ExpiredLeases(lastSeen')
-----------------------------------------------------------------------------
(* Control connections                                                     *)

\* The server mutex is free: no handler is between two of its calls.
ServerIdle == up /\ \A c \in Conns : phase[c] \in {"closed", "open"}

CloseConn(c) ==
    /\ phase' = [phase EXCEPT ![c] = "closed"]
    /\ chal' = [chal EXCEPT ![c] = {}]
    /\ reg' = [reg EXCEPT ![c] = 0]

Connect(c) ==
    /\ up
    /\ phase[c] = "closed"
    /\ phase' = [phase EXCEPT ![c] = "open"]
    /\ UNCHANGED <<procVars, registryVars, keyVars, endpoints, liveVars, store,
                   chal, reg, issued, acked, revokedAt>>

\* The peer goes away, or sends what the server answers by closing: an ACK
\* without a challenge, with a wrong tag, or a malformed message.
Disconnect(c) ==
    /\ up
    /\ phase[c] = "open"
    /\ CloseConn(c)
    /\ UNCHANGED <<procVars, registryVars, keyVars, endpoints, liveVars, store,
                   issued, acked, revokedAt>>

\* REGISTER: classify by public key, check the auth key of a new node without
\* consuming it, send a challenge.
Register(c, p, k, a) ==
    /\ ServerIdle
    /\ phase[c] = "open"
    /\ LET known == NodeIdByPubkey(p)
           SendChallenge(id) ==
               /\ chal' = [chal EXCEPT ![c] = {[id |-> id, pub |-> p, key |-> k,
                                                attrs |-> a, issuedAt |-> now]}]
               /\ UNCHANGED <<phase, reg>>
       IN  \/ \E id \in known : SendChallenge(id)
           \/ known = {} /\ AuthKeyAdmissible(k) /\ SendChallenge(0)
           \/ known = {} /\ ~AuthKeyAdmissible(k) /\ CloseConn(c)
    /\ UNCHANGED <<procVars, registryVars, keyVars, endpoints, liveVars, store,
                   issued, acked, revokedAt>>

InWindow(ch) == now <= ch.issuedAt + ChallengeWindow

\* The proof of possession of a known key, first part: the entry the challenge
\* was made for must still exist, with the same public key.
AckResume(c) ==
    /\ ServerIdle
    /\ phase[c] = "open"
    /\ \E ch \in chal[c] :
        /\ ch.id # 0
        /\ IF InWindow(ch) /\ \E e \in EntryOf(ch.id) : e.pub = ch.pub
           THEN /\ phase' = [phase EXCEPT ![c] = "resume"]
                /\ UNCHANGED <<chal, reg>>
           ELSE CloseConn(c)
    /\ UNCHANGED <<procVars, registryVars, keyVars, endpoints, liveVars, store,
                   issued, acked, revokedAt>>

\* Second part: resume_matches decides whether the identity is handed back.
ResumeMatch(c) ==
    /\ up
    /\ phase[c] = "resume"
    /\ \E ch \in chal[c] :
        IF ResumeMatches(ch.id, ch.attrs)
        THEN /\ phase' = [phase EXCEPT ![c] = "resumeBeat"]
             /\ chal' = [chal EXCEPT ![c] = {}]
             /\ reg' = [reg EXCEPT ![c] = ch.id]
        ELSE CloseConn(c)
    /\ UNCHANGED <<procVars, registryVars, keyVars, endpoints, liveVars, store,
                   issued, acked, revokedAt>>

\* The proof of possession of an unknown key: the admission itself.
AckNew(c) ==
    /\ ServerIdle
    /\ phase[c] = "open"
    /\ UNCHANGED <<procVars, keyVars, endpoints, liveVars, acked, revokedAt>>
    /\ \E ch \in chal[c] :
        /\ ch.id = 0
        /\ LET outs == IF InWindow(ch) THEN RegisterOutcome(ch.pub, ch.key, ch.attrs) ELSE {}
           IN  \/ /\ outs = {}
                  /\ CloseConn(c)
                  /\ UNCHANGED <<registryVars, issued, store>>
               \/ \E out \in outs :
                  /\ out.id \in NodeIds
                  /\ IF out.new THEN Admit(out.id, ch.pub, ch.key, ch.attrs)
                                ELSE UNCHANGED <<registryVars, issued>>
                  /\ Persist
                  /\ phase' = [phase EXCEPT ![c] = "newBeat"]
                  /\ chal' = [chal EXCEPT ![c] = {}]
                  /\ reg' = [reg EXCEPT ![c] = out.id]

\* Both kinds then count as a heartbeat ...
Beat(c) ==
    /\ up
    /\ phase[c] \in {"resumeBeat", "newBeat"}
    /\ CoordHeartbeat(reg[c])
    /\ phase' = [phase EXCEPT ![c] = IF @ = "newBeat" THEN "newRespond" ELSE "resumeRespond"]
    /\ UNCHANGED <<procVars, chal, reg, issued, acked, revokedAt>>

\* ... and answer: a resumed node needs its entry once more (its binding), a new
\* one is answered from what register returned.  The write may fail.
Respond(c) ==
    /\ up
    /\ phase[c] \in {"resumeRespond", "newRespond"}
    /\ \/ CloseConn(c) /\ UNCHANGED acked
       \/ /\ phase[c] = "newRespond" \/ EntryOf(reg[c]) # {}
          /\ phase' = [phase EXCEPT ![c] = "open"]
          /\ acked' = acked \cup {reg[c]}
          /\ UNCHANGED <<chal, reg>>
    /\ UNCHANGED <<procVars, registryVars, keyVars, endpoints, liveVars, store,
                   issued, revokedAt>>

\* HEARTBEAT on a registered connection.
Heartbeat(c) ==
    /\ ServerIdle
    /\ phase[c] = "open"
    /\ reg[c] # 0
    /\ CoordHeartbeat(reg[c])
    /\ UNCHANGED <<procVars, connVars, issued, acked, revokedAt>>

\* ENDPOINT_REPORT with at least one address.
ReportEndpoints(c) ==
    /\ ServerIdle
    /\ phase[c] = "open"
    /\ reg[c] \in Reporters
    /\ endpoints' = endpoints \cup {reg[c]}
    /\ UNCHANGED <<procVars, registryVars, keyVars, liveVars, connVars,
                   issued, acked, revokedAt>>
    /\ Persist
-----------------------------------------------------------------------------
(* Administration, configuration, process                                  *)

\* arm_revoke_rotation after the windows that are due were flushed.
Arm(n) == [FlushedPending EXCEPT ![n] = IF @ = Never THEN now + RevokeWindow ELSE @]

\* The public-key index after the entry of a revoked node was removed.
DropIndex(id) == {x \in pubkeys : x.id # id}

\* POST /admin/revoke for a node that is registered.
Revoke(id) ==
    /\ up
    /\ \E e \in EntryOf(id) :
        /\ entries' = {x \in entries : x.id # id}
        /\ pubkeys' = DropIndex(id)
        /\ revoked' = revoked \cup {id}
        /\ endpoints' = endpoints \ {id}
        /\ lastSeen' = [lastSeen EXCEPT ![id] = Never]
        /\ offline' = offline \ {id}
        /\ keyVersion' = FlushedVersion
        /\ pending' = Arm(e.net)
        /\ revokedAt' = revokedAt \cup {[id |-> id, net |-> e.net, at |-> now,
                                         ver |-> FlushedVersion[e.net]]}
    /\ UNCHANGED <<procVars, authKeys, consumed, nextNodeId, connVars, issued, acked>>
    /\ \/ Persist
       \/ StoreMayFail /\ Due # {} /\ store' = FlushedSnapshot

\* POST /admin/revoke for a node that another request has revoked since the
\* handler found it registered: the windows that are due are flushed all the same.
RevokeAbsent(id) ==
    /\ up
    /\ id \in revoked /\ EntryOf(id) = {}
    /\ FlushRotations
    /\ UNCHANGED <<procVars, liveVars, connVars, issued, acked, revokedAt>>

\* rotate_master_key: takes effect at once and absorbs a pending window.
RotateMasterKey(n) ==
    /\ up
    /\ keyVersion[n] < MaxKeyVersion
    /\ keyVersion' = [keyVersion EXCEPT ![n] = @ + 1]
    /\ pending' = [pending EXCEPT ![n] = Never]
    /\ UNCHANGED <<procVars, registryVars, endpoints, liveVars, connVars,
                   issued, acked, revokedAt>>
    /\ Persist

\* Auth keys after apply_to: the file's keys that were not consumed.
ReloadKeys(cfg) == (authKeys \cup (cfg.keys \ consumed)) \cap cfg.keys

\* SIGHUP.
Reload(cfg) ==
    /\ ServerIdle
    /\ config' = cfg
    /\ authKeys' = ReloadKeys(cfg)
    /\ UNCHANGED <<now, up, crashes, entries, pubkeys, consumed, nextNodeId, revoked,
                   keyVars, endpoints, liveVars, store, connVars, issued, acked, revokedAt>>

Tick ==
    /\ now < MaxTime
    /\ now' = now + 1
    /\ UNCHANGED <<up, crashes, config, registryVars, keyVars, endpoints, liveVars, store,
                   connVars, issued, acked, revokedAt>>

\* The process dies between any two calls; its memory is gone.
Crash ==
    /\ up
    /\ crashes < MaxCrashes
    /\ up' = FALSE
    /\ crashes' = crashes + 1
    /\ phase' = [c \in Conns |-> "closed"]
    /\ chal' = [c \in Conns |-> {}]
    /\ reg' = [c \in Conns |-> 0]
    /\ lastSeen' = [i \in NodeIds |-> Never]
    /\ offline' = {}
    /\ UNCHANGED <<now, config, registryVars, keyVars, endpoints, store,
                   issued, acked, revokedAt>>

\* The checks of restore_state: what the store must satisfy for a start.  The
\* networks of the configuration are Nets at every start.
Loadable(st) ==
    /\ \A e \in st.entries : e.id < st.nextNodeId /\ e.net \in Nets
    /\ \A e, f \in st.entries : e # f => e.id # f.id /\ e.pub # f.pub
    /\ Nets \subseteq DOMAIN st.keyVersion

\* Coordinator::open, then apply_to with the configuration found.
Restart(cfg) ==
    /\ ~up
    /\ Loadable(store)
    /\ up' = TRUE
    /\ config' = cfg
    /\ entries' = store.entries
    /\ pubkeys' = {[net |-> e.net, pub |-> e.pub, id |-> e.id] : e \in store.entries}
    /\ consumed' = store.consumed
    /\ authKeys' = cfg.keys \ store.consumed
    /\ nextNodeId' = store.nextNodeId
    /\ revoked' = store.revoked
    /\ keyVersion' = store.keyVersion
    /\ pending' = store.pending
    /\ endpoints' = store.endpoints
    /\ UNCHANGED <<now, crashes, lastSeen, offline, store, connVars, issued, acked, revokedAt>>
-----------------------------------------------------------------------------
EmptyStore ==
    [entries |-> {}, consumed |-> {}, nextNodeId |-> 1, revoked |-> {},
     keyVersion |-> [n \in Nets |-> 1], pending |-> [n \in Nets |-> Never],
     endpoints |-> {}]

\* A first start: an empty store and some configuration applied (at time 1, an
\* expiry of 0 means "never").
Init ==
    /\ now = 1
    /\ up = TRUE
    /\ crashes = 0
    /\ config \in Configs
    /\ entries = {} /\ pubkeys = {} /\ consumed = {} /\ revoked = {} /\ endpoints = {}
    /\ authKeys = config.keys
    /\ nextNodeId = 1
    /\ keyVersion = [n \in Nets |-> 1]
    /\ pending = [n \in Nets |-> Never]
    /\ lastSeen = [i \in NodeIds |-> Never]
    /\ offline = {}
    /\ store = EmptyStore
    /\ phase = [c \in Conns |-> "closed"]
    /\ chal = [c \in Conns |-> {}]
    /\ reg = [c \in Conns |-> 0]
    /\ issued = {} /\ acked = {} /\ revokedAt = {}

Handler(c) ==
    \/ Connect(c) \/ Disconnect(c)
    \/ \E p \in PubKeys, k \in AuthKeys, a \in Attrs : Register(c, p, k, a)
    \/ AckResume(c) \/ ResumeMatch(c) \/ AckNew(c) \/ Beat(c) \/ Respond(c)
    \/ Heartbeat(c) \/ ReportEndpoints(c)

Next ==
    \/ \E c \in Conns : Handler(c)
    \/ \E id \in NodeIds : Revoke(id) \/ RevokeAbsent(id)
    \/ \E n \in Nets : RotateMasterKey(n)
    \/ \E cfg \in Configs : Reload(cfg) \/ Restart(cfg)
    \/ Tick
    \/ Crash

Spec == Init /\ [][Next]_vars
-----------------------------------------------------------------------------
(* Properties                                                              *)

Durable == [entries : SUBSET Entry, consumed : SUBSET OneTimeKeys, nextNodeId : Nat \ {0},
            revoked : SUBSET NodeIds, keyVersion : [Nets -> Nat],
            pending : [Nets -> Nat \cup {Never}], endpoints : SUBSET NodeIds]

Phases == {"closed", "open", "resume", "resumeBeat", "newBeat",
           "resumeRespond", "newRespond"}

\* Every variable keeps its type; a handler that is past its admission has a node.
TypeOK ==
    /\ now \in Nat /\ up \in BOOLEAN /\ crashes \in Nat /\ config \in Configs
    /\ entries \subseteq Entry /\ pubkeys \subseteq Index
    /\ authKeys \subseteq AuthKeys /\ consumed \subseteq OneTimeKeys
    /\ nextNodeId \in Nat \ {0} /\ revoked \subseteq NodeIds
    /\ keyVersion \in [Nets -> Nat] /\ pending \in [Nets -> Nat \cup {Never}]
    /\ endpoints \subseteq NodeIds
    /\ lastSeen \in [NodeIds -> Nat \cup {Never}] /\ offline \subseteq NodeIds
    /\ store \in Durable
    /\ phase \in [Conns -> Phases] /\ chal \in [Conns -> SUBSET Challenge]
    /\ reg \in [Conns -> NodeIds \cup {0}]
    /\ \A c \in Conns : phase[c] \notin {"closed", "open", "resume"} => reg[c] # 0
    /\ issued \subseteq [id : NodeIds, pub : PubKeys, net : Nets, key : AuthKeys]
    /\ acked \subseteq NodeIds
    /\ revokedAt \subseteq [id : NodeIds, net : Nets, at : Nat, ver : Nat]

\* Entries and the public-key index of each registry describe each other, and a
\* network has one entry per public key: register's lookup of an indexed entry
\* (an unwrap in the code) cannot fail.
IndexConsistent ==
    /\ pubkeys = {[net |-> e.net, pub |-> e.pub, id |-> e.id] : e \in entries}
    /\ \A e, f \in entries : e.id = f.id \/ (e.net = f.net /\ e.pub = f.pub) => e = f

\* A one-time auth key admits one node, ever: not two connections that were both
\* challenged on it, and not again after a reload or a restart whose
\* configuration still lists it.
OneTimeKeyOnce ==
    \A x, y \in issued : x.key = y.key /\ x.key \in OneTimeKeys => x = y

\* A node id names one admission, ever: revoking the newest node and restarting
\* does not hand its id to the next one.
NodeIdNeverReused == \A x, y \in issued : x.id = y.id => x = y

\* A revoked node has a tombstone and neither an entry nor an index row, also
\* after a restart.
RevokedStaysOut ==
    up => \A r \in revokedAt :
        r.id \in revoked /\ \A e \in entries \cup pubkeys : e.id # r.id

\* Every revocation is followed by a rotation of its network: the version has
\* moved since, or a window is armed that ends within RevokeWindow of this very
\* revocation (later ones do not extend it, a restart does not lose it).
RevocationRotates ==
    up => \A r \in revokedAt :
        \/ keyVersion[r.net] > r.ver
        \/ pending[r.net] # Never /\ pending[r.net] <= r.at + RevokeWindow

\* An identity that was answered to a node is in the store or has a tombstone
\* there: a crash right after REGISTER_RESPONSE loses no identity.
AckedIsDurable == acked \subseteq Ids(store.entries) \cup store.revoked

\* The abstract membership, read off the public-key index and the tombstones.
Mem == INSTANCE Membership WITH Identity <- Index, members <- pubkeys, gone <- revoked

\* The coordinator implements the abstract membership: through challenges that
\* outlive a revocation, reloads, crashes and restarts, a node id is bound once to
\* a public key its network did not have, and a revoked id never comes back.
MembershipKept == Mem!MSpec

\* One public key was admitted by two networks: both challenges were sent before
\* either admission, and a registry looks a key up among its own nodes only.
AdmittedTwice(S) == \E e, f \in S : e.pub = f.pub /\ e.net # f.net

\* The next start accepts what the store holds, whatever writes failed and
\* whenever the process died; the one exception is a key of two networks, which
\* register lets through and restore_state refuses.
StoreLoadable == Loadable(store) \/ AdmittedTwice(store.entries)

\* The admission of a new node uses a key that is, at that step, configured,
\* unexpired and not consumed, though the key was checked before the challenge.
FreshStep ==
    up => \A e \in entries' \ entries : \E k \in config.keys \ consumed :
            /\ KeyNet[k] = e.net
            /\ Unexpired(k)
            /\ [id |-> e.id, pub |-> e.pub, net |-> e.net, key |-> k] \in issued'

AdmissionFresh == [][FreshStep]_vars
=============================================================================
