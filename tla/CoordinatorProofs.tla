-------------------------- MODULE CoordinatorProofs --------------------------
(***************************************************************************)
(* Proofs about Coordinator, for every set of networks, keys, nodes and     *)
(* connections and for every bound.                                         *)
(***************************************************************************)
EXTENDS Coordinator, TLAPS

(* Every leaf that names no prover is tried by the SMT translation, by it   *)
(* once more, and by Zenon.                                                *)
USE SMTT(10), Z3T(10), Zenon

USE DEF Never

\* What the type invariant says of single variables.
LEMMA TypeFacts ==
    ASSUME TypeOK
    PROVE  /\ now \in Nat /\ nextNodeId \in Nat /\ RevokeWindow \in Nat
           /\ keyVersion \in [Nets -> Nat] /\ pending \in [Nets -> Nat \cup {Never}]
           /\ \A e \in entries : e.id \in Nat /\ e.net \in Nets
           /\ \A x \in issued : x.id \in Nat
           /\ \A r \in revokedAt : r.net \in Nets /\ r.ver \in Nat /\ r.at \in Nat /\ r.id \in Nat
<1>0. NodeIds \subseteq Nat
  BY BoundsAssumption DEF NodeIds
<1>1. now \in Nat /\ nextNodeId \in Nat
  BY DEF TypeOK
<1>2. RevokeWindow \in Nat
  BY BoundsAssumption
<1>3. keyVersion \in [Nets -> Nat] /\ pending \in [Nets -> Nat \cup {Never}]
  BY DEF TypeOK
<1>4. \A e \in entries : e.id \in Nat /\ e.net \in Nets
  <2>1. entries \subseteq Entry
    BY DEF TypeOK
  <2>. QED  BY ZenonT(30), <1>0, <2>1 DEF Entry
<1>5. \A x \in issued : x.id \in Nat
  <2>1. issued \subseteq [id : NodeIds, pub : PubKeys, net : Nets, key : AuthKeys]
    BY DEF TypeOK
  <2>. QED  BY ZenonT(30), <1>0, <2>1
<1>6. \A r \in revokedAt : r.net \in Nets /\ r.ver \in Nat /\ r.at \in Nat /\ r.id \in Nat
  <2>1. revokedAt \subseteq [id : NodeIds, net : Nets, at : Nat, ver : Nat]
    BY DEF TypeOK
  <2>. QED  BY ZenonT(30), <1>0, <2>1
<1>. QED  BY <1>1, <1>2, <1>3, <1>4, <1>5, <1>6

\* The first state is well-typed.
LEMMA InitType == ASSUME Init PROVE TypeOK
<1>1. /\ now \in Nat /\ up \in BOOLEAN /\ crashes \in Nat /\ nextNodeId \in Nat \ {0}
  BY DEF Init
<1>2. /\ config \in Configs /\ authKeys \subseteq AuthKeys
  BY ConfigsAssumption DEF Init
<1>3. /\ keyVersion \in [Nets -> Nat] /\ pending \in [Nets -> Nat \cup {Never}]
  BY DEF Init
<1>4. lastSeen \in [NodeIds -> Nat \cup {Never}]
  BY DEF Init
<1>5. /\ phase \in [Conns -> Phases] /\ \A c \in Conns : phase[c] = "closed"
      /\ chal \in [Conns -> SUBSET Challenge] /\ reg \in [Conns -> NodeIds \cup {0}]
  BY DEF Init, Phases
<1>6. EmptyStore \in Durable
  BY DEF EmptyStore, Durable
<1>7. /\ entries = {} /\ pubkeys = {} /\ consumed = {} /\ revoked = {} /\ endpoints = {}
      /\ offline = {} /\ issued = {} /\ acked = {} /\ revokedAt = {} /\ store = EmptyStore
  BY DEF Init
<1>. QED  BY <1>1, <1>2, <1>3, <1>4, <1>5, <1>6, <1>7 DEF TypeOK

\* What a flush of the windows that are due leaves well-typed.
LEMMA FlushType ==
    ASSUME TypeOK, FlushRotations
    PROVE  /\ keyVersion' \in [Nets -> Nat] /\ pending' \in [Nets -> Nat \cup {Never}]
           /\ store' \in Durable
<1>1. /\ keyVersion' \in [Nets -> Nat] /\ pending' \in [Nets -> Nat \cup {Never}]
  BY DEF TypeOK, FlushRotations, FlushedVersion, FlushedPending
<1>2. store' \in Durable
  BY <1>1 DEF TypeOK, FlushRotations, Persist, Snapshot, Durable, registryVars
<1>. QED  BY <1>1, <1>2

\* What a heartbeat leaves well-typed.
LEMMA HeartbeatType ==
    ASSUME TypeOK, NEW id \in NodeIds, CoordHeartbeat(id)
    PROVE  /\ keyVersion' \in [Nets -> Nat] /\ pending' \in [Nets -> Nat \cup {Never}]
           /\ lastSeen' \in [NodeIds -> Nat \cup {Never}] /\ offline' \subseteq NodeIds
           /\ store' \in Durable
<1>1. FlushRotations
  BY DEF CoordHeartbeat
<1>2. /\ lastSeen' \in [NodeIds -> Nat \cup {Never}] /\ offline' \subseteq NodeIds
  BY DEF TypeOK, CoordHeartbeat, ExpiredLeases
<1>. QED  BY <1>1, <1>2, FlushType

\* The type invariant is preserved by every step.
LEMMA TypeStep == TypeOK /\ [Next]_vars => TypeOK'
<1>. SUFFICES ASSUME TypeOK, [Next]_vars PROVE TypeOK'
  OBVIOUS
<1>. USE NetsAssumption, KeysAssumption, ConfigsAssumption, BoundsAssumption
<1>1. ASSUME NEW c \in Conns, Connect(c) \/ Disconnect(c) PROVE TypeOK'
  BY <1>1 DEF TypeOK, Connect, Disconnect, CloseConn, Phases, procVars, registryVars,
              keyVars, liveVars
<1>2. ASSUME NEW c \in Conns, NEW p \in PubKeys, NEW k \in AuthKeys, NEW a \in Attrs,
             Register(c, p, k, a)
      PROVE TypeOK'
  <2>1. NodeIdByPubkey(p) \subseteq NodeIds
    BY DEF NodeIdByPubkey, TypeOK, Index
  <2>2. chal' \in [Conns -> SUBSET Challenge]
    BY <1>2, <2>1 DEF Register, TypeOK, CloseConn, Challenge
  <2>. QED
    BY <1>2, <2>2 DEF TypeOK, Register, CloseConn, Phases, procVars, registryVars, keyVars,
                      liveVars
<1>3. ASSUME NEW c \in Conns, AckResume(c) \/ ResumeMatch(c) PROVE TypeOK'
  <2>1. ASSUME NEW ch \in chal[c], ResumeMatches(ch.id, ch.attrs) PROVE ch.id \in NodeIds \ {0}
    BY <2>1 DEF TypeOK, ResumeMatches, EntryOf, Entry, NodeIds
  <2>2. CASE AckResume(c)
    BY <2>2 DEF TypeOK, AckResume, CloseConn, Phases, procVars, registryVars, keyVars, liveVars
  <2>3. CASE ResumeMatch(c)
    BY <2>1, <2>3 DEF TypeOK, ResumeMatch, CloseConn, Phases, procVars, registryVars, keyVars,
                      liveVars
  <2>. QED  BY <1>3, <2>2, <2>3
<1>4. ASSUME NEW c \in Conns, AckNew(c) PROVE TypeOK'
  <2>1. PICK ch \in chal[c] :
            LET outs == IF InWindow(ch) THEN RegisterOutcome(ch.pub, ch.key, ch.attrs) ELSE {}
            IN  \/ /\ outs = {}
                   /\ CloseConn(c)
                   /\ UNCHANGED <<registryVars, issued, store>>
                \/ \E out \in outs :
                   /\ out.id \in NodeIds
                   /\ IF out.new THEN Admit(out.id, ch.pub, ch.key, ch.attrs)
                                 ELSE UNCHANGED <<registryVars, issued>>
                   /\ Persist
                   /\ phase' = [phase EXCEPT ![c] = "newBeat"]
                   /\ chal' = [chal EXCEPT ![c] = {}]
                   /\ reg' = [reg EXCEPT ![c] = out.id]
    BY <1>4 DEF AckNew
  <2>2. ch \in Challenge
    BY <2>1 DEF TypeOK
  <2>3. /\ UNCHANGED <<now, up, crashes, config, keyVersion, pending, endpoints, lastSeen,
                       offline, acked, revokedAt>>
    BY <1>4 DEF AckNew, procVars, keyVars, liveVars
  <2>4. CASE CloseConn(c) /\ UNCHANGED <<registryVars, issued, store>>
    BY <2>4, <2>3 DEF TypeOK, CloseConn, Phases, registryVars
  <2>5. ASSUME NEW id \in NodeIds,
               \/ Admit(id, ch.pub, ch.key, ch.attrs)
               \/ UNCHANGED <<registryVars, issued>>,
               Persist,
               phase' = [phase EXCEPT ![c] = "newBeat"],
               chal' = [chal EXCEPT ![c] = {}],
               reg' = [reg EXCEPT ![c] = id]
        PROVE TypeOK'
    <3>1. /\ entries' \subseteq Entry /\ pubkeys' \subseteq Index
          /\ authKeys' \subseteq AuthKeys /\ consumed' \subseteq OneTimeKeys
          /\ nextNodeId' \in Nat \ {0} /\ revoked' \subseteq NodeIds
          /\ issued' \subseteq [id : NodeIds, pub : PubKeys, net : Nets, key : AuthKeys]
      BY <2>2, <2>5 DEF TypeOK, Admit, Consume, Challenge, Entry, Index, registryVars
    <3>2. store' \in Durable
      BY <2>3, <2>5, <3>1 DEF TypeOK, Persist, Snapshot, Durable
    <3>3. /\ phase' \in [Conns -> Phases] /\ chal' \in [Conns -> SUBSET Challenge]
          /\ reg' \in [Conns -> NodeIds \cup {0}]
          /\ \A d \in Conns : phase'[d] \notin {"closed", "open", "resume"} => reg'[d] # 0
      BY <2>5 DEF TypeOK, Phases, NodeIds
    <3>. QED  BY <2>3, <3>1, <3>2, <3>3 DEF TypeOK
  <2>. QED  BY <2>1, <2>4, <2>5
<1>5. ASSUME NEW c \in Conns, Beat(c) \/ Heartbeat(c) PROVE TypeOK'
  <2>1. reg[c] \in NodeIds /\ CoordHeartbeat(reg[c])
    BY <1>5 DEF Beat, Heartbeat, TypeOK
  <2>. QED
    BY ZenonT(30), <1>5, <2>1, HeartbeatType
       DEF TypeOK, Beat, Heartbeat, CoordHeartbeat, FlushRotations, Phases, procVars, registryVars, connVars
<1>6. ASSUME NEW c \in Conns, Respond(c) PROVE TypeOK'
  BY <1>6 DEF TypeOK, Respond, CloseConn, Phases, procVars, registryVars, keyVars, liveVars
<1>7. ASSUME NEW c \in Conns, ReportEndpoints(c) PROVE TypeOK'
  <2>1. endpoints' \subseteq NodeIds
    BY ZenonT(30), <1>7 DEF TypeOK, ReportEndpoints, NodeIds
  <2>2. UNCHANGED <<now, up, crashes, config, entries, pubkeys, authKeys, consumed, nextNodeId,
                    revoked, keyVersion, pending, lastSeen, offline, phase, chal,
                    reg, issued, acked, revokedAt>>
    BY <1>7 DEF ReportEndpoints, procVars, registryVars, keyVars, liveVars, connVars
  <2>3. store' \in Durable
    BY <1>7, <2>1, <2>2 DEF TypeOK, ReportEndpoints, Persist, Snapshot, Durable
  <2>. QED  BY <2>1, <2>2, <2>3 DEF TypeOK
<1>8. ASSUME NEW id \in NodeIds, Revoke(id) PROVE TypeOK'
  <2>1. PICK e \in EntryOf(id) :
            /\ keyVersion' = FlushedVersion
            /\ pending' = Arm(e.net)
            /\ revokedAt' = revokedAt \cup {[id |-> id, net |-> e.net, at |-> now,
                                             ver |-> FlushedVersion[e.net]]}
    BY <1>8 DEF Revoke
  <2>2. /\ FlushedVersion \in [Nets -> Nat] /\ FlushedPending \in [Nets -> Nat \cup {Never}]
    BY DEF TypeOK, FlushedVersion, FlushedPending
  <2>3. /\ keyVersion' \in [Nets -> Nat] /\ pending' \in [Nets -> Nat \cup {Never}]
        /\ revokedAt' \subseteq [id : NodeIds, net : Nets, at : Nat, ver : Nat]
    <3>1. e.net \in Nets
      BY DEF TypeOK, EntryOf, Entry
    <3>2. Arm(e.net) \in [Nets -> Nat \cup {Never}]
      <4>. DEFINE v == IF FlushedPending[e.net] = Never THEN now + RevokeWindow
                       ELSE FlushedPending[e.net]
      <4>1. v \in Nat \cup {Never}
        <5>1. now + RevokeWindow \in Nat
          BY DEF TypeOK
        <5>2. FlushedPending[e.net] \in Nat \cup {Never}
          BY ZenonT(30), <2>2, <3>1
        <5>. QED  BY <5>1, <5>2
      <4>2. Arm(e.net) = [FlushedPending EXCEPT ![e.net] = v]
        BY DEF Arm
      <4>. QED  BY ZenonT(30), <2>2, <4>1, <4>2
    <3>3. [id |-> id, net |-> e.net, at |-> now, ver |-> FlushedVersion[e.net]]
              \in [id : NodeIds, net : Nets, at : Nat, ver : Nat]
      BY ZenonT(30), <2>2, <3>1 DEF TypeOK
    <3>. QED  BY <2>1, <2>2, <3>2, <3>3 DEF TypeOK
  <2>4. /\ entries' \subseteq Entry /\ pubkeys' \subseteq Index /\ revoked' \subseteq NodeIds
        /\ endpoints' \subseteq NodeIds /\ offline' \subseteq NodeIds
        /\ lastSeen' \in [NodeIds -> Nat \cup {Never}]
    BY <1>8 DEF TypeOK, Revoke, DropIndex
  <2>5. UNCHANGED <<procVars, authKeys, consumed, nextNodeId, connVars, issued, acked>>
    BY <1>8 DEF Revoke
  <2>6. store' \in Durable
    <3>1. store' = Snapshot' \/ store' = store \/ store' = FlushedSnapshot
      BY <1>8 DEF Revoke, Persist
    <3>2. Snapshot' \in Durable
      BY <2>3, <2>4, <2>5 DEF TypeOK, Snapshot, Durable
    <3>3. FlushedSnapshot \in Durable
      BY ZenonT(30), <2>2 DEF TypeOK, FlushedSnapshot, Snapshot, Durable
    <3>. QED  BY <3>1, <3>2, <3>3 DEF TypeOK
  <2>. QED
    BY <2>3, <2>4, <2>5, <2>6 DEF TypeOK, procVars, connVars
<1>9. ASSUME NEW n \in Nets, RotateMasterKey(n) PROVE TypeOK'
  <2>1. /\ keyVersion' \in [Nets -> Nat] /\ pending' \in [Nets -> Nat \cup {Never}]
    <3>1. keyVersion' = [keyVersion EXCEPT ![n] = @ + 1] /\ pending' = [pending EXCEPT ![n] = Never]
      BY <1>9 DEF RotateMasterKey
    <3>2. keyVersion \in [Nets -> Nat] /\ pending \in [Nets -> Nat \cup {Never}]
      BY DEF TypeOK
    <3>. QED  BY <3>1, <3>2
  <2>2. UNCHANGED <<now, up, crashes, config, entries, pubkeys, authKeys, consumed, nextNodeId,
                    revoked, endpoints, lastSeen, offline, phase, chal, reg,
                    issued, acked, revokedAt>>
    BY <1>9 DEF RotateMasterKey, procVars, registryVars, liveVars, connVars
  <2>3. store' \in Durable
    BY <1>9, <2>1, <2>2 DEF TypeOK, RotateMasterKey, Persist, Snapshot, Durable
  <2>. QED  BY <2>1, <2>2, <2>3 DEF TypeOK
<1>10. ASSUME NEW cfg \in Configs, Reload(cfg) PROVE TypeOK'
  BY <1>10 DEF TypeOK, Reload, ReloadKeys, keyVars, liveVars, connVars
<1>11. ASSUME NEW cfg \in Configs, Restart(cfg) PROVE TypeOK'
  <2>1. store \in Durable
    BY DEF TypeOK
  <2>2. pubkeys' \subseteq Index
    BY <1>11, <2>1 DEF Restart, Durable, Entry, Index
  <2>. QED
    BY <1>11, <2>1, <2>2 DEF TypeOK, Restart, Durable, connVars
<1>12. ASSUME Tick \/ Crash PROVE TypeOK'
  <2>1. CASE Tick
    <3>1. now' \in Nat
      BY <2>1 DEF TypeOK, Tick
    <3>2. UNCHANGED <<up, crashes, config, entries, pubkeys, authKeys, consumed, nextNodeId,
                      revoked, keyVersion, pending, endpoints, lastSeen, offline,
                      store, phase, chal, reg, issued, acked, revokedAt>>
      BY <2>1 DEF Tick, registryVars, keyVars, liveVars, connVars
    <3>. QED  BY <3>1, <3>2 DEF TypeOK
  <2>2. CASE Crash
    <3>1. /\ up' \in BOOLEAN /\ crashes' \in Nat /\ phase' \in [Conns -> Phases]
          /\ chal' \in [Conns -> SUBSET Challenge] /\ reg' \in [Conns -> NodeIds \cup {0}]
          /\ lastSeen' \in [NodeIds -> Nat \cup {Never}] /\ offline' \subseteq NodeIds
          /\ \A c \in Conns : phase'[c] = "closed"
      <4>1. /\ phase' = [c \in Conns |-> "closed"] /\ chal' = [c \in Conns |-> {}]
            /\ reg' = [c \in Conns |-> 0] /\ lastSeen' = [i \in NodeIds |-> Never]
            /\ offline' = {} /\ up' = FALSE /\ crashes' = crashes + 1
        BY <2>2 DEF Crash
      <4>2. /\ phase' \in [Conns -> Phases] /\ \A c \in Conns : phase'[c] = "closed"
        BY <4>1 DEF Phases
      <4>3. reg' \in [Conns -> NodeIds \cup {0}] /\ chal' \in [Conns -> SUBSET Challenge]
        BY <4>1
      <4>4. lastSeen' \in [NodeIds -> Nat \cup {Never}]
        BY <4>1
      <4>5. crashes' \in Nat
        BY <4>1 DEF TypeOK
      <4>. QED  BY ZenonT(30), <4>1, <4>2, <4>3, <4>4, <4>5
    <3>2. UNCHANGED <<now, config, entries, pubkeys, authKeys, consumed, nextNodeId, revoked,
                      keyVersion, pending, endpoints, store, issued, acked, revokedAt>>
      BY <2>2 DEF Crash, registryVars, keyVars
    <3>. QED  BY <3>1, <3>2 DEF TypeOK
  <2>. QED  BY <1>12, <2>1, <2>2
<1>14. ASSUME NEW id \in NodeIds, RevokeAbsent(id) PROVE TypeOK'
  <2>1. FlushRotations
    BY <1>14 DEF RevokeAbsent
  <2>2. UNCHANGED <<now, up, crashes, config, entries, pubkeys, authKeys, consumed, nextNodeId,
                    revoked, endpoints, lastSeen, offline, phase, chal, reg, issued, acked,
                    revokedAt>>
    BY <1>14 DEF RevokeAbsent, FlushRotations, procVars, registryVars, liveVars, connVars
  <2>. QED  BY <2>1, <2>2, FlushType DEF TypeOK
<1>13. CASE UNCHANGED vars
  BY <1>13 DEF TypeOK, vars, procVars, registryVars, keyVars, liveVars, connVars
<1>. QED
  BY ZenonT(30), <1>1, <1>2, <1>3, <1>4, <1>5, <1>6, <1>7, <1>8, <1>9, <1>10, <1>11, <1>12, <1>13, <1>14
     DEF Next, Handler

\* Every reachable state of the coordinator is well-typed, whatever the store
\* loses.
THEOREM TypeCorrect == Spec => []TypeOK
<1>. QED  BY InitType, TypeStep, PTL DEF Spec
-----------------------------------------------------------------------------
(* Entries and index                                                       *)

\* What the admission of a challenged key does: it refuses, answers with an
\* indexed node, or inserts the next id for a key no row of the network has.
LEMMA AckNewCases ==
    ASSUME TypeOK, NEW c \in Conns, AckNew(c)
    PROVE  \/ /\ UNCHANGED <<registryVars, issued, store>>
              /\ reg' = [reg EXCEPT ![c] = 0]
           \/ /\ UNCHANGED <<registryVars, issued>>
              /\ Persist
              /\ \E x \in pubkeys : reg' = [reg EXCEPT ![c] = x.id]
           \/ \E p \in PubKeys, k \in AuthKeys, a \in Attrs :
              /\ Admit(nextNodeId, p, k, a)
              /\ nextNodeId \in NodeIds
              /\ k \in authKeys /\ Unexpired(k)
              /\ \A x \in pubkeys : ~(x.net = KeyNet[k] /\ x.pub = p)
              /\ Persist
              /\ reg' = [reg EXCEPT ![c] = nextNodeId]
<1>1. PICK ch \in chal[c] :
          LET outs == IF InWindow(ch) THEN RegisterOutcome(ch.pub, ch.key, ch.attrs) ELSE {}
          IN  \/ /\ outs = {}
                 /\ CloseConn(c)
                 /\ UNCHANGED <<registryVars, issued, store>>
              \/ \E out \in outs :
                 /\ out.id \in NodeIds
                 /\ IF out.new THEN Admit(out.id, ch.pub, ch.key, ch.attrs)
                               ELSE UNCHANGED <<registryVars, issued>>
                 /\ Persist
                 /\ phase' = [phase EXCEPT ![c] = "newBeat"]
                 /\ chal' = [chal EXCEPT ![c] = {}]
                 /\ reg' = [reg EXCEPT ![c] = out.id]
  BY DEF AckNew
<1>2. ch \in Challenge
  BY <1>1 DEF TypeOK
<1>. DEFINE known == {x \in pubkeys : x.net = KeyNet[ch.key] /\ x.pub = ch.pub}
<1>3. ASSUME NEW out \in RegisterOutcome(ch.pub, ch.key, ch.attrs)
      PROVE \/ ~out.new /\ \E x \in pubkeys : out.id = x.id
            \/ /\ out.new /\ out.id = nextNodeId /\ known = {}
               /\ ch.key \in authKeys /\ Unexpired(ch.key)
  BY <1>3 DEF RegisterOutcome
<1>4. CASE CloseConn(c) /\ UNCHANGED <<registryVars, issued, store>>
  BY <1>4 DEF CloseConn
<1>5. ASSUME NEW out \in RegisterOutcome(ch.pub, ch.key, ch.attrs),
             out.id \in NodeIds,
             IF out.new THEN Admit(out.id, ch.pub, ch.key, ch.attrs)
                        ELSE UNCHANGED <<registryVars, issued>>,
             Persist, reg' = [reg EXCEPT ![c] = out.id]
      PROVE \/ /\ UNCHANGED <<registryVars, issued>>
               /\ Persist
               /\ \E x \in pubkeys : reg' = [reg EXCEPT ![c] = x.id]
            \/ \E p \in PubKeys, k \in AuthKeys, a \in Attrs :
               /\ Admit(nextNodeId, p, k, a)
               /\ nextNodeId \in NodeIds
               /\ k \in authKeys /\ Unexpired(k)
               /\ \A x \in pubkeys : ~(x.net = KeyNet[k] /\ x.pub = p)
               /\ Persist
               /\ reg' = [reg EXCEPT ![c] = nextNodeId]
  <2>1. CASE ~out.new /\ \E x \in pubkeys : out.id = x.id
    BY ZenonT(30), <1>5, <2>1
  <2>2. CASE /\ out.new /\ out.id = nextNodeId /\ known = {}
             /\ ch.key \in authKeys /\ Unexpired(ch.key)
    <3>1. ch.pub \in PubKeys /\ ch.key \in AuthKeys /\ ch.attrs \in Attrs
      BY <1>2 DEF Challenge
    <3>2. Admit(nextNodeId, ch.pub, ch.key, ch.attrs)
      BY <1>5, <2>2
    <3>3. \A x \in pubkeys : ~(x.net = KeyNet[ch.key] /\ x.pub = ch.pub)
      BY <2>2
    <3>. QED  BY <1>5, <2>2, <3>1, <3>2, <3>3
  <2>. QED  BY <1>3, <2>1, <2>2
<1>. QED  BY <1>1, <1>4, <1>5

\* Every entry was allocated below the counter.
IdsBelow == \A e \in entries : e.id < nextNodeId

\* Steps that touch neither registry nor store.
LEMMA ConnFrame ==
    ASSUME NEW c \in Conns,
           \/ Connect(c) \/ Disconnect(c) \/ AckResume(c) \/ ResumeMatch(c) \/ Respond(c)
           \/ \E p \in PubKeys, k \in AuthKeys, a \in Attrs : Register(c, p, k, a)
    PROVE  UNCHANGED <<procVars, registryVars, keyVars, endpoints, store, issued, revokedAt>>
  BY DEF Connect, Disconnect, AckResume, ResumeMatch, Respond, Register

\* Index and entries stay consistent and ids stay below the counter, whatever
\* the store loses: a restart accepts only a store without duplicates.
LEMMA IndexStep ==
    ASSUME TypeOK, IndexConsistent, IdsBelow, [Next]_vars
    PROVE  IndexConsistent' /\ IdsBelow'
<1>. USE DEF IndexConsistent, IdsBelow
<1>1. CASE UNCHANGED <<entries, pubkeys, nextNodeId>>
  BY <1>1
<1>2. ASSUME NEW p \in PubKeys, NEW k \in AuthKeys, NEW a \in Attrs,
             Admit(nextNodeId, p, k, a), nextNodeId \in NodeIds,
             \A x \in pubkeys : ~(x.net = KeyNet[k] /\ x.pub = p)
      PROVE IndexConsistent' /\ IdsBelow'
  <2>. DEFINE new == [id |-> nextNodeId, net |-> KeyNet[k], pub |-> p, attrs |-> a]
  <2>1. /\ entries' = entries \cup {new}
        /\ pubkeys' = pubkeys \cup {[net |-> new.net, pub |-> new.pub, id |-> new.id]}
        /\ nextNodeId' = nextNodeId + 1
    BY <1>2 DEF Admit
  <2>2. pubkeys' = {[net |-> e.net, pub |-> e.pub, id |-> e.id] : e \in entries'}
    BY ZenonT(30), <2>1
  <2>3. nextNodeId \in Nat /\ \A e \in entries : e.id \in Nat
    BY TypeFacts
  <2>4. \A e \in entries : e.id # new.id /\ ~(e.net = new.net /\ e.pub = new.pub)
    <3>. SUFFICES ASSUME NEW e \in entries
                  PROVE  e.id # nextNodeId /\ ~(e.net = KeyNet[k] /\ e.pub = p)
      OBVIOUS
    <3>1. [net |-> e.net, pub |-> e.pub, id |-> e.id] \in pubkeys
      OBVIOUS
    <3>2. e.id # nextNodeId
      BY <2>3
    <3>. QED  BY <1>2, <3>1, <3>2
  <2>5. \A e, f \in entries' : e.id = f.id \/ (e.net = f.net /\ e.pub = f.pub) => e = f
    BY <2>1, <2>4
  <2>6. IdsBelow'
    BY <2>1, <2>3
  <2>. QED  BY <2>2, <2>5, <2>6
<1>3. ASSUME NEW c \in Conns, AckNew(c) PROVE IndexConsistent' /\ IdsBelow'
  BY <1>1, <1>2, <1>3, AckNewCases DEF registryVars
<1>4. ASSUME NEW id \in NodeIds, Revoke(id) PROVE IndexConsistent' /\ IdsBelow'
  <2>1. /\ entries' = {x \in entries : x.id # id}
        /\ pubkeys' = {x \in pubkeys : x.id # id}
        /\ nextNodeId' = nextNodeId
    BY ZenonT(30), <1>4 DEF Revoke, DropIndex
  <2>2. pubkeys' = {[net |-> e.net, pub |-> e.pub, id |-> e.id] : e \in entries'}
    BY <2>1
  <2>. QED  BY <2>1, <2>2
<1>5. ASSUME NEW cfg \in Configs, Restart(cfg) PROVE IndexConsistent' /\ IdsBelow'
  BY <1>5 DEF Restart, Loadable
<1>6. ASSUME NEW c \in Conns, Beat(c) \/ Heartbeat(c) \/ ReportEndpoints(c)
      PROVE UNCHANGED <<entries, pubkeys, nextNodeId>>
  BY <1>6 DEF Beat, Heartbeat, ReportEndpoints, CoordHeartbeat, FlushRotations, registryVars
<1>10. ASSUME NEW id \in NodeIds, RevokeAbsent(id) PROVE UNCHANGED <<entries, pubkeys, nextNodeId>>
  BY <1>10 DEF RevokeAbsent, FlushRotations, registryVars
<1>7. ASSUME NEW n \in Nets, RotateMasterKey(n) PROVE UNCHANGED <<entries, pubkeys, nextNodeId>>
  BY <1>7 DEF RotateMasterKey, registryVars
<1>8. ASSUME NEW cfg \in Configs, Reload(cfg) PROVE UNCHANGED <<entries, pubkeys, nextNodeId>>
  BY <1>8 DEF Reload
<1>9. ASSUME Tick \/ Crash \/ UNCHANGED vars PROVE UNCHANGED <<entries, pubkeys, nextNodeId>>
  BY <1>9 DEF Tick, Crash, vars, registryVars
<1>. QED
  BY <1>1, <1>3, <1>4, <1>5, <1>6, <1>7, <1>8, <1>9, <1>10, ConnFrame
     DEF Next, Handler, registryVars

\* Registry entries and public-key index describe each other in every reachable
\* state, whatever the store loses.
THEOREM IndexCorrect == Spec => []IndexConsistent
<1>1. Init => TypeOK /\ IndexConsistent /\ IdsBelow
  BY InitType DEF Init, IndexConsistent, IdsBelow
<1>2. (TypeOK /\ IndexConsistent /\ IdsBelow) /\ [Next]_vars
          => (TypeOK /\ IndexConsistent /\ IdsBelow)'
  BY TypeStep, IndexStep
<1>. QED  BY <1>1, <1>2, PTL DEF Spec
-----------------------------------------------------------------------------
(* The store                                                               *)

\* A step leaves the store alone or writes a snapshot: of its result, or of the
\* rotation that a revocation flushes first.  A store that cannot fail always
\* gets the former when something durable changed.
LEMMA StoreStep ==
    ASSUME TypeOK, [Next]_vars
    PROVE  /\ store' = store \/ store' = Snapshot' \/ store' = FlushedSnapshot
           /\ \/ StoreMayFail
              \/ store' = Snapshot'
              \/ store' = store /\ Snapshot' = Snapshot
              \/ store' = store /\ \E cfg \in Configs : Restart(cfg)
<1>. DEFINE Choice == store' = store \/ store' = Snapshot' \/ store' = FlushedSnapshot
            Exact == \/ StoreMayFail
                     \/ store' = Snapshot'
                     \/ store' = store /\ Snapshot' = Snapshot
                     \/ store' = store /\ \E cfg \in Configs : Restart(cfg)
<1>1. CASE Persist
  BY <1>1 DEF Persist
<1>2. CASE UNCHANGED <<registryVars, keyVars, endpoints, store>>
  BY <1>2 DEF Snapshot, registryVars, keyVars
<1>3. ASSUME NEW c \in Conns, AckNew(c) PROVE Choice /\ Exact
  <2>1. UNCHANGED <<keyVars, endpoints>>
    BY <1>3 DEF AckNew
  <2>. QED  BY ZenonT(30), <1>1, <1>2, <1>3, <2>1, AckNewCases
<1>4. CASE FlushRotations
  <2>2. CASE Due # {}
    BY <1>1, <1>4, <2>2 DEF FlushRotations
  <2>3. CASE Due = {}
    <3>1. keyVersion' = keyVersion /\ pending' = pending
      BY <1>4, <2>3 DEF FlushRotations, FlushedVersion, FlushedPending, TypeOK
    <3>. QED  BY <1>2, <1>4, <2>3, <3>1 DEF FlushRotations, keyVars
  <2>. QED  BY <2>2, <2>3
<1>12. ASSUME NEW c \in Conns, Beat(c) \/ Heartbeat(c) PROVE Choice /\ Exact
  BY <1>4, <1>12 DEF Beat, Heartbeat, CoordHeartbeat
<1>13. ASSUME NEW id \in NodeIds, RevokeAbsent(id) PROVE Choice /\ Exact
  BY <1>4, <1>13 DEF RevokeAbsent
<1>5. ASSUME NEW c \in Conns, ReportEndpoints(c) PROVE Choice /\ Exact
  BY <1>1, <1>5 DEF ReportEndpoints
<1>6. ASSUME NEW id \in NodeIds, Revoke(id) PROVE Choice /\ Exact
  <2>1. Persist \/ (StoreMayFail /\ store' = FlushedSnapshot)
    BY <1>6 DEF Revoke
  <2>. QED  BY <1>1, <2>1
<1>7. ASSUME NEW n \in Nets, RotateMasterKey(n) PROVE Choice /\ Exact
  BY <1>1, <1>7 DEF RotateMasterKey
<1>8. ASSUME NEW cfg \in Configs, Reload(cfg) PROVE Choice /\ Exact
  BY <1>8 DEF Reload, Snapshot, keyVars
<1>9. ASSUME NEW cfg \in Configs, Restart(cfg) PROVE Choice /\ Exact
  BY <1>9 DEF Restart
<1>10. ASSUME Tick \/ Crash \/ UNCHANGED vars PROVE Choice /\ Exact
  BY <1>2, <1>10 DEF Tick, Crash, vars
<1>11. ASSUME NEW c \in Conns,
              \/ Connect(c) \/ Disconnect(c) \/ AckResume(c) \/ ResumeMatch(c) \/ Respond(c)
              \/ \E p \in PubKeys, k \in AuthKeys, a \in Attrs : Register(c, p, k, a)
       PROVE Choice /\ Exact
  BY <1>2, <1>11, ConnFrame
<1>. QED
  BY <1>3, <1>5, <1>6, <1>7, <1>8, <1>9, <1>10, <1>11, <1>12, <1>13 DEF Next, Handler

\* A store of consistent entries is accepted, or holds a key of two networks.
LEMMA ConsistentLoads ==
    ASSUME NEW st, st.entries \subseteq Entry, st.keyVersion \in [Nets -> Nat],
           \A e \in st.entries : e.id < st.nextNodeId,
           \A e, f \in st.entries : e.id = f.id \/ (e.net = f.net /\ e.pub = f.pub) => e = f
    PROVE  Loadable(st) \/ AdmittedTwice(st.entries)
<1>1. \A e \in st.entries : e.net \in Nets
  BY DEF Entry
<1>2. Nets \subseteq DOMAIN st.keyVersion
  OBVIOUS
<1>3. CASE \E e, f \in st.entries : e.pub = f.pub /\ e.net # f.net
  BY <1>3 DEF AdmittedTwice
<1>4. CASE ~\E e, f \in st.entries : e.pub = f.pub /\ e.net # f.net
  <2>1. \A e, f \in st.entries : e # f => e.id # f.id /\ e.pub # f.pub
    BY <1>4
  <2>. QED  BY <1>1, <1>2, <2>1 DEF Loadable
<1>. QED  BY <1>3, <1>4

\* A coordinator can start again from its store, whatever writes failed and
\* whenever it died, unless one public key was admitted by two networks: no other
\* sequence of registrations, revocations and crashes leads restore_state to
\* refuse.
THEOREM StoreStarts == Spec => []StoreLoadable
<1>. DEFINE Inv == TypeOK /\ IndexConsistent /\ IdsBelow /\ StoreLoadable
<1>1. Init => Inv
  <2>. SUFFICES ASSUME Init PROVE Inv
    OBVIOUS
  <2>1. entries = {} /\ pubkeys = {} /\ store = EmptyStore
    BY DEF Init
  <2>2. IndexConsistent /\ IdsBelow
    BY <2>1 DEF IndexConsistent, IdsBelow
  <2>3. StoreLoadable
    BY <2>1 DEF StoreLoadable, Loadable, EmptyStore
  <2>. QED  BY <2>2, <2>3, InitType
<1>2. Inv /\ [Next]_vars => Inv'
  <2>. SUFFICES ASSUME Inv, [Next]_vars PROVE StoreLoadable'
    BY TypeStep, IndexStep
  <2>1. TypeOK' /\ IndexConsistent' /\ IdsBelow'
    BY TypeStep, IndexStep
  <2>2. CASE store' = store
    BY <2>2 DEF StoreLoadable, Loadable
  <2>3. CASE store' = Snapshot'
    <3>1. /\ store'.entries = entries' /\ store'.nextNodeId = nextNodeId'
          /\ store'.keyVersion = keyVersion'
      BY <2>3 DEF Snapshot
    <3>2. entries' \subseteq Entry /\ keyVersion' \in [Nets -> Nat]
      BY <2>1 DEF TypeOK
    <3>3. \A e \in entries' : e.id < nextNodeId'
      BY <2>1 DEF IdsBelow
    <3>4. \A e, f \in entries' : e.id = f.id \/ (e.net = f.net /\ e.pub = f.pub) => e = f
      BY <2>1 DEF IndexConsistent
    <3>5. Loadable(store') \/ AdmittedTwice(store'.entries)
      BY <3>1, <3>2, <3>3, <3>4, ConsistentLoads
    <3>. QED  BY <3>5 DEF StoreLoadable
  <2>4. CASE store' = FlushedSnapshot
    <3>1. /\ store'.entries = entries /\ store'.nextNodeId = nextNodeId
          /\ store'.keyVersion \in [Nets -> Nat]
      BY <2>4 DEF FlushedSnapshot, Snapshot, FlushedVersion, TypeOK
    <3>2. entries \subseteq Entry
      BY DEF TypeOK
    <3>3. \A e \in entries : e.id < nextNodeId
      BY DEF IdsBelow
    <3>4. \A e, f \in entries : e.id = f.id \/ (e.net = f.net /\ e.pub = f.pub) => e = f
      BY DEF IndexConsistent
    <3>5. Loadable(store') \/ AdmittedTwice(store'.entries)
      BY <3>1, <3>2, <3>3, <3>4, ConsistentLoads
    <3>. QED  BY <3>5 DEF StoreLoadable
  <2>. QED  BY <2>2, <2>3, <2>4, StoreStep
<1>. QED  BY <1>1, <1>2, PTL DEF Spec
-----------------------------------------------------------------------------
(* Identities, one-time keys and revocations with a store that does not fail *)

\* The store holds what memory holds (a crash leaves the variables as they were).
WriteThrough == store = Snapshot

\* A restart from such a store restores the durable state exactly.
LEMMA RestartRestores ==
    ASSUME WriteThrough, NEW cfg \in Configs, Restart(cfg)
    PROVE  /\ UNCHANGED <<entries, consumed, nextNodeId, revoked, keyVersion, pending,
                          endpoints, store, issued, acked, revokedAt, now, reg>>
           /\ authKeys' = cfg.keys \ consumed
  BY ZenonT(30) DEF WriteThrough, Restart, Snapshot, connVars

\* While writes succeed, every step keeps store and memory equal: who changes durable state saves it in the same call.
LEMMA WriteThroughStep ==
    ASSUME ~StoreMayFail, TypeOK, WriteThrough, [Next]_vars
    PROVE  WriteThrough'
<1>1. ASSUME NEW cfg \in Configs, Restart(cfg) PROVE WriteThrough'
  BY <1>1, RestartRestores DEF WriteThrough, Snapshot
<1>. QED  BY <1>1, StoreStep DEF WriteThrough

\* Admissions so far: ids below the counter and unique, one-time keys consumed
\* and used once, consumed keys not in the table.
Admissions ==
    /\ \A x \in issued : x.id < nextNodeId
    /\ \A x \in issued : x.key \in OneTimeKeys => x.key \in consumed
    /\ authKeys \cap consumed = {}
    /\ NodeIdNeverReused
    /\ OneTimeKeyOnce

\* Every step other than an admission, a reload and a restart leaves admissions
\* alone.
LEMMA AdmissionFrame ==
    ASSUME [Next]_vars
    PROVE  \/ UNCHANGED <<issued, nextNodeId, consumed, authKeys>>
           \/ \E c \in Conns : AckNew(c)
           \/ \E cfg \in Configs : Reload(cfg) \/ Restart(cfg)
<1>1. ASSUME NEW c \in Conns, Beat(c) \/ Heartbeat(c) \/ ReportEndpoints(c)
      PROVE UNCHANGED <<issued, nextNodeId, consumed, authKeys>>
  BY <1>1 DEF Beat, Heartbeat, ReportEndpoints, CoordHeartbeat, FlushRotations, registryVars
<1>5. ASSUME NEW id \in NodeIds, RevokeAbsent(id)
      PROVE UNCHANGED <<issued, nextNodeId, consumed, authKeys>>
  BY ZenonT(30), <1>5 DEF RevokeAbsent, FlushRotations, registryVars
<1>2. ASSUME NEW id \in NodeIds, Revoke(id)
      PROVE UNCHANGED <<issued, nextNodeId, consumed, authKeys>>
  BY ZenonT(30), <1>2 DEF Revoke
<1>3. ASSUME NEW n \in Nets, RotateMasterKey(n)
      PROVE UNCHANGED <<issued, nextNodeId, consumed, authKeys>>
  BY <1>3 DEF RotateMasterKey, registryVars
<1>4. ASSUME Tick \/ Crash \/ UNCHANGED vars
      PROVE UNCHANGED <<issued, nextNodeId, consumed, authKeys>>
  BY <1>4 DEF Tick, Crash, vars, registryVars
<1>. QED  BY <1>1, <1>2, <1>3, <1>4, <1>5, ConnFrame DEF Next, Handler, registryVars

\* Every step keeps the account of admissions: one-time keys are consumed in the call that adds the node.
LEMMA AdmissionsStep ==
    ASSUME TypeOK, WriteThrough, Admissions, [Next]_vars
    PROVE  Admissions'
<1>. USE DEF Admissions, NodeIdNeverReused, OneTimeKeyOnce
<1>1. CASE UNCHANGED <<issued, nextNodeId, consumed, authKeys>>
  BY <1>1
<1>2. ASSUME NEW p \in PubKeys, NEW k \in AuthKeys, NEW a \in Attrs,
             Admit(nextNodeId, p, k, a), k \in authKeys
      PROVE Admissions'
  <2>. DEFINE new == [id |-> nextNodeId, pub |-> p, net |-> KeyNet[k], key |-> k]
  <2>1. /\ issued' = issued \cup {new}
        /\ nextNodeId' = nextNodeId + 1
        /\ consumed' = consumed \cup ({k} \cap OneTimeKeys)
        /\ authKeys' = authKeys \ ({k} \cap OneTimeKeys)
    BY <1>2 DEF Admit, Consume
  <2>2. nextNodeId \in Nat /\ \A x \in issued : x.id \in Nat
    BY TypeFacts
  <2>3. \A x \in issued' : x.id < nextNodeId'
    BY <2>1, <2>2
  <2>4. /\ \A x \in issued' : x.key \in OneTimeKeys => x.key \in consumed'
        /\ authKeys' \cap consumed' = {}
    BY <2>1
  <2>5. \A x \in issued : x.id # new.id /\ ~(x.key = k /\ k \in OneTimeKeys)
    BY <1>2, <2>2
  <2>. QED  BY <2>1, <2>3, <2>4, <2>5
<1>3. ASSUME NEW c \in Conns, AckNew(c) PROVE Admissions'
  BY ZenonT(30), <1>1, <1>2, <1>3, AckNewCases DEF registryVars
<1>4. ASSUME NEW cfg \in Configs, Reload(cfg) PROVE Admissions'
  BY ZenonT(30), <1>4 DEF Reload, ReloadKeys
<1>5. ASSUME NEW cfg \in Configs, Restart(cfg) PROVE Admissions'
  BY <1>5, RestartRestores
<1>. QED  BY <1>1, <1>3, <1>4, <1>5, AdmissionFrame

\* Revocations so far: tombstones in place, ids allocated, no entry left, and a
\* rotation that happened or is armed in time.
Revocations ==
    /\ \A r \in revokedAt :
        /\ r.id \in revoked /\ r.id < nextNodeId
        /\ \A e \in entries : e.id # r.id
    /\ \A n \in Nets : pending[n] <= now + RevokeWindow
    /\ \A r \in revokedAt :
        /\ r.ver <= keyVersion[r.net]
        /\ \/ keyVersion[r.net] > r.ver
           \/ pending[r.net] # Never /\ pending[r.net] <= r.at + RevokeWindow

\* Flushing the windows that are due keeps the promise of every revocation.
LEMMA FlushKeepsPromise ==
    ASSUME TypeOK, Revocations
    PROVE  /\ FlushedVersion \in [Nets -> Nat] /\ FlushedPending \in [Nets -> Nat \cup {Never}]
           /\ \A n \in Nets : FlushedPending[n] <= now + RevokeWindow
           /\ \A n \in Nets : FlushedPending[n] # Never => FlushedPending[n] = pending[n]
           /\ \A r \in revokedAt :
                /\ r.ver <= FlushedVersion[r.net]
                /\ \/ FlushedVersion[r.net] > r.ver
                   \/ FlushedPending[r.net] # Never /\ FlushedPending[r.net] <= r.at + RevokeWindow
<1>1. /\ FlushedVersion \in [Nets -> Nat] /\ FlushedPending \in [Nets -> Nat \cup {Never}]
  BY DEF TypeOK, FlushedVersion, FlushedPending
<1>2. now \in Nat /\ RevokeWindow \in Nat /\ keyVersion \in [Nets -> Nat]
      /\ pending \in [Nets -> Nat \cup {Never}]
      /\ \A r \in revokedAt : r.net \in Nets /\ r.ver \in Nat /\ r.at \in Nat
  BY TypeFacts
<1>3. \A n \in Nets : FlushedPending[n] <= now + RevokeWindow
  BY <1>2 DEF FlushedPending, Revocations
<1>4. \A n \in Nets : FlushedPending[n] # Never => FlushedPending[n] = pending[n]
  BY DEF FlushedPending
<1>5. ASSUME NEW r \in revokedAt
      PROVE /\ r.ver <= FlushedVersion[r.net]
            /\ \/ FlushedVersion[r.net] > r.ver
               \/ FlushedPending[r.net] # Never /\ FlushedPending[r.net] <= r.at + RevokeWindow
  <2>1. /\ r.ver <= keyVersion[r.net]
        /\ \/ keyVersion[r.net] > r.ver
           \/ pending[r.net] # Never /\ pending[r.net] <= r.at + RevokeWindow
    BY DEF Revocations
  <2>2. CASE r.net \in Due
    BY <1>2, <2>1, <2>2 DEF FlushedVersion
  <2>3. CASE r.net \notin Due
    BY <1>2, <2>1, <2>3 DEF FlushedVersion, FlushedPending
  <2>. QED  BY <2>2, <2>3
<1>. QED  BY <1>1, <1>3, <1>4, <1>5

\* Every step keeps the account of revocations: a removed key loses its id for good.
LEMMA RevocationsStep ==
    ASSUME TypeOK, IndexConsistent, IdsBelow, WriteThrough, Revocations, [Next]_vars
    PROVE  Revocations'
<1>0. /\ now \in Nat /\ RevokeWindow \in Nat /\ keyVersion \in [Nets -> Nat]
      /\ pending \in [Nets -> Nat \cup {Never}] /\ nextNodeId \in Nat
      /\ \A r \in revokedAt : r.net \in Nets /\ r.ver \in Nat /\ r.at \in Nat /\ r.id \in Nat
  BY TypeFacts
<1>1. CASE UNCHANGED <<entries, nextNodeId, revoked, keyVersion, pending, revokedAt, now>>
  BY <1>1 DEF Revocations
<1>2. ASSUME NEW p \in PubKeys, NEW k \in AuthKeys, NEW a \in Attrs, Admit(nextNodeId, p, k, a),
             UNCHANGED <<keyVersion, pending, revokedAt, now>>
      PROVE Revocations'
  <2>1. /\ entries' = entries \cup {[id |-> nextNodeId, net |-> KeyNet[k], pub |-> p, attrs |-> a]}
        /\ nextNodeId' = nextNodeId + 1 /\ revoked' = revoked
    BY <1>2 DEF Admit
  <2>2. \A r \in revokedAt' : /\ r.id \in revoked' /\ r.id < nextNodeId'
                              /\ \A e \in entries' : e.id # r.id
    BY <1>0, <1>2, <2>1 DEF Revocations
  <2>. QED  BY <1>2, <2>2 DEF Revocations
<1>3. ASSUME NEW c \in Conns, AckNew(c) PROVE Revocations'
  <2>1. UNCHANGED <<keyVersion, pending, revokedAt, now>>
    BY <1>3 DEF AckNew, keyVars, procVars
  <2>. QED  BY ZenonT(30), <1>1, <1>2, <1>3, <2>1, AckNewCases DEF registryVars
<1>4. ASSUME \/ \E c \in Conns : Beat(c) \/ Heartbeat(c)
             \/ \E id \in NodeIds : RevokeAbsent(id)
      PROVE Revocations'
  <2>1. /\ keyVersion' = FlushedVersion /\ pending' = FlushedPending
        /\ UNCHANGED <<entries, nextNodeId, revoked, revokedAt, now>>
    BY <1>4 DEF Beat, Heartbeat, CoordHeartbeat, RevokeAbsent, FlushRotations, registryVars,
                procVars
  <2>. QED  BY <2>1, FlushKeepsPromise DEF Revocations
<1>5. ASSUME NEW id \in NodeIds, Revoke(id) PROVE Revocations'
  <2>1. PICK e \in EntryOf(id) :
            /\ pending' = Arm(e.net)
            /\ revokedAt' = revokedAt \cup {[id |-> id, net |-> e.net, at |-> now,
                                             ver |-> FlushedVersion[e.net]]}
    BY ZenonT(30), <1>5 DEF Revoke
  <2>2. /\ entries' = {x \in entries : x.id # id} /\ revoked' = revoked \cup {id}
        /\ keyVersion' = FlushedVersion /\ nextNodeId' = nextNodeId /\ now' = now
    BY ZenonT(30), <1>5 DEF Revoke, procVars
  <2>3. e \in entries /\ e.id = id /\ e.net \in Nets
    BY DEF EntryOf, TypeOK, Entry
  <2>4. \A r \in revokedAt' : /\ r.id \in revoked' /\ r.id < nextNodeId'
                              /\ \A x \in entries' : x.id # r.id
    <3>1. \A r \in revokedAt : /\ r.id \in revoked' /\ r.id < nextNodeId'
                              /\ \A x \in entries' : x.id # r.id
      BY <2>2 DEF Revocations
    <3>2. id \in revoked' /\ id < nextNodeId' /\ \A x \in entries' : x.id # id
      BY <2>2, <2>3 DEF IdsBelow
    <3>. QED  BY <2>1, <3>1, <3>2
  <2>5. \A n \in Nets : pending'[n] = IF n = e.net /\ FlushedPending[n] = Never
                                       THEN now + RevokeWindow ELSE FlushedPending[n]
    BY ZenonT(30), <2>1, FlushKeepsPromise DEF Arm
  <2>6. \A n \in Nets : pending'[n] <= now' + RevokeWindow
    <3>1. \A n \in Nets : FlushedPending[n] <= now + RevokeWindow
      BY FlushKeepsPromise
    <3>2. now + RevokeWindow <= now + RevokeWindow
      BY <1>0
    <3>. QED  BY <2>2, <2>5, <3>1, <3>2
  <2>7. ASSUME NEW r \in revokedAt
        PROVE /\ r.ver <= keyVersion'[r.net]
              /\ \/ keyVersion'[r.net] > r.ver
                 \/ pending'[r.net] # Never /\ pending'[r.net] <= r.at + RevokeWindow
    BY <1>0, <2>2, <2>5, FlushKeepsPromise
  <2>8. /\ FlushedVersion[e.net] <= keyVersion'[e.net]
        /\ pending'[e.net] # Never /\ pending'[e.net] <= now + RevokeWindow
    <3>1. FlushedVersion[e.net] \in Nat
      BY <2>3, FlushKeepsPromise
    <3>2. pending'[e.net] # Never
      BY <1>0, <2>3, <2>5
    <3>. QED  BY <2>2, <2>3, <2>6, <3>1, <3>2
  <2>9. ASSUME NEW r \in revokedAt'
        PROVE /\ r.ver <= keyVersion'[r.net]
              /\ \/ keyVersion'[r.net] > r.ver
                 \/ pending'[r.net] # Never /\ pending'[r.net] <= r.at + RevokeWindow
    BY <2>1, <2>7, <2>8
  <2>. QED  BY ZenonT(30), <2>4, <2>6, <2>9 DEF Revocations
<1>6. ASSUME NEW n \in Nets, RotateMasterKey(n) PROVE Revocations'
  <2>1. /\ keyVersion' = [keyVersion EXCEPT ![n] = @ + 1]
        /\ pending' = [pending EXCEPT ![n] = Never]
        /\ UNCHANGED <<entries, nextNodeId, revoked, revokedAt, now>>
    BY <1>6 DEF RotateMasterKey, registryVars, procVars
  <2>2. \A m \in Nets : pending'[m] <= now' + RevokeWindow
    BY <1>0, <2>1 DEF Revocations
  <2>3. ASSUME NEW r \in revokedAt'
        PROVE /\ r.ver <= keyVersion'[r.net]
              /\ \/ keyVersion'[r.net] > r.ver
                 \/ pending'[r.net] # Never /\ pending'[r.net] <= r.at + RevokeWindow
    BY <1>0, <2>1 DEF Revocations
  <2>. QED  BY <2>1, <2>2, <2>3 DEF Revocations
<1>7. ASSUME NEW cfg \in Configs, Reload(cfg) \/ Restart(cfg) PROVE Revocations'
  BY <1>1, <1>7, RestartRestores DEF Reload, keyVars
<1>8. CASE Tick
  <2>1. /\ now' = now + 1
        /\ UNCHANGED <<entries, nextNodeId, revoked, keyVersion, pending, revokedAt>>
    BY <1>8 DEF Tick, registryVars, keyVars
  <2>2. \A n \in Nets : pending'[n] <= now' + RevokeWindow
    BY <1>0, <2>1 DEF Revocations
  <2>. QED  BY <2>1, <2>2 DEF Revocations
<1>9. ASSUME Crash \/ UNCHANGED vars \/ \E c \in Conns : ReportEndpoints(c) PROVE Revocations'
  BY <1>1, <1>9 DEF Crash, ReportEndpoints, vars, registryVars, keyVars, procVars
<1>. QED
  BY <1>1, <1>3, <1>4, <1>5, <1>6, <1>7, <1>8, <1>9, ConnFrame
     DEF Next, Handler, registryVars, keyVars, procVars

\* Identities bound to a connection or answered to a node are known for good.
Acknowledged ==
    /\ \A c \in Conns : reg[c] # 0 => reg[c] \in Ids(entries) \cup revoked
    /\ acked \subseteq Ids(entries) \cup revoked

\* Every step keeps answered identities in the store, or among the tombstones.
LEMMA AcknowledgedStep ==
    ASSUME TypeOK, IndexConsistent, WriteThrough, Acknowledged, [Next]_vars
    PROVE  Acknowledged'
<1>. DEFINE Known == Ids(entries) \cup revoked
<1>. USE DEF Acknowledged, Ids
<1>1. CASE Known \subseteq Known' /\ UNCHANGED <<reg, acked>>
  BY <1>1
<1>2. ASSUME Known \subseteq Known', UNCHANGED acked, NEW c \in Conns, NEW id \in Known' \cup {0},
             reg' = [reg EXCEPT ![c] = id]
      PROVE Acknowledged'
  <2>1. \A d \in Conns : reg'[d] = id \/ reg'[d] = reg[d]
    BY ZenonT(30), <1>2 DEF TypeOK
  <2>. QED  BY <1>2, <2>1
<1>3. ASSUME NEW c \in Conns, AckNew(c) PROVE Acknowledged'
  <2>0. UNCHANGED acked
    BY ZenonT(30), <1>3 DEF AckNew
  <2>1. CASE /\ UNCHANGED <<registryVars, issued, store>>
             /\ reg' = [reg EXCEPT ![c] = 0]
    BY <1>2, <2>0, <2>1 DEF registryVars
  <2>2. ASSUME UNCHANGED registryVars, NEW x \in pubkeys, reg' = [reg EXCEPT ![c] = x.id]
        PROVE Acknowledged'
    <3>1. x.id \in Known'
      BY <2>2 DEF IndexConsistent, registryVars
    <3>. QED  BY ZenonT(30), <1>2, <2>0, <2>2, <3>1 DEF registryVars
  <2>3. ASSUME NEW p \in PubKeys, NEW k \in AuthKeys, NEW a \in Attrs,
               Admit(nextNodeId, p, k, a), reg' = [reg EXCEPT ![c] = nextNodeId]
        PROVE Acknowledged'
    <3>1. /\ entries' = entries \cup {[id |-> nextNodeId, net |-> KeyNet[k], pub |-> p, attrs |-> a]}
          /\ revoked' = revoked
      BY ZenonT(30), <2>3 DEF Admit
    <3>2. Known \subseteq Known'
      BY <3>1
    <3>3. nextNodeId \in Known'
      <4>. DEFINE new == [id |-> nextNodeId, net |-> KeyNet[k], pub |-> p, attrs |-> a]
      <4>1. new \in entries' /\ new.id = nextNodeId
        BY <3>1
      <4>. QED  BY <4>1
    <3>. QED  BY ZenonT(30), <1>2, <2>0, <2>3, <3>2, <3>3
  <2>. QED  BY <1>3, <2>1, <2>2, <2>3, AckNewCases
<1>4. ASSUME NEW c \in Conns, ResumeMatch(c) PROVE Acknowledged'
  <2>1. UNCHANGED <<entries, revoked, acked>>
    BY <1>4 DEF ResumeMatch, registryVars
  <2>2. PICK ch \in chal[c] :
            \/ ResumeMatches(ch.id, ch.attrs) /\ reg' = [reg EXCEPT ![c] = ch.id]
            \/ reg' = [reg EXCEPT ![c] = 0]
    BY <1>4 DEF ResumeMatch, CloseConn
  <2>3. ResumeMatches(ch.id, ch.attrs) => ch.id \in Known
    BY DEF ResumeMatches, EntryOf
  <2>. QED  BY <1>2, <2>1, <2>2, <2>3
<1>5. ASSUME NEW c \in Conns, Respond(c) PROVE Acknowledged'
  <2>1. UNCHANGED <<entries, revoked>>
    BY <1>5 DEF Respond, registryVars
  <2>2. \/ UNCHANGED acked /\ reg' = [reg EXCEPT ![c] = 0]
        \/ acked' = acked \cup {reg[c]} /\ UNCHANGED reg
    BY <1>5 DEF Respond, CloseConn
  <2>3. reg[c] # 0
    BY ZenonT(30), <1>5 DEF Respond, TypeOK
  <2>. QED  BY <1>2, <2>1, <2>2, <2>3
<1>6. ASSUME NEW c \in Conns,
             \/ Connect(c) \/ Disconnect(c) \/ AckResume(c)
             \/ \E p \in PubKeys, k \in AuthKeys, a \in Attrs : Register(c, p, k, a)
      PROVE Acknowledged'
  <2>1. UNCHANGED <<entries, revoked, acked>>
    BY ZenonT(30), <1>6 DEF Connect, Disconnect, AckResume, Register, registryVars
  <2>2. UNCHANGED reg \/ reg' = [reg EXCEPT ![c] = 0]
    BY ZenonT(30), <1>6 DEF Connect, Disconnect, AckResume, Register, CloseConn
  <2>. QED  BY <1>1, <1>2, <2>1, <2>2
<1>7. ASSUME NEW c \in Conns, Beat(c) \/ Heartbeat(c) \/ ReportEndpoints(c) PROVE Acknowledged'
  BY ZenonT(30), <1>1, <1>7
     DEF Beat, Heartbeat, ReportEndpoints, CoordHeartbeat, FlushRotations, registryVars, connVars
<1>13. ASSUME NEW id \in NodeIds, RevokeAbsent(id) PROVE Acknowledged'
  BY ZenonT(30), <1>1, <1>13 DEF RevokeAbsent, FlushRotations, registryVars, connVars
<1>8. ASSUME NEW id \in NodeIds, Revoke(id) PROVE Acknowledged'
  <2>1. Known \subseteq Known'
    BY ZenonT(30), <1>8 DEF Revoke
  <2>. QED  BY ZenonT(30), <1>1, <1>8, <2>1 DEF Revoke, connVars
<1>9. ASSUME NEW n \in Nets, RotateMasterKey(n) PROVE Acknowledged'
  BY <1>1, <1>9 DEF RotateMasterKey, registryVars, connVars
<1>10. ASSUME NEW cfg \in Configs, Reload(cfg) \/ Restart(cfg) PROVE Acknowledged'
  BY ZenonT(30), <1>1, <1>10, RestartRestores DEF Reload, connVars
<1>11. ASSUME Tick \/ UNCHANGED vars PROVE Acknowledged'
  BY ZenonT(30), <1>1, <1>11 DEF Tick, vars, registryVars, connVars
<1>12. CASE Crash
  BY <1>12, Zenon DEF Crash, registryVars
<1>. QED
  BY ZenonT(30), <1>3, <1>4, <1>5, <1>6, <1>7, <1>8, <1>9, <1>10, <1>11, <1>12, <1>13
     DEF Next, Handler
-----------------------------------------------------------------------------
(* The theorems                                                            *)

\* What holds together while writes succeed.
Safe ==
    /\ TypeOK /\ IndexConsistent /\ IdsBelow
    /\ WriteThrough /\ Admissions /\ Revocations /\ Acknowledged

\* The conjunction is an invariant of a coordinator whose writes succeed.
LEMMA SafeAlways ==
    ASSUME ~StoreMayFail
    PROVE  Spec => []Safe
<1>1. Init => Safe
  <2>. SUFFICES ASSUME Init PROVE Safe
    OBVIOUS
  <2>1. TypeOK
    BY InitType
  <2>2. IndexConsistent /\ IdsBelow /\ WriteThrough
    BY ZenonT(30) DEF Init, IndexConsistent, IdsBelow, WriteThrough, Snapshot, EmptyStore
  <2>3. Admissions /\ Acknowledged
    BY DEF Init, Admissions, NodeIdNeverReused, OneTimeKeyOnce, Acknowledged
  <2>4. Revocations
    BY BoundsAssumption DEF Init, Revocations
  <2>. QED  BY <2>1, <2>2, <2>3, <2>4 DEF Safe
<1>2. Safe /\ [Next]_vars => Safe'
  BY TypeStep, IndexStep, WriteThroughStep, AdmissionsStep, RevocationsStep, AcknowledgedStep
     DEF Safe
<1>. QED  BY <1>1, <1>2, PTL DEF Spec

\* With a store that does not fail a node id names one admission, across
\* revocations and restarts.
THEOREM IdsNeverReused ==
    ASSUME ~StoreMayFail
    PROVE  Spec => []NodeIdNeverReused
<1>1. Safe => NodeIdNeverReused
  BY DEF Safe, Admissions
<1>. QED  BY <1>1, SafeAlways, PTL

\* With a store that does not fail a one-time key admits one node, across
\* concurrent challenges, reloads and restarts.
THEOREM OneTimeKeysOnce ==
    ASSUME ~StoreMayFail
    PROVE  Spec => []OneTimeKeyOnce
<1>1. Safe => OneTimeKeyOnce
  BY DEF Safe, Admissions
<1>. QED  BY <1>1, SafeAlways, PTL

\* With a store that does not fail a revoked node keeps its tombstone and never
\* has an entry or an index row again.
THEOREM RevokedForGood ==
    ASSUME ~StoreMayFail
    PROVE  Spec => []RevokedStaysOut
<1>1. Safe => RevokedStaysOut
  BY DEF Safe, Revocations, RevokedStaysOut, IndexConsistent
<1>. QED  BY <1>1, SafeAlways, PTL

\* With a store that does not fail every revocation is followed by a rotation of
\* its network, or a window ending in time is armed.
THEOREM RevocationsRotate ==
    ASSUME ~StoreMayFail
    PROVE  Spec => []RevocationRotates
<1>1. Safe => RevocationRotates
  BY DEF Safe, Revocations, RevocationRotates
<1>. QED  BY <1>1, SafeAlways, PTL

\* With a store that does not fail an answered identity is already durable.
THEOREM AnswersAreDurable ==
    ASSUME ~StoreMayFail
    PROVE  Spec => []AckedIsDurable
<1>1. Safe => AckedIsDurable
  BY DEF Safe, Acknowledged, AckedIsDurable, WriteThrough, Snapshot
<1>. QED  BY <1>1, SafeAlways, PTL

\* The key table holds configured keys that are not consumed, so an admission
\* always uses such a key, whatever the store loses.
THEOREM AdmissionsFresh == Spec => AdmissionFresh
<1>. DEFINE Live == authKeys \subseteq config.keys \ consumed
            Inv == TypeOK /\ Live
<1>1. Init => Inv
  BY ZenonT(30), InitType DEF Init
<1>2. Inv /\ [Next]_vars => Inv'
  <2>. SUFFICES ASSUME Inv, [Next]_vars PROVE Live'
    BY TypeStep
  <2>1. ASSUME NEW c \in Conns, AckNew(c) PROVE Live'
    <3>1. config' = config
      BY <2>1 DEF AckNew, procVars
    <3>. QED  BY <2>1, <3>1, AckNewCases, Zenon DEF Admit, Consume, registryVars
  <2>2. ASSUME NEW cfg \in Configs, Reload(cfg) \/ Restart(cfg) PROVE Live'
    BY ZenonT(30), <2>2 DEF Reload, ReloadKeys, Restart
  <2>3. CASE ~\E cfg \in Configs : Reload(cfg) \/ Restart(cfg)
    <3>1. config' = config
      <4>1. ASSUME NEW c \in Conns, AckNew(c) \/ Beat(c) \/ Heartbeat(c) \/ ReportEndpoints(c)
            PROVE config' = config
        BY ZenonT(30), <4>1 DEF AckNew, Beat, Heartbeat, ReportEndpoints, procVars
      <4>2. ASSUME NEW id \in NodeIds, Revoke(id) \/ RevokeAbsent(id) PROVE config' = config
        BY ZenonT(30), <4>2 DEF Revoke, RevokeAbsent, procVars
      <4>3. ASSUME NEW n \in Nets, RotateMasterKey(n) PROVE config' = config
        BY ZenonT(30), <4>3 DEF RotateMasterKey, procVars
      <4>4. ASSUME Tick \/ Crash \/ UNCHANGED vars PROVE config' = config
        BY <4>4 DEF Tick, Crash, vars, procVars
      <4>. QED
        BY ZenonT(30), <2>3, <4>1, <4>2, <4>3, <4>4, ConnFrame DEF Next, Handler, procVars
    <3>. QED  BY <2>1, <2>3, <3>1, AdmissionFrame
  <2>. QED  BY <2>2, <2>3
<1>3. Inv /\ [Next]_vars => [FreshStep]_vars
  <2>. SUFFICES ASSUME Inv, Next PROVE FreshStep
    OBVIOUS
  <2>1. CASE entries' \subseteq entries
    BY ZenonT(30), <2>1 DEF FreshStep
  <2>2. ASSUME NEW c \in Conns, AckNew(c) PROVE FreshStep
    <3>1. ASSUME NEW p \in PubKeys, NEW k \in AuthKeys, NEW a \in Attrs,
                 Admit(nextNodeId, p, k, a), k \in authKeys, Unexpired(k)
          PROVE FreshStep
      <4>. SUFFICES ASSUME NEW e \in entries' \ entries
                    PROVE  /\ k \in config.keys \ consumed
                           /\ KeyNet[k] = e.net
                           /\ [id |-> e.id, pub |-> e.pub, net |-> e.net, key |-> k] \in issued'
        BY ZenonT(30), <3>1 DEF FreshStep
      <4>1. e = [id |-> nextNodeId, net |-> KeyNet[k], pub |-> p, attrs |-> a]
        BY ZenonT(30), <3>1 DEF Admit
      <4>. QED  BY ZenonT(30), <3>1, <4>1 DEF Admit
    <3>. QED  BY ZenonT(30), <2>1, <2>2, <3>1, AckNewCases DEF registryVars
  <2>3. ASSUME NEW cfg \in Configs, Restart(cfg) PROVE FreshStep
    BY ZenonT(30), <2>3 DEF Restart, FreshStep
  <2>4. ASSUME NEW id \in NodeIds, Revoke(id) PROVE FreshStep
    BY ZenonT(30), <2>1, <2>4 DEF Revoke
  <2>5. ASSUME NEW cfg \in Configs, Reload(cfg) PROVE FreshStep
    BY ZenonT(30), <2>1, <2>5 DEF Reload
  <2>6. ASSUME NEW c \in Conns, Beat(c) \/ Heartbeat(c) \/ ReportEndpoints(c) PROVE FreshStep
    BY ZenonT(30), <2>1, <2>6
       DEF Beat, Heartbeat, ReportEndpoints, CoordHeartbeat, FlushRotations, registryVars
  <2>8. ASSUME NEW id \in NodeIds, RevokeAbsent(id) PROVE FreshStep
    BY ZenonT(30), <2>1, <2>8 DEF RevokeAbsent, FlushRotations, registryVars
  <2>7. ASSUME Tick \/ Crash \/ \E n \in Nets : RotateMasterKey(n) PROVE FreshStep
    BY ZenonT(30), <2>1, <2>7 DEF Tick, Crash, RotateMasterKey, registryVars
  <2>. QED
    BY ZenonT(30), <2>1, <2>2, <2>3, <2>4, <2>5, <2>6, <2>7, <2>8, ConnFrame
       DEF Next, Handler, registryVars
<1>. QED  BY <1>1, <1>2, <1>3, PTL DEF Spec, AdmissionFresh
-----------------------------------------------------------------------------
(* The refinement                                                          *)

\* A tombstone names an id that was allocated.
TombstonesBelow == \A id \in revoked : id < nextNodeId

\* Every step other than an admission, a revocation and a restart leaves index,
\* tombstones and the id counter alone.
LEMMA MembershipFrame ==
    ASSUME [Next]_vars
    PROVE  \/ UNCHANGED <<entries, pubkeys, nextNodeId, revoked>>
           \/ \E c \in Conns : AckNew(c)
           \/ \E id \in NodeIds : Revoke(id)
           \/ \E cfg \in Configs : Restart(cfg)
<1>1. ASSUME NEW c \in Conns, Beat(c) \/ Heartbeat(c) \/ ReportEndpoints(c)
      PROVE UNCHANGED <<entries, pubkeys, nextNodeId, revoked>>
  BY <1>1 DEF Beat, Heartbeat, ReportEndpoints, CoordHeartbeat, FlushRotations, registryVars
<1>5. ASSUME NEW id \in NodeIds, RevokeAbsent(id)
      PROVE UNCHANGED <<entries, pubkeys, nextNodeId, revoked>>
  BY <1>5 DEF RevokeAbsent, FlushRotations, registryVars
<1>2. ASSUME NEW n \in Nets, RotateMasterKey(n)
      PROVE UNCHANGED <<entries, pubkeys, nextNodeId, revoked>>
  BY <1>2 DEF RotateMasterKey, registryVars
<1>3. ASSUME NEW cfg \in Configs, Reload(cfg)
      PROVE UNCHANGED <<entries, pubkeys, nextNodeId, revoked>>
  BY <1>3 DEF Reload
<1>4. ASSUME Tick \/ Crash \/ UNCHANGED vars
      PROVE UNCHANGED <<entries, pubkeys, nextNodeId, revoked>>
  BY <1>4 DEF Tick, Crash, vars, registryVars
<1>. QED  BY <1>1, <1>2, <1>3, <1>4, <1>5, ConnFrame DEF Next, Handler, registryVars

\* Revoking a registered node drops its index row and adds its tombstone.
LEMMA RevokeEffect ==
    ASSUME TypeOK, IndexConsistent, IdsBelow, NEW id \in NodeIds, Revoke(id)
    PROVE  /\ \E m \in pubkeys : m.id = id /\ pubkeys' = pubkeys \ {m}
           /\ revoked' = revoked \cup {id} /\ nextNodeId' = nextNodeId
           /\ id < nextNodeId
<1>1. /\ EntryOf(id) # {} /\ pubkeys' = {x \in pubkeys : x.id # id}
      /\ revoked' = revoked \cup {id} /\ nextNodeId' = nextNodeId
  BY ZenonT(30) DEF Revoke, DropIndex
<1>2. PICK e \in entries : e.id = id
  BY <1>1 DEF EntryOf
<1>. DEFINE row == [net |-> e.net, pub |-> e.pub, id |-> e.id]
<1>3. row \in pubkeys /\ row.id = id
  BY <1>2 DEF IndexConsistent
<1>4. \A x \in pubkeys : x.id = id => x = row
  <2>. SUFFICES ASSUME NEW x \in pubkeys, x.id = id PROVE x = row
    OBVIOUS
  <2>1. PICK f \in entries : x = [net |-> f.net, pub |-> f.pub, id |-> f.id]
    BY ZenonT(30) DEF IndexConsistent
  <2>2. f = e
    BY <1>2, <2>1 DEF IndexConsistent
  <2>. QED  BY <2>1, <2>2
<1>5. pubkeys' = pubkeys \ {row}
  BY <1>1, <1>3, <1>4
<1>6. id < nextNodeId
  BY <1>2 DEF IdsBelow
<1>. QED  BY <1>1, <1>3, <1>5, <1>6, Zenon

\* A restart from a store that holds what memory held changes none of them.
LEMMA RestartKeepsIndex ==
    ASSUME WriteThrough, IndexConsistent, NEW cfg \in Configs, Restart(cfg)
    PROVE  UNCHANGED <<pubkeys, nextNodeId, revoked>>
<1>1. pubkeys' = {[net |-> e.net, pub |-> e.pub, id |-> e.id] : e \in store.entries}
  BY ZenonT(30) DEF Restart
<1>2. store.entries = entries
  BY DEF WriteThrough, Snapshot
<1>. QED  BY <1>1, <1>2, RestartRestores DEF IndexConsistent

\* Every step keeps the tombstones below the counter of node ids.
LEMMA TombstonesStep ==
    ASSUME TypeOK, IndexConsistent, IdsBelow, WriteThrough, TombstonesBelow, [Next]_vars
    PROVE  TombstonesBelow'
<1>. USE DEF TombstonesBelow
<1>0. nextNodeId \in Nat /\ \A id \in revoked : id \in Nat
  BY TypeFacts DEF TypeOK, NodeIds
<1>1. CASE UNCHANGED <<entries, pubkeys, nextNodeId, revoked>>
  BY <1>1
<1>2. ASSUME NEW c \in Conns, AckNew(c) PROVE TombstonesBelow'
  <2>1. \/ UNCHANGED <<nextNodeId, revoked>>
        \/ nextNodeId' = nextNodeId + 1 /\ revoked' = revoked
    BY <1>2, AckNewCases DEF registryVars, Admit
  <2>. QED  BY <1>0, <2>1
<1>3. ASSUME NEW id \in NodeIds, Revoke(id) PROVE TombstonesBelow'
  BY <1>3, RevokeEffect
<1>4. ASSUME NEW cfg \in Configs, Restart(cfg) PROVE TombstonesBelow'
  BY <1>4, RestartKeepsIndex
<1>. QED  BY <1>1, <1>2, <1>3, <1>4, MembershipFrame

\* Every step of the coordinator is a join, a departure or a stutter of the
\* abstract membership.
LEMMA MembershipStep ==
    ASSUME TypeOK, IndexConsistent, IdsBelow, WriteThrough, TombstonesBelow, [Next]_vars
    PROVE  [Mem!MNext]_(Mem!mvars)
<1>. USE DEF Mem!mvars
<1>1. CASE UNCHANGED <<pubkeys, revoked>>
  BY <1>1
<1>2. ASSUME NEW p \in PubKeys, NEW k \in AuthKeys, NEW a \in Attrs,
             Admit(nextNodeId, p, k, a), nextNodeId \in NodeIds,
             \A x \in pubkeys : ~(x.net = KeyNet[k] /\ x.pub = p)
      PROVE Mem!MNext
  <2>. DEFINE new == [net |-> KeyNet[k], pub |-> p, id |-> nextNodeId]
  <2>1. new \in Index
    BY <1>2, KeysAssumption DEF Index
  <2>2. pubkeys' = pubkeys \cup {new} /\ revoked' = revoked
    BY <1>2 DEF Admit
  <2>3. new.id \notin revoked
    <3>1. nextNodeId \in Nat
      BY TypeFacts
    <3>2. ~(nextNodeId < nextNodeId)
      BY <3>1
    <3>3. nextNodeId \notin revoked
      BY <3>2 DEF TombstonesBelow
    <3>. QED  BY <3>3
  <2>4. \A x \in pubkeys : x.id # new.id
    <3>1. \A e \in entries : e.id # nextNodeId
      BY TypeFacts DEF IdsBelow
    <3>. QED  BY <3>1 DEF IndexConsistent
  <2>5. Mem!Join(new)
    BY <1>2, <2>2, <2>3, <2>4 DEF Mem!Join
  <2>. QED  BY <2>1, <2>5 DEF Mem!MNext
<1>3. ASSUME NEW c \in Conns, AckNew(c) PROVE [Mem!MNext]_(Mem!mvars)
  BY <1>2, <1>3, AckNewCases, Zenon DEF registryVars
<1>4. ASSUME NEW id \in NodeIds, Revoke(id) PROVE Mem!MNext
  <2>1. PICK m \in pubkeys : m.id = id /\ pubkeys' = pubkeys \ {m}
    BY <1>4, RevokeEffect
  <2>2. Mem!Leave(m)
    BY <1>4, <2>1, RevokeEffect DEF Mem!Leave
  <2>. QED  BY <2>2 DEF Mem!MNext
<1>5. ASSUME NEW cfg \in Configs, Restart(cfg) PROVE UNCHANGED <<pubkeys, revoked>>
  BY <1>5, RestartKeepsIndex
<1>. QED  BY <1>1, <1>3, <1>4, <1>5, MembershipFrame

\* With a store that does not fail the coordinator, with its challenges, crashes
\* and restarts, implements the abstract membership.
THEOREM ImplementsMembership ==
    ASSUME ~StoreMayFail
    PROVE  Spec => MembershipKept
<1>. DEFINE Inv == TypeOK /\ IndexConsistent /\ IdsBelow /\ WriteThrough /\ TombstonesBelow
<1>1. Init => Inv
  <2>. SUFFICES ASSUME Init PROVE Inv
    OBVIOUS
  <2>1. IndexConsistent /\ IdsBelow /\ WriteThrough /\ TombstonesBelow
    BY ZenonT(30) DEF Init, IndexConsistent, IdsBelow, WriteThrough, Snapshot, EmptyStore,
                      TombstonesBelow
  <2>. QED  BY <2>1, InitType
<1>2. Inv /\ [Next]_vars => Inv'
  BY TypeStep, IndexStep, WriteThroughStep, TombstonesStep
<1>3. Init => Mem!MInit
  BY DEF Init, Mem!MInit
<1>4. Inv /\ [Next]_vars => [Mem!MNext]_(Mem!mvars)
  BY MembershipStep
<1>. QED  BY <1>1, <1>2, <1>3, <1>4, PTL DEF Spec, MembershipKept, Mem!MSpec
=============================================================================
