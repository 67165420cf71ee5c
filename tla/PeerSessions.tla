----------------------------- MODULE PeerSessions -----------------------------
(***************************************************************************)
(* Sessions between mesh nodes: the lazy Noise_XX handshake of MeshData    *)
(* (initiators, responders, one session slot per peer), the tie-break for  *)
(* simultaneous initiation, the retry timer and the data-plane heartbeat   *)
(* that drops a dead session.                                              *)
(*                                                                         *)
(* A handshake is named by its two ephemeral keys: i of the initiator, r   *)
(* of the responder.  Noise binds msg2 and msg3 to both, so a message of   *)
(* another instance is rejected.  The salt travels with i.  Frames carry   *)
(* the instance whose keys protect them; sequence numbers, replay windows  *)
(* and rekeying within one session are the subject of Session.             *)
(*                                                                         *)
(* The network reorders and delays without bound.  It may lose a bounded   *)
(* number of messages and, with duplicates, deliver one many times.        *)
(***************************************************************************)
EXTENDS Integers, FiniteSets

CONSTANTS
    Nodes,          \* node ids
    Ephs,           \* ephemeral keys
    MaxMisses,      \* data_heartbeat_misses
    Environments    \* what traffic, network and processes may do, see Environment

\* talkers: nodes that may have traffic for their peers
\* steady: those whose traffic never ends
\* broadcasters: nodes that flood multicast traffic
\* restarting: nodes that may restart
\* duplicates: may the network deliver a message twice?
\* prompt: do messages arrive, and the 5 s timers of all nodes fire, within one
\*     timer interval?
\* sendFails: may a send find no usable endpoint, or no key_dst?
\* timers: do the retry and heartbeat timers run?
\* history: are the histories recorded?
\* losses, reboots: bounds on lost messages and on restarts
\* ephs: the ephemeral keys that may be generated
Environment ==
    [talkers : SUBSET Nodes, steady : SUBSET Nodes, broadcasters : SUBSET Nodes,
     restarting : SUBSET Nodes, duplicates : BOOLEAN, prompt : BOOLEAN,
     sendFails : BOOLEAN, timers : BOOLEAN, history : BOOLEAN,
     losses : Nat, reboots : Nat, ephs : SUBSET Ephs]

ASSUME NodesAssumption == Nodes \subseteq Nat /\ Ephs \subseteq Nat /\ MaxMisses \in Nat \ {0}
ASSUME EnvironmentsAssumption ==
    \A e \in Environments : e \in Environment /\ e.steady \subseteq e.talkers

VARIABLES
    env,          \* the environment of this behaviour, fixed
    initiators,   \* MeshData.initiators: at most one ephemeral key per peer
    responders,   \* MeshData.responders: at most one instance [i, r] per peer
    sessions,     \* MeshData.sessions: at most one instance per peer
    misses,       \* Node.peer_heartbeats
    attempt,      \* Node.last_handshake_attempt: "none", "recent" or "due"
    net,          \* messages in flight
    ticked,       \* nodes whose heartbeat timer fired in this round (env.prompt)
    losses, reboots,
    spent,        \* history: ephemeral keys ever generated
    made          \* history: sessions ever established [node, peer, role, i, r]

pairVars == <<initiators, responders, sessions, misses, attempt>>
vars == <<env, pairVars, net, ticked, losses, reboots, spent, made>>

Pairs == {x \in Nodes \X Nodes : x[1] # x[2]}
Instance == [i : Ephs, r : Ephs]

Msg1(n, p, i) == [type |-> "msg1", from |-> n, to |-> p, i |-> i, r |-> i]
Msg2(n, p, x) == [type |-> "msg2", from |-> n, to |-> p, i |-> x.i, r |-> x.r]
Msg3(n, p, x) == [type |-> "msg3", from |-> n, to |-> p, i |-> x.i, r |-> x.r]
Frame(n, p, x) == [type |-> "frame", from |-> n, to |-> p, i |-> x.i, r |-> x.r]
Flood(n, p) == [type |-> "flood", from |-> n, to |-> p]

Handshaking == {m \in net : m.type \in {"msg1", "msg2", "msg3"}}

\* Ephemeral keys that occur in the state; without a history they are reused
\* once they have disappeared, which no step can tell from a new one.
Used ==
    spent
    \cup UNION {initiators[x] : x \in Pairs}
    \cup UNION {{y.i, y.r} : y \in UNION {responders[x] \cup sessions[x] : x \in Pairs}}
    \cup UNION {{m.i, m.r} : m \in {m \in net : m.type # "flood"}}

Fresh == {e \in env.ephs \ Used : \A f \in env.ephs \ Used : e <= f}

\* Histories, for the properties only.
Spend(e) == spent' = IF env.history THEN spent \cup {e} ELSE spent
Record(n, p, role, x) ==
    made' = IF env.history
            THEN made \cup {[node |-> n, peer |-> p, role |-> role, i |-> x.i, r |-> x.r]}
            ELSE made

\* The message m is taken out of the network (or stays, to arrive again).
Taken(m) == IF env.duplicates THEN net ELSE net \ {m}
-----------------------------------------------------------------------------
(* Sending side                                                            *)

\* Faulty variant of StillTried: a handshake is waited for without end.
NeverGivenUp(pr) == initiators[pr]

\* The initiator that is left once a retry that is due has dropped it.
StillTried(pr) == IF attempt[pr] = "due" THEN {} ELSE initiators[pr]

\* An outbound packet for p: over the session if there is one, otherwise it
\* starts a handshake unless one is in progress in either role.  A handshake
\* that has been waiting for the retry interval is given up first.  A msg1 that
\* cannot be sent gives the handshake up; one for which there is no key_dst is
\* not even built, and its initiator stays, without an attempt to time it.
LanPacket(n, p) ==
    LET pr == <<n, p>>
        kept == StillTried(pr)
    IN
    /\ n \in env.talkers
    /\ \/ /\ sessions[pr] # {}
          /\ net' = net \cup {Frame(n, p, x) : x \in sessions[pr]}
          /\ UNCHANGED <<initiators, attempt, spent>>
       \/ /\ sessions[pr] = {}
          /\ kept # {} \/ responders[pr] # {}
          /\ initiators' = [initiators EXCEPT ![pr] = kept]
          /\ UNCHANGED <<attempt, net, spent>>
       \/ /\ sessions[pr] = {} /\ kept = {} /\ responders[pr] = {}
          /\ \E e \in Fresh :
              /\ Spend(e)
              /\ \/ /\ initiators' = [initiators EXCEPT ![pr] = {e}]
                    /\ attempt' = [attempt EXCEPT ![pr] = "recent"]
                    /\ net' = net \cup {Msg1(n, p, e)}
                 \/ /\ env.sendFails
                    /\ \/ initiators' = [initiators EXCEPT ![pr] = {}]
                       \/ initiators' = [initiators EXCEPT ![pr] = {e}]
                    /\ UNCHANGED <<attempt, net>>
    /\ UNCHANGED <<env, responders, sessions, misses, ticked, losses, reboots, made>>

\* HANDSHAKE_RETRY_INTERVAL has passed since the last msg1 for p.
RetryElapses(n, p) ==
    /\ env.timers
    /\ attempt[<<n, p>>] = "recent"
    /\ env.prompt => Handshaking = {}
    /\ attempt' = [attempt EXCEPT ![<<n, p>>] = "due"]
    /\ UNCHANGED <<env, initiators, responders, sessions, misses, net, ticked, losses,
                   reboots, spent, made>>

Broadcast(n) ==
    /\ n \in env.broadcasters
    /\ net' = net \cup {Flood(n, p) : p \in Nodes \ {n}}
    /\ UNCHANGED <<env, pairVars, ticked, losses, reboots, spent, made>>
-----------------------------------------------------------------------------
(* Receiving side                                                          *)

\* Simultaneous initiation: the lower node id keeps its own handshake.
Yields(n, p) == p < n

\* handle_msg1: answer with a responder of our own, replacing an earlier one.
RecvMsg1(n, m) ==
    LET pr == <<n, m.from>>
    IN
    /\ m.type = "msg1" /\ m.to = n
    /\ \/ /\ initiators[pr] # {} /\ ~Yields(n, m.from)
          /\ net' = Taken(m)
          /\ UNCHANGED <<initiators, responders, spent>>
       \/ /\ initiators[pr] = {} \/ Yields(n, m.from)
          /\ initiators' = [initiators EXCEPT ![pr] = {}]
          /\ \E e \in Fresh :
              LET x == [i |-> m.i, r |-> e]
              IN  /\ Spend(e)
                  /\ responders' = [responders EXCEPT ![pr] = {x}]
                  /\ \/ net' = Taken(m) \cup {Msg2(n, m.from, x)}
                     \/ env.sendFails /\ net' = Taken(m)
    /\ UNCHANGED <<env, sessions, misses, attempt, ticked, losses, reboots, made>>

\* handle_msg2 removes the initiator before it reads the message.
InitiatorsAfterMsg2(pr) == [initiators EXCEPT ![pr] = {}]

\* Faulty variant of NotFinished: msg3 goes out before the handshake is known to
\* be complete.
FinishedTooEarly(n, m, x) == Taken(m) \cup {Msg3(n, m.from, x)}

\* The network after a msg2 that ends in an error.
NotFinished(n, m, x) == Taken(m)

\* handle_msg2: finish as initiator if the message belongs to our instance; the
\* session exists once msg3 was sent.
RecvMsg2(n, m) ==
    LET pr == <<n, m.from>>
        x == [i |-> m.i, r |-> m.r]
    IN
    /\ m.type = "msg2" /\ m.to = n
    /\ initiators' = InitiatorsAfterMsg2(pr)
    /\ \/ /\ m.i \in initiators[pr]
          /\ net' = Taken(m) \cup {Msg3(n, m.from, x)}
          /\ sessions' = [sessions EXCEPT ![pr] = {x}]
          /\ misses' = [misses EXCEPT ![pr] = 0]
          /\ Record(n, m.from, "initiator", x)
       \/ /\ m.i \notin initiators[pr] \/ env.sendFails
          /\ net' = NotFinished(n, m, x)
          /\ UNCHANGED <<sessions, misses, made>>
    /\ UNCHANGED <<env, responders, attempt, ticked, losses, reboots, spent>>

\* Faulty variant of RespondersAfterMsg3: the responder stays usable.
RespondersKept(pr) == responders

\* handle_msg3 removes the responder before it reads the message.
RespondersAfterMsg3(pr) == [responders EXCEPT ![pr] = {}]

Msg3Matches(pr, x) == x \in responders[pr]

\* handle_msg3: finish as responder.
RecvMsg3(n, m) ==
    LET pr == <<n, m.from>>
        x == [i |-> m.i, r |-> m.r]
    IN
    /\ m.type = "msg3" /\ m.to = n
    /\ responders' = RespondersAfterMsg3(pr)
    /\ IF Msg3Matches(pr, x)
       THEN /\ sessions' = [sessions EXCEPT ![pr] = {x}]
            /\ misses' = [misses EXCEPT ![pr] = 0]
            /\ Record(n, m.from, "responder", x)
       ELSE UNCHANGED <<sessions, misses, made>>
    /\ net' = Taken(m)
    /\ UNCHANGED <<env, initiators, attempt, ticked, losses, reboots, spent>>

\* Faulty variant of RecvFrame: a frame that opens does not reset the miss counter.
RecvFrameUncounted(n, m) ==
    /\ m.type = "frame" /\ m.to = n
    /\ net' = Taken(m)
    /\ UNCHANGED <<env, initiators, responders, sessions, misses, attempt, ticked, losses,
                   reboots, spent, made>>

\* A data or heartbeat frame that the session of the receiver can open resets
\* the miss counter; any other one is dropped.
RecvFrame(n, m) ==
    LET pr == <<n, m.from>>
    IN
    /\ m.type = "frame" /\ m.to = n
    /\ net' = Taken(m)
    /\ misses' = IF [i |-> m.i, r |-> m.r] \in sessions[pr]
                 THEN [misses EXCEPT ![pr] = 0] ELSE misses
    /\ UNCHANGED <<env, initiators, responders, sessions, attempt, ticked, losses, reboots,
                   spent, made>>

\* A broadcast needs no session and resets the counter as well, unless the replay
\* window of its source refuses it: a repeat, a late one, or one of a source that
\* restarted and counts from 0 again.  Floods carry no number here, so that any of
\* them may be refused.
RecvFlood(n, m) ==
    /\ m.type = "flood" /\ m.to = n
    /\ net' = Taken(m)
    /\ \/ misses' = [misses EXCEPT ![<<n, m.from>>] = 0]
       \/ UNCHANGED misses
    /\ UNCHANGED <<env, initiators, responders, sessions, attempt, ticked, losses, reboots,
                   spent, made>>

\* The counter of a session after one more heartbeat.
Missed(x) == misses[x] + 1

\* The data-heartbeat timer: count a miss for every session, send a heartbeat
\* over it, and drop it at the limit.
DataHeartbeat(n) ==
    LET mine == {x \in Pairs : x[1] = n /\ sessions[x] # {}}
        dead == {x \in mine : Missed(x) >= MaxMisses}
    IN
    /\ env.timers
    /\ env.prompt => /\ n \notin ticked
                 /\ \A m \in net : m.type = "flood"
    /\ net' = net \cup UNION {{Frame(n, x[2], y) : y \in sessions[x]} : x \in mine}
    /\ sessions' = [x \in Pairs |-> IF x \in dead THEN {} ELSE sessions[x]]
    /\ misses' = [x \in Pairs |-> IF x \in dead THEN 0
                                  ELSE IF x \in mine THEN Missed(x) ELSE misses[x]]
    /\ ticked' = IF ~env.prompt \/ ticked \cup {n} = Nodes THEN {} ELSE ticked \cup {n}
    /\ UNCHANGED <<env, initiators, responders, attempt, losses, reboots, spent, made>>
-----------------------------------------------------------------------------
(* Environment                                                             *)

Lose(m) ==
    /\ losses < env.losses
    /\ losses' = losses + 1
    /\ net' = net \ {m}
    /\ UNCHANGED <<env, pairVars, ticked, reboots, spent, made>>

\* A restart of the node process: nothing of this state is persistent.
Reboot(n) ==
    LET Clear(f, v) == [x \in Pairs |-> IF x[1] = n THEN v ELSE f[x]]
    IN
    /\ n \in env.restarting /\ reboots < env.reboots
    /\ reboots' = reboots + 1
    /\ initiators' = Clear(initiators, {})
    /\ responders' = Clear(responders, {})
    /\ sessions' = Clear(sessions, {})
    /\ misses' = Clear(misses, 0)
    /\ attempt' = Clear(attempt, "none")
    /\ UNCHANGED <<env, net, ticked, losses, spent, made>>

Init ==
    /\ env \in Environments
    /\ initiators = [x \in Pairs |-> {}]
    /\ responders = [x \in Pairs |-> {}]
    /\ sessions = [x \in Pairs |-> {}]
    /\ misses = [x \in Pairs |-> 0]
    /\ attempt = [x \in Pairs |-> "none"]
    /\ net = {} /\ ticked = {} /\ losses = 0 /\ reboots = 0 /\ spent = {} /\ made = {}

Receive(n, m) ==
    RecvMsg1(n, m) \/ RecvMsg2(n, m) \/ RecvMsg3(n, m) \/ RecvFrame(n, m) \/ RecvFlood(n, m)

Next ==
    \/ \E x \in Pairs : LanPacket(x[1], x[2]) \/ RetryElapses(x[1], x[2])
    \/ \E n \in Nodes : Broadcast(n) \/ DataHeartbeat(n) \/ Reboot(n)
    \/ \E n \in Nodes, m \in net : Receive(n, m)
    \/ \E m \in net : Lose(m)

Spec == Init /\ [][Next]_vars

\* Is m a frame of the session its sender has now?
Current(m) == m.type = "frame" /\ [i |-> m.i, r |-> m.r] \in sessions[<<m.from, m.to>>]

\* The event loop of a node polls the LAN, the socket and the timers for ever;
\* a message that is not lost arrives.
Fairness ==
    /\ \A x \in Pairs :
        /\ WF_vars(x[1] \in env.steady /\ LanPacket(x[1], x[2]))
        /\ SF_vars(RetryElapses(x[1], x[2]))
    /\ \A n \in Nodes :
        /\ SF_vars(DataHeartbeat(n)) /\ WF_vars(Broadcast(n))
        /\ WF_vars(\E m \in net : RecvMsg1(n, m))
        /\ WF_vars(\E m \in net : RecvMsg2(n, m))
        /\ WF_vars(\E m \in net : RecvMsg3(n, m))
        /\ WF_vars(\E m \in net : Current(m) /\ RecvFrame(n, m))
        /\ WF_vars(\E m \in net : ~Current(m) /\ RecvFrame(n, m))
        /\ WF_vars(\E m \in net : RecvFlood(n, m))

FairSpec == Spec /\ Fairness
-----------------------------------------------------------------------------
(* Properties                                                              *)

Messages ==
    [type : {"msg1", "msg2", "msg3", "frame"}, from : Nodes, to : Nodes, i : Ephs, r : Ephs]
    \cup [type : {"flood"}, from : Nodes, to : Nodes]

\* Every variable keeps its type, with one handshake per role and one session
\* per peer; a node never sends to itself.
TypeOK ==
    /\ initiators \in [Pairs -> SUBSET Ephs]
    /\ responders \in [Pairs -> SUBSET Instance]
    /\ sessions \in [Pairs -> SUBSET Instance]
    /\ \A x \in Pairs : \A f \in {initiators, responders, sessions} :
            \A u, v \in f[x] : u = v
    /\ misses \in [Pairs -> Nat]
    /\ attempt \in [Pairs -> {"none", "recent", "due"}]
    /\ net \subseteq {m \in Messages : m.from # m.to}
    /\ ticked \subseteq Nodes /\ losses \in Nat /\ reboots \in Nat
    /\ spent \subseteq Ephs
    /\ env \in Environments
    /\ made \subseteq [node : Nodes, peer : Nodes, role : {"initiator", "responder"},
                       i : Ephs, r : Ephs]

\* A responder finishes only a handshake that its peer finished as initiator
\* with this node: no stale, replayed or foreign msg3 makes a session.
Agreement ==
    \A s \in made : s.role = "responder" =>
        [node |-> s.peer, peer |-> s.node, role |-> "initiator", i |-> s.i, r |-> s.r] \in made

\* No handshake instance makes a session twice on one side, whatever is
\* repeated: frame counters start at 0 with every session, so a second one with
\* the same keys would use its nonces again.
EstablishStep ==
    \A x \in Pairs : \A s \in sessions'[x] \ sessions[x] :
        \A t \in made : ~(t.node = x[1] /\ t.i = s.i /\ t.r = s.r)

InstanceOnce == [][EstablishStep]_vars

\* A network that delivers each message once, with nothing else going wrong.
Calm ==
    ~env.duplicates /\ ~env.sendFails /\ ~env.timers /\ env.losses = 0 /\ env.reboots = 0

\* Two nodes that initiate at the same time, on a network that delivers, end
\* with one handshake: once nothing is in flight both hold the same session, the
\* one that was asked for, and neither waits for an answer.
Converged ==
    Calm /\ Handshaking = {} =>
        \A x \in Pairs : LET back == <<x[2], x[1]>> IN
            /\ sessions[x] = sessions[back]
            /\ initiators[x] = {}
            /\ attempt[x] # "none" => sessions[x] # {}

Connected(x) == sessions[x] # {} /\ sessions[x] = sessions[<<x[2], x[1]>>]

\* Two nodes that both have traffic, on a prompt network that loses nothing, get
\* a common session and keep it; simultaneous handshakes end in one (Converged).
Heals ==
    /\ []Converged
    /\ \A x \in Pairs :
        (x[1] \in env.steady /\ x[2] \in env.steady /\ env.losses = 0 /\ env.reboots = 0)
            ~> []Connected(x)

\* A node with endless traffic for a peer that starts no handshake itself gets a
\* common session again and again: retries and the heartbeat limit overcome a
\* lost message and a restart of the peer.
TalkerServed ==
    \A x \in Pairs : []<>(x[1] \in env.steady /\ x[2] \notin env.talkers => Connected(x))
=============================================================================
