-------------------------- MODULE PeerSessionsProofs --------------------------
(***************************************************************************)
(* Proofs about PeerSessions, for every set of nodes, ephemeral keys and   *)
(* environments: any number of nodes, losses, duplicates and restarts.     *)
(***************************************************************************)
EXTENDS PeerSessions, TLAPS

\* A fresh ephemeral key was never generated before, as far as the history tells.
LEMMA FreshFacts == ASSUME TypeOK PROVE \A e \in Fresh : e \in Ephs /\ e \notin spent
BY EnvironmentsAssumption DEF TypeOK, Environment, Fresh, Used

-----------------------------------------------------------------------------
(* Types                                                                   *)

\* A node starts without handshakes and sessions.
LEMMA InitType == Init => TypeOK
BY NodesAssumption, EnvironmentsAssumption DEF Init, TypeOK, Instance

\* The type invariant is preserved by every step.
LEMMA TypeStep == TypeOK /\ [Next]_vars => TypeOK'
<1> SUFFICES ASSUME TypeOK, [Next]_vars PROVE TypeOK'
  OBVIOUS
<1>p. \A n, p \in Nodes : n # p => <<n, p>> \in Pairs
  BY DEF Pairs
<1>q. \A x \in Pairs : x[1] \in Nodes /\ x[2] \in Nodes /\ x[1] # x[2] /\ x = <<x[1], x[2]>>
  BY DEF Pairs
<1>m. ASSUME NEW m \in net
      PROVE  /\ m.type \in {"msg1", "msg2", "msg3", "frame", "flood"}
             /\ m.from \in Nodes /\ m.to \in Nodes /\ m.from # m.to
             /\ m.type # "flood" => m.i \in Ephs /\ m.r \in Ephs
             /\ <<m.to, m.from>> \in Pairs
  BY <1>p DEF TypeOK, Messages
<1>n. ASSUME NEW n \in Nodes, NEW p \in Nodes, n # p, NEW x \in Instance
      PROVE  /\ Msg2(n, p, x) \in {m \in Messages : m.from # m.to}
             /\ Msg3(n, p, x) \in {m \in Messages : m.from # m.to}
             /\ Frame(n, p, x) \in {m \in Messages : m.from # m.to}
             /\ Flood(n, p) \in {m \in Messages : m.from # m.to}
  BY <1>n DEF Msg2, Msg3, Frame, Flood, Messages, Instance
<1>o. ASSUME NEW n \in Nodes, NEW p \in Nodes, n # p, NEW e \in Ephs
      PROVE  Msg1(n, p, e) \in {m \in Messages : m.from # m.to}
  BY <1>o DEF Msg1, Messages
<1>u. \A x \in Pairs : /\ \A u, v \in initiators[x] : u = v
                       /\ \A u, v \in responders[x] : u = v
                       /\ \A u, v \in sessions[x] : u = v
  BY DEF TypeOK
<1>1. ASSUME NEW x \in Pairs, LanPacket(x[1], x[2]) PROVE TypeOK'
  <2>1. /\ initiators' \in [Pairs -> SUBSET Ephs]
        /\ \A y \in Pairs : \A u, v \in initiators'[y] : u = v
    <3>1. \E k \in SUBSET Ephs :
            /\ \A u, v \in k : u = v
            /\ initiators' = [initiators EXCEPT ![x] = k] \/ initiators' = initiators
      <4>1. x = <<x[1], x[2]>>
        BY <1>q
      <4>2. StillTried(x) \in SUBSET Ephs /\ \A u, v \in StillTried(x) : u = v
        BY <1>u DEF StillTried, TypeOK
      <4> QED
        BY <1>1, <4>1, <4>2, FreshFacts DEF LanPacket
    <3> QED
      BY <3>1, <1>u DEF TypeOK
  <2>2. attempt' \in [Pairs -> {"none", "recent", "due"}]
    BY <1>1, <1>q, Zenon DEF LanPacket, TypeOK
  <2>3. net' \subseteq {m \in Messages : m.from # m.to}
    <3>1. x[1] \in Nodes /\ x[2] \in Nodes /\ x[1] # x[2] /\ x = <<x[1], x[2]>>
      BY <1>q
    <3>2. \A y \in sessions[x] : Frame(x[1], x[2], y) \in {m \in Messages : m.from # m.to}
      BY <3>1, <1>n DEF TypeOK
    <3>3. \A e \in Fresh : Msg1(x[1], x[2], e) \in {m \in Messages : m.from # m.to}
      BY <3>1, <1>o, FreshFacts
    <3>4. \/ net' = net \/ net' = net \cup {Frame(x[1], x[2], y) : y \in sessions[x]}
          \/ \E e \in Fresh : net' = net \cup {Msg1(x[1], x[2], e)}
      BY <1>1, <3>1 DEF LanPacket
    <3> QED
      BY <3>2, <3>3, <3>4 DEF TypeOK
  <2>4. spent' \subseteq Ephs
    BY <1>1, FreshFacts DEF LanPacket, Spend, TypeOK
  <2> QED
    BY <1>1, <2>1, <2>2, <2>3, <2>4 DEF LanPacket, TypeOK
<1>2. ASSUME NEW x \in Pairs, RetryElapses(x[1], x[2]) PROVE TypeOK'
  BY <1>2, <1>q, Zenon DEF RetryElapses, TypeOK
<1>3. ASSUME NEW n \in Nodes, Broadcast(n) PROVE TypeOK'
  <2>1. net' \subseteq {m \in Messages : m.from # m.to}
    BY <1>3 DEF Broadcast, Flood, Messages, TypeOK
  <2> QED
    BY <1>3, <2>1 DEF Broadcast, pairVars, TypeOK
<1>4. ASSUME NEW n \in Nodes, DataHeartbeat(n) PROVE TypeOK'
  <2>1. net' \subseteq {m \in Messages : m.from # m.to}
    BY <1>4, <1>q, <1>n DEF DataHeartbeat, TypeOK
  <2>2. /\ sessions' \in [Pairs -> SUBSET Instance]
        /\ \A y \in Pairs : \A u, v \in sessions'[y] : u = v
    BY <1>4 DEF DataHeartbeat, TypeOK
  <2>3. misses' \in [Pairs -> Nat]
    BY <1>4 DEF DataHeartbeat, Missed, TypeOK
  <2>4. ticked' \subseteq Nodes
    BY <1>4 DEF DataHeartbeat, TypeOK
  <2> QED
    BY <1>4, <2>1, <2>2, <2>3, <2>4 DEF DataHeartbeat, TypeOK
<1>5. ASSUME NEW n \in Nodes, Reboot(n) PROVE TypeOK'
  BY <1>5 DEF Reboot, TypeOK
<1>6. ASSUME NEW n \in Nodes, NEW m \in net, RecvMsg1(n, m) PROVE TypeOK'
  <2>0. <<n, m.from>> \in Pairs /\ m.from # n /\ m.from \in Nodes /\ m.i \in Ephs
    BY <1>6, <1>m DEF RecvMsg1
  <2>a. \/ responders' = responders /\ spent' = spent /\ net' = Taken(m)
        \/ \E e \in Fresh :
             /\ Spend(e)
             /\ responders' = [responders EXCEPT ![<<n, m.from>>] = {[i |-> m.i, r |-> e]}]
             /\ \/ net' = Taken(m) \cup {Msg2(n, m.from, [i |-> m.i, r |-> e])}
                \/ net' = Taken(m)
    BY <1>6, Zenon DEF RecvMsg1
  <2>1. /\ initiators' \in [Pairs -> SUBSET Ephs]
        /\ \A y \in Pairs : \A u, v \in initiators'[y] : u = v
    BY <1>6, <2>0 DEF RecvMsg1, TypeOK
  <2>2. /\ responders' \in [Pairs -> SUBSET Instance]
        /\ \A y \in Pairs : \A u, v \in responders'[y] : u = v
    <3>1. ASSUME NEW e \in Fresh,
                 responders' = [responders EXCEPT ![<<n, m.from>>] = {[i |-> m.i, r |-> e]}]
          PROVE  /\ responders' \in [Pairs -> SUBSET Instance]
                 /\ \A y \in Pairs : \A u, v \in responders'[y] : u = v
      <4>1. [i |-> m.i, r |-> e] \in Instance
        BY <2>0, FreshFacts DEF Instance
      <4> QED
        BY <3>1, <4>1, <1>u, <2>0 DEF TypeOK
    <3>2. CASE responders' = responders
      BY <3>2, <1>u DEF TypeOK
    <3> QED
      BY <2>a, <3>1, <3>2, Zenon
  <2>3. net' \subseteq {k \in Messages : k.from # k.to}
    <3>1. CASE UNCHANGED responders /\ net' = Taken(m)
      BY <3>1 DEF Taken, TypeOK
    <3>2. ASSUME NEW e \in Fresh,
                 net' \in {Taken(m) \cup {Msg2(n, m.from, [i |-> m.i, r |-> e])}, Taken(m)}
          PROVE  net' \subseteq {k \in Messages : k.from # k.to}
      <4>1. [i |-> m.i, r |-> e] \in Instance
        BY <2>0, FreshFacts DEF Instance
      <4>2. Msg2(n, m.from, [i |-> m.i, r |-> e]) \in {k \in Messages : k.from # k.to}
        BY <4>1, <2>0, <1>n
      <4> QED
        BY <3>2, <4>2 DEF Taken, TypeOK
    <3> QED
      BY <2>a, <3>1, <3>2, Zenon
  <2>4. spent' \subseteq Ephs
    <3>1. spent \subseteq Ephs
      BY DEF TypeOK
    <3>2. ASSUME NEW e \in Fresh, Spend(e) PROVE spent' \subseteq Ephs
      BY <3>1, <3>2, FreshFacts DEF Spend
    <3> QED
      BY <2>a, <3>1, <3>2, Zenon
  <2> QED
    BY <1>6, <2>1, <2>2, <2>3, <2>4 DEF RecvMsg1, TypeOK
<1>7. ASSUME NEW n \in Nodes, NEW m \in net, RecvMsg2(n, m) PROVE TypeOK'
  <2> DEFINE y == [i |-> m.i, r |-> m.r]
  <2>0. /\ <<n, m.from>> \in Pairs /\ m.from # n /\ m.from \in Nodes
        /\ m.i \in Ephs /\ m.r \in Ephs /\ y \in Instance
    BY <1>7, <1>m DEF RecvMsg2, Instance
  <2>1. /\ initiators' \in [Pairs -> SUBSET Ephs]
        /\ \A z \in Pairs : \A u, v \in initiators'[z] : u = v
    BY <1>7, <2>0 DEF RecvMsg2, InitiatorsAfterMsg2, TypeOK
  <2>2. /\ sessions' \in [Pairs -> SUBSET Instance]
        /\ \A z \in Pairs : \A u, v \in sessions'[z] : u = v
    BY <1>7, <2>0 DEF RecvMsg2, TypeOK
  <2>3. net' \subseteq {k \in Messages : k.from # k.to}
    BY <1>7, <2>0, <1>n DEF RecvMsg2, NotFinished, Taken, TypeOK
  <2>4. misses' \in [Pairs -> Nat]
    <3>1. misses \in [Pairs -> Nat]
      BY DEF TypeOK
    <3>2. misses' = misses \/ misses' = [misses EXCEPT ![<<n, m.from>>] = 0]
      BY <1>7, Zenon DEF RecvMsg2
    <3> QED
      BY <3>1, <3>2
  <2>5. made' \subseteq [node : Nodes, peer : Nodes, role : {"initiator", "responder"},
                         i : Ephs, r : Ephs]
    BY <1>7, <2>0 DEF RecvMsg2, Record, TypeOK
  <2> QED
    BY <1>7, <2>1, <2>2, <2>3, <2>4, <2>5 DEF RecvMsg2, TypeOK
<1>8. ASSUME NEW n \in Nodes, NEW m \in net, RecvMsg3(n, m) PROVE TypeOK'
  <2> DEFINE y == [i |-> m.i, r |-> m.r]
  <2>0. /\ <<n, m.from>> \in Pairs /\ m.from # n /\ m.from \in Nodes
        /\ m.i \in Ephs /\ m.r \in Ephs /\ y \in Instance
    BY <1>8, <1>m DEF RecvMsg3, Instance
  <2>1. /\ responders' \in [Pairs -> SUBSET Instance]
        /\ \A z \in Pairs : \A u, v \in responders'[z] : u = v
    BY <1>8, <2>0 DEF RecvMsg3, RespondersAfterMsg3, TypeOK
  <2>2. /\ sessions' \in [Pairs -> SUBSET Instance]
        /\ \A z \in Pairs : \A u, v \in sessions'[z] : u = v
    BY <1>8, <2>0 DEF RecvMsg3, TypeOK
  <2>3. misses' \in [Pairs -> Nat]
    <3>1. misses \in [Pairs -> Nat]
      BY DEF TypeOK
    <3>2. misses' = misses \/ misses' = [misses EXCEPT ![<<n, m.from>>] = 0]
      BY <1>8, Zenon DEF RecvMsg3
    <3> QED
      BY <3>1, <3>2
  <2>4. made' \subseteq [node : Nodes, peer : Nodes, role : {"initiator", "responder"},
                         i : Ephs, r : Ephs]
    BY <1>8, <2>0 DEF RecvMsg3, Record, TypeOK
  <2> QED
    BY <1>8, <2>1, <2>2, <2>3, <2>4 DEF RecvMsg3, Taken, TypeOK
<1>9. ASSUME NEW n \in Nodes, NEW m \in net, RecvFrame(n, m) \/ RecvFlood(n, m) PROVE TypeOK'
  BY <1>9, <1>m DEF RecvFrame, RecvFlood, Taken, TypeOK
<1>10. ASSUME NEW m \in net, Lose(m) PROVE TypeOK'
  BY <1>10 DEF Lose, pairVars, TypeOK
<1>11. CASE UNCHANGED vars
  BY <1>11 DEF vars, pairVars, TypeOK
<1> QED
  BY <1>1, <1>2, <1>3, <1>4, <1>5, <1>6, <1>7, <1>8, <1>9, <1>10, <1>11 DEF Next, Receive

\* Every reachable state is well-typed: one handshake per role and one session
\* per peer, and nobody sends to itself.
THEOREM TypeCorrect == Spec => []TypeOK
BY InitType, TypeStep, PTL DEF Spec

-----------------------------------------------------------------------------
(* Agreement                                                               *)

\* A msg3 in the network was sent by a node that established the session it names;
\* without a history nothing is recorded.
Vouched ==
    /\ ~env.history => made = {}
    /\ env.history =>
        \A m \in net : m.type = "msg3" =>
            [node |-> m.from, peer |-> m.to, role |-> "initiator", i |-> m.i, r |-> m.r] \in made

\* A step that records nothing and sends no msg3 keeps both.
LEMMA VouchedFrame ==
    ASSUME Vouched, Agreement, env' = env, made' = made,
           \A m \in net' : m.type = "msg3" => m \in net
    PROVE  Vouched' /\ Agreement'
BY DEF Vouched, Agreement

\* Every handler keeps each responder, message and session tied to the initiator it came from.
LEMMA VouchedStep == TypeOK /\ Vouched /\ Agreement /\ [Next]_vars => Vouched' /\ Agreement'
<1> SUFFICES ASSUME TypeOK, Vouched, Agreement, [Next]_vars PROVE Vouched' /\ Agreement'
  OBVIOUS
<1>1. ASSUME NEW n \in Nodes, NEW p \in Nodes, NEW x
      PROVE  /\ Msg1(n, p, x).type = "msg1" /\ Msg2(n, p, x).type = "msg2"
             /\ Frame(n, p, x).type = "frame" /\ Flood(n, p).type = "flood"
  BY DEF Msg1, Msg2, Frame, Flood
<1>2. ASSUME NEW x \in Pairs, LanPacket(x[1], x[2]) PROVE Vouched' /\ Agreement'
  <2>1. x[1] \in Nodes /\ x[2] \in Nodes
    BY DEF Pairs
  <2>2. \/ net' = net \/ net' = net \cup {Frame(x[1], x[2], y) : y \in sessions[<<x[1], x[2]>>]}
        \/ \E e \in Fresh : net' = net \cup {Msg1(x[1], x[2], e)}
    BY <1>2 DEF LanPacket
  <2>3. \A m \in net' : m.type = "msg3" => m \in net
    BY <2>1, <2>2, <1>1
  <2> QED
    BY <1>2, <2>3, VouchedFrame DEF LanPacket
<1>3. ASSUME NEW x \in Pairs, RetryElapses(x[1], x[2]) PROVE Vouched' /\ Agreement'
  BY <1>3, VouchedFrame DEF RetryElapses
<1>4. ASSUME NEW n \in Nodes, Broadcast(n) PROVE Vouched' /\ Agreement'
  BY <1>4, <1>1, VouchedFrame DEF Broadcast
<1>5. ASSUME NEW n \in Nodes, DataHeartbeat(n) PROVE Vouched' /\ Agreement'
  <2>1. ASSUME NEW m \in net', m \notin net PROVE m.type = "frame"
    <3>1. PICK x \in Pairs : \E y \in sessions[x] : m = Frame(n, x[2], y)
      BY <1>5, <2>1 DEF DataHeartbeat
    <3> QED
      BY <3>1, <1>1 DEF Pairs
  <2> QED
    BY <1>5, <2>1, VouchedFrame DEF DataHeartbeat
<1>6. ASSUME NEW n \in Nodes, Reboot(n) PROVE Vouched' /\ Agreement'
  BY <1>6, VouchedFrame DEF Reboot
<1>7. ASSUME NEW n \in Nodes, NEW m \in net, RecvMsg1(n, m) PROVE Vouched' /\ Agreement'
  <2>1. \/ net' = Taken(m)
        \/ \E e \in Fresh : net' = Taken(m) \cup {Msg2(n, m.from, [i |-> m.i, r |-> e])}
    BY <1>7, Zenon DEF RecvMsg1
  <2>2. \A k \in net' : k.type = "msg3" => k \in net
    BY <2>1 DEF Taken, Msg2
  <2> QED
    BY <1>7, <2>2, VouchedFrame DEF RecvMsg1
<1>8. ASSUME NEW n \in Nodes, NEW m \in net, RecvMsg2(n, m) PROVE Vouched' /\ Agreement'
  <2> DEFINE new == [node |-> n, peer |-> m.from, role |-> "initiator", i |-> m.i, r |-> m.r]
             last == Msg3(n, m.from, [i |-> m.i, r |-> m.r])
  <2>1. CASE net' = Taken(m) /\ made' = made
    BY <1>8, <2>1, VouchedFrame DEF RecvMsg2, Taken
  <2>2. CASE /\ net' = Taken(m) \cup {last}
             /\ made' = IF env.history THEN made \cup {new} ELSE made
    <3>1. env' = env
      BY <1>8 DEF RecvMsg2
    <3>2. /\ last.type = "msg3" /\ last.from = n /\ last.to = m.from
          /\ last.i = m.i /\ last.r = m.r
      BY DEF Msg3
    <3>3. Vouched'
      BY <2>2, <3>1, <3>2 DEF Vouched, Taken
    <3>4. Agreement'
      BY <2>2 DEF Agreement
    <3> QED
      BY <3>3, <3>4
  <2>3. \/ net' = Taken(m) /\ made' = made
        \/ /\ net' = Taken(m) \cup {last}
           /\ made' = IF env.history THEN made \cup {new} ELSE made
    BY <1>8 DEF RecvMsg2, NotFinished, Record
  <2> QED
    BY <2>1, <2>2, <2>3
<1>9. ASSUME NEW n \in Nodes, NEW m \in net, RecvMsg3(n, m) PROVE Vouched' /\ Agreement'
  <2> DEFINE new == [node |-> n, peer |-> m.from, role |-> "responder", i |-> m.i, r |-> m.r]
  <2>1. env' = env /\ net' = Taken(m) /\ m.type = "msg3" /\ m.to = n
    BY <1>9 DEF RecvMsg3
  <2>2. made' = made \/ made' = IF env.history THEN made \cup {new} ELSE made
    BY <1>9 DEF RecvMsg3, Record
  <2>3. Vouched'
    BY <2>1, <2>2 DEF Vouched, Taken
  <2>4. Agreement'
    <3>1. env.history =>
            [node |-> m.from, peer |-> n, role |-> "initiator", i |-> m.i, r |-> m.r] \in made
      BY <2>1 DEF Vouched
    <3> QED
      BY <2>2, <3>1 DEF Agreement
  <2> QED
    BY <2>3, <2>4
<1>10. ASSUME NEW n \in Nodes, NEW m \in net, RecvFrame(n, m) \/ RecvFlood(n, m)
       PROVE  Vouched' /\ Agreement'
  BY <1>10, VouchedFrame DEF RecvFrame, RecvFlood, Taken
<1>11. ASSUME NEW m \in net, Lose(m) PROVE Vouched' /\ Agreement'
  BY <1>11, VouchedFrame DEF Lose
<1>12. CASE UNCHANGED vars
  BY <1>12, VouchedFrame DEF vars
<1> QED
  BY <1>2, <1>3, <1>4, <1>5, <1>6, <1>7, <1>8, <1>9, <1>10, <1>11, <1>12 DEF Next, Receive

\* A node that finishes a handshake as responder shares it with a peer that finished it
\* as initiator, for any number of nodes, losses, duplicates and restarts.
THEOREM Agrees == Spec => []Agreement
<1>1. Init => Vouched /\ Agreement
  BY DEF Init, Vouched, Agreement
<1> QED
  BY <1>1, VouchedStep, TypeCorrect, PTL DEF Spec

-----------------------------------------------------------------------------
(* Instances                                                               *)

Shaking(m) == m.type \in {"msg1", "msg2", "msg3"}

\* Ephemeral keys of handshakes were generated.
Known ==
    /\ \A x \in Pairs : initiators[x] \subseteq spent
    /\ \A x \in Pairs : \A y \in responders[x] : y.i \in spent /\ y.r \in spent
    /\ \A m \in net : Shaking(m) => m.i \in spent /\ m.r \in spent
    /\ \A t \in made : t.i \in spent /\ t.r \in spent

\* The key of a waiting initiator belongs to one handshake, which its node has neither
\* finished nor ever answered as a responder.
OwnOnce ==
    /\ \A x, y \in Pairs : \A e \in initiators[x] : e \in initiators[y] => x = y
    /\ \A x \in Pairs : \A e \in initiators[x] : \A t \in made : t.node = x[1] => t.i # e
    /\ \A x, z \in Pairs : \A y \in responders[x] : z[1] = x[1] => y.i \notin initiators[z]
    /\ \A m \in net : m.type = "msg1" =>
            \A z \in Pairs : z[1] = m.to => m.i \notin initiators[z]

\* The key of a waiting responder belongs to one handshake, which its node has neither
\* finished nor is offered as an initiator.
AnswerOnce ==
    /\ \A x, z \in Pairs : \A y \in responders[x], w \in responders[z] : y.r = w.r => x = z
    /\ \A x \in Pairs : \A y \in responders[x] : \A t \in made : t.node = x[1] => t.r # y.r
    /\ \A m \in net : m.type = "msg2" =>
            \A z \in Pairs : z[1] = m.to => \A y \in responders[z] : y.r # m.r

Instances == env.history => Known /\ OwnOnce /\ AnswerOnce

\* A step that adds no handshake, message of one, or record keeps all of it.
LEMMA InstancesFrame ==
    ASSUME Instances, env' = env, made' = made, spent \subseteq spent',
           \A x \in Pairs : initiators'[x] \subseteq initiators[x],
           \A x \in Pairs : responders'[x] \subseteq responders[x],
           \A m \in net' : Shaking(m) => m \in net
    PROVE  Instances'
<1> SUFFICES ASSUME env.history, Known, OwnOnce, AnswerOnce PROVE Known' /\ OwnOnce' /\ AnswerOnce'
  BY DEF Instances
<1>1. Known'
  BY DEF Known
<1>2. OwnOnce'
  BY DEF OwnOnce, Shaking
<1>3. AnswerOnce'
  BY DEF AnswerOnce, Shaking
<1> QED
  BY <1>1, <1>2, <1>3

\* initiate_handshake with a key that was never generated.
LEMMA InstancesInitiate ==
    ASSUME TypeOK, Instances, env' = env, made' = made, responders' = responders,
           NEW x \in Pairs, NEW e \in Fresh, Spend(e),
           initiators' = [initiators EXCEPT ![x] = {e}],
           \A k \in net' : k \in net \/ k = Msg1(x[1], x[2], e)
    PROVE  Instances'
<1> SUFFICES ASSUME env.history, Known, OwnOnce, AnswerOnce PROVE Known' /\ OwnOnce' /\ AnswerOnce'
  BY DEF Instances
<1>1. e \notin spent /\ spent' = spent \cup {e}
  BY FreshFacts DEF Spend
<1>2. \A z \in Pairs : initiators'[z] = IF z = x THEN {e} ELSE initiators[z]
  BY DEF TypeOK
<1>3. \A m \in net' : m \notin net => m.type = "msg1" /\ m.to = x[2] /\ m.i = e /\ m.r = e
  BY DEF Msg1
<1>4. x[1] # x[2]
  BY DEF Pairs
<1>5. Known'
  BY <1>1, <1>2, <1>3 DEF Known, Shaking
<1>6. OwnOnce'
  <2>1. \A y, z \in Pairs : \A f \in initiators'[y] : f \in initiators'[z] => y = z
    BY <1>1, <1>2 DEF Known, OwnOnce
  <2>2. \A y \in Pairs : \A f \in initiators'[y] : \A t \in made : t.node = y[1] => t.i # f
    BY <1>1, <1>2 DEF Known, OwnOnce
  <2>3. \A y, z \in Pairs : \A w \in responders[y] : z[1] = y[1] => w.i \notin initiators'[z]
    BY <1>1, <1>2 DEF Known, OwnOnce
  <2>4. \A m \in net' : m.type = "msg1" =>
            \A z \in Pairs : z[1] = m.to => m.i \notin initiators'[z]
    BY <1>1, <1>2, <1>3, <1>4 DEF Known, OwnOnce, Shaking
  <2> QED
    BY <2>1, <2>2, <2>3, <2>4 DEF OwnOnce
<1>7. AnswerOnce'
  BY <1>3 DEF AnswerOnce
<1> QED
  BY <1>5, <1>6, <1>7

\* handle_msg1 with a key that was never generated.
LEMMA InstancesRespond ==
    ASSUME TypeOK, Instances, env' = env, made' = made,
           NEW n \in Nodes, NEW m \in net, m.type = "msg1", m.to = n,
           NEW e \in Fresh, Spend(e),
           \A z \in Pairs : initiators'[z] \subseteq initiators[z],
           responders' = [responders EXCEPT ![<<n, m.from>>] = {[i |-> m.i, r |-> e]}],
           \A k \in net' : k \in net \/ k = Msg2(n, m.from, [i |-> m.i, r |-> e])
    PROVE  Instances'
<1> SUFFICES ASSUME env.history, Known, OwnOnce, AnswerOnce PROVE Known' /\ OwnOnce' /\ AnswerOnce'
  BY DEF Instances
<1> DEFINE x == <<n, m.from>>
           new == [i |-> m.i, r |-> e]
<1>1. e \notin spent /\ spent' = spent \cup {e}
  BY FreshFacts DEF Spend
<1>2. x \in Pairs /\ x[1] = n /\ x[2] = m.from /\ m.from # n /\ m.i \in spent
  BY DEF TypeOK, Messages, Pairs, Known, Shaking
<1>3. \A z \in Pairs : responders'[z] = IF z = x THEN {new} ELSE responders[z]
  BY <1>2 DEF TypeOK
<1>4. new.i = m.i /\ new.r = e
  OBVIOUS
<1>5. \A k \in net' : k \notin net => k.type = "msg2" /\ k.to = m.from /\ k.i = m.i /\ k.r = e
  BY DEF Msg2
<1> HIDE DEF x, new
<1>6. Known'
  BY <1>1, <1>2, <1>3, <1>4, <1>5 DEF Known, Shaking
<1>7. OwnOnce'
  <2>1. \A y, z \in Pairs : \A w \in responders'[y] : z[1] = y[1] => w.i \notin initiators'[z]
    BY <1>2, <1>3, <1>4 DEF OwnOnce
  <2>2. \A k \in net' : k.type = "msg1" =>
            \A z \in Pairs : z[1] = k.to => k.i \notin initiators'[z]
    BY <1>5 DEF OwnOnce
  <2> QED
    BY <2>1, <2>2 DEF OwnOnce
<1>8. AnswerOnce'
  <2>1. \A y, z \in Pairs : \A v \in responders'[y], w \in responders'[z] : v.r = w.r => y = z
    BY <1>1, <1>3, <1>4 DEF Known, AnswerOnce
  <2>2. \A y \in Pairs : \A v \in responders'[y] : \A t \in made : t.node = y[1] => t.r # v.r
    BY <1>1, <1>3, <1>4 DEF Known, AnswerOnce
  <2>3. \A k \in net' : k.type = "msg2" =>
            \A z \in Pairs : z[1] = k.to => \A v \in responders'[z] : v.r # k.r
    BY <1>1, <1>2, <1>3, <1>4, <1>5 DEF Known, AnswerOnce, Shaking
  <2> QED
    BY <2>1, <2>2, <2>3 DEF AnswerOnce
<1> QED
  BY <1>6, <1>7, <1>8

\* handle_msg2 finishes the handshake of a waiting initiator.
LEMMA InstancesFinish ==
    ASSUME TypeOK, Instances, env' = env, spent' = spent, responders' = responders,
           NEW n \in Nodes, NEW m \in net, m.type = "msg2", m.to = n,
           m.i \in initiators[<<n, m.from>>],
           initiators' = [initiators EXCEPT ![<<n, m.from>>] = {}],
           Record(n, m.from, "initiator", [i |-> m.i, r |-> m.r]),
           net' = Taken(m) \cup {Msg3(n, m.from, [i |-> m.i, r |-> m.r])}
    PROVE  Instances'
<1> SUFFICES ASSUME env.history, Known, OwnOnce, AnswerOnce PROVE Known' /\ OwnOnce' /\ AnswerOnce'
  BY DEF Instances
<1> DEFINE x == <<n, m.from>>
<1>1. \A t \in made' : t \in made \/ (t.node = n /\ t.i = m.i /\ t.r = m.r)
  BY DEF Record
<1>2. x \in Pairs /\ x[1] = n /\ m.i \in spent /\ m.r \in spent
  BY DEF TypeOK, Messages, Pairs, Known, Shaking
<1>3. \A z \in Pairs : initiators'[z] = IF z = x THEN {} ELSE initiators[z]
  BY <1>2 DEF TypeOK
<1>4. \A k \in net' : k \in net \/ (k.type = "msg3" /\ k.i = m.i /\ k.r = m.r)
  BY DEF Taken, Msg3
<1>5. m.i \in initiators[x]
  OBVIOUS
<1> HIDE DEF x
<1>6. Known'
  BY <1>1, <1>2, <1>3, <1>4 DEF Known, Shaking
<1>7. OwnOnce'
  <2>1. \A y \in Pairs : \A e \in initiators'[y] : e # m.i
    BY <1>2, <1>3, <1>5 DEF OwnOnce
  <2>2. \A y \in Pairs : \A e \in initiators'[y] : \A t \in made' : t.node = y[1] => t.i # e
    BY <1>1, <1>3, <2>1 DEF OwnOnce
  <2>3. \A k \in net' : k.type = "msg1" =>
            \A z \in Pairs : z[1] = k.to => k.i \notin initiators'[z]
    BY <1>3, <1>4 DEF OwnOnce
  <2> QED
    BY <1>3, <2>2, <2>3 DEF OwnOnce
<1>8. AnswerOnce'
  <2>1. \A y \in Pairs : \A v \in responders[y] : \A t \in made' : t.node = y[1] => t.r # v.r
    BY <1>1 DEF AnswerOnce
  <2> QED
    BY <1>4, <2>1 DEF AnswerOnce
<1> QED
  BY <1>6, <1>7, <1>8

\* handle_msg3 finishes the handshake of a waiting responder.
LEMMA InstancesAccept ==
    ASSUME TypeOK, Instances, env' = env, spent' = spent, initiators' = initiators,
           NEW n \in Nodes, NEW m \in net, m.type = "msg3", m.to = n,
           [i |-> m.i, r |-> m.r] \in responders[<<n, m.from>>],
           responders' = [responders EXCEPT ![<<n, m.from>>] = {}],
           Record(n, m.from, "responder", [i |-> m.i, r |-> m.r]),
           net' = Taken(m)
    PROVE  Instances'
<1> SUFFICES ASSUME env.history, Known, OwnOnce, AnswerOnce PROVE Known' /\ OwnOnce' /\ AnswerOnce'
  BY DEF Instances
<1> DEFINE x == <<n, m.from>>
           old == [i |-> m.i, r |-> m.r]
<1>1. \A t \in made' : t \in made \/ (t.node = n /\ t.i = m.i /\ t.r = m.r)
  BY DEF Record
<1>2. x \in Pairs /\ x[1] = n /\ m.i \in spent /\ m.r \in spent
  BY DEF TypeOK, Messages, Pairs, Known, Shaking
<1>3. \A z \in Pairs : responders'[z] = IF z = x THEN {} ELSE responders[z]
  BY <1>2 DEF TypeOK
<1>4. net' \subseteq net
  BY DEF Taken
<1>5. old \in responders[x] /\ old.i = m.i /\ old.r = m.r
  OBVIOUS
<1> HIDE DEF x, old
<1>6. Known'
  BY <1>1, <1>2, <1>3, <1>4 DEF Known, Shaking
<1>7. OwnOnce'
  <2>1. \A y \in Pairs : \A e \in initiators[y] : \A t \in made' : t.node = y[1] => t.i # e
    BY <1>1, <1>2, <1>5 DEF OwnOnce
  <2> QED
    BY <1>3, <1>4, <2>1 DEF OwnOnce
<1>8. AnswerOnce'
  <2>1. \A y \in Pairs : \A v \in responders'[y] : v.r # m.r
    BY <1>2, <1>3, <1>5 DEF AnswerOnce
  <2>2. \A y \in Pairs : \A v \in responders'[y] : \A t \in made' : t.node = y[1] => t.r # v.r
    BY <1>1, <1>3, <2>1 DEF AnswerOnce
  <2> QED
    BY <1>3, <1>4, <2>2 DEF AnswerOnce
<1> QED
  BY <1>6, <1>7, <1>8

\* Every step keeps the instances apart, and establishes only new ones.
LEMMA InstancesStep ==
    TypeOK /\ Vouched /\ Instances /\ [Next]_vars => Instances' /\ [EstablishStep]_vars
<1> SUFFICES ASSUME TypeOK, Vouched, Instances, [Next]_vars
             PROVE  Instances' /\ (EstablishStep \/ UNCHANGED vars)
  OBVIOUS
<1>f. ASSUME \A x \in Pairs : sessions'[x] \subseteq sessions[x] PROVE EstablishStep
  BY <1>f DEF EstablishStep
<1>1. ASSUME NEW x \in Pairs, LanPacket(x[1], x[2]) PROVE Instances' /\ EstablishStep
  <2>0. x = <<x[1], x[2]>>
    BY DEF Pairs
  <2>1. /\ env' = env /\ made' = made /\ responders' = responders /\ sessions' = sessions
    BY <1>1 DEF LanPacket
  <2>2. CASE /\ net' = net \cup {Frame(x[1], x[2], y) : y \in sessions[x]}
             /\ initiators' = initiators /\ spent' = spent
    BY <1>f, <2>1, <2>2, InstancesFrame DEF Frame, Shaking
  <2>3. CASE /\ initiators' = [initiators EXCEPT ![x] = StillTried(x)]
             /\ net' = net /\ spent' = spent
    <3>1. \A z \in Pairs : initiators'[z] \subseteq initiators[z]
      BY <2>3 DEF TypeOK, StillTried
    <3> QED
      BY <1>f, <2>1, <2>3, <3>1, InstancesFrame
  <2>4. ASSUME NEW e \in Fresh, Spend(e), initiators' = [initiators EXCEPT ![x] = {e}],
               net' = net \cup {Msg1(x[1], x[2], e)}
        PROVE  Instances'
    <3>1. \A k \in net' : k \in net \/ k = Msg1(x[1], x[2], e)
      BY <2>4
    <3> QED
      BY <2>1, <2>4, <3>1, InstancesInitiate, Zenon
  <2>5. ASSUME NEW e \in Fresh, Spend(e), initiators' = [initiators EXCEPT ![x] = {}], net' = net
        PROVE  Instances'
    <3>1. \A z \in Pairs : initiators'[z] \subseteq initiators[z]
      BY <2>5 DEF TypeOK
    <3>2. spent \subseteq spent'
      BY <2>5 DEF Spend
    <3> QED
      BY <2>1, <2>5, <3>1, <3>2, InstancesFrame
  <2>5a. ASSUME NEW e \in Fresh, Spend(e), initiators' = [initiators EXCEPT ![x] = {e}], net' = net
         PROVE  Instances'
    <3>1. \A k \in net' : k \in net \/ k = Msg1(x[1], x[2], e)
      BY <2>5a
    <3> QED
      BY <2>1, <2>5a, <3>1, InstancesInitiate, Zenon
  <2>6. Instances'
    BY <1>1, <2>0, <2>2, <2>3, <2>4, <2>5, <2>5a DEF LanPacket
  <2> QED
    BY <2>1, <2>6, <1>f
<1>2. ASSUME NEW x \in Pairs, RetryElapses(x[1], x[2]) PROVE Instances' /\ EstablishStep
  BY <1>2, <1>f, InstancesFrame DEF RetryElapses
<1>3. ASSUME NEW n \in Nodes, Broadcast(n) PROVE Instances' /\ EstablishStep
  <2>1. \A m \in net' : Shaking(m) => m \in net
    BY <1>3 DEF Broadcast, Flood, Shaking
  <2> QED
    BY <1>3, <2>1, <1>f, InstancesFrame DEF Broadcast, pairVars
<1>4. ASSUME NEW n \in Nodes, DataHeartbeat(n) PROVE Instances' /\ EstablishStep
  <2>1. ASSUME NEW m \in net', m \notin net PROVE ~Shaking(m)
    <3>1. \E x \in Pairs : \E y \in sessions[x] : m = Frame(n, x[2], y)
      BY <1>4, <2>1 DEF DataHeartbeat
    <3>2. m.type = "frame"
      BY <3>1 DEF Frame
    <3> QED
      BY <3>2 DEF Shaking
  <2>2. \A x \in Pairs : sessions'[x] \subseteq sessions[x]
    BY <1>4 DEF DataHeartbeat
  <2> QED
    BY <1>4, <2>1, <2>2, <1>f, InstancesFrame DEF DataHeartbeat
<1>5. ASSUME NEW n \in Nodes, Reboot(n) PROVE Instances' /\ EstablishStep
  <2>1. \A x \in Pairs : /\ initiators'[x] \subseteq initiators[x]
                         /\ responders'[x] \subseteq responders[x]
                         /\ sessions'[x] \subseteq sessions[x]
    BY <1>5 DEF Reboot
  <2> QED
    BY <1>5, <2>1, <1>f, InstancesFrame DEF Reboot
<1>6. ASSUME NEW n \in Nodes, NEW m \in net, RecvMsg1(n, m) PROVE Instances' /\ EstablishStep
  <2>1. /\ env' = env /\ made' = made /\ sessions' = sessions /\ m.type = "msg1" /\ m.to = n
    BY <1>6 DEF RecvMsg1
  <2>2. <<n, m.from>> \in Pairs
    BY <2>1 DEF TypeOK, Messages, Pairs
  <2>3. \A z \in Pairs : initiators'[z] \subseteq initiators[z]
    <3>1. initiators \in [Pairs -> SUBSET Ephs]
      BY DEF TypeOK
    <3>2. initiators' = initiators \/ initiators' = [initiators EXCEPT ![<<n, m.from>>] = {}]
      BY <1>6, Zenon DEF RecvMsg1
    <3> QED
      BY <2>2, <3>1, <3>2
  <2>4. CASE responders' = responders /\ spent' = spent /\ net' = Taken(m)
    BY <1>f, <2>1, <2>3, <2>4, InstancesFrame DEF Taken
  <2>5. ASSUME NEW e \in Fresh, Spend(e),
               responders' = [responders EXCEPT ![<<n, m.from>>] = {[i |-> m.i, r |-> e]}],
               \/ net' = Taken(m) \cup {Msg2(n, m.from, [i |-> m.i, r |-> e])}
               \/ net' = Taken(m)
        PROVE  Instances'
    <3>1. \A k \in net' : k \in net \/ k = Msg2(n, m.from, [i |-> m.i, r |-> e])
      BY <2>5 DEF Taken
    <3> QED
      BY <2>1, <2>3, <2>5, <3>1, InstancesRespond, Zenon
  <2>6. \/ responders' = responders /\ spent' = spent /\ net' = Taken(m)
        \/ \E e \in Fresh :
             /\ Spend(e)
             /\ responders' = [responders EXCEPT ![<<n, m.from>>] = {[i |-> m.i, r |-> e]}]
             /\ \/ net' = Taken(m) \cup {Msg2(n, m.from, [i |-> m.i, r |-> e])}
                \/ net' = Taken(m)
    BY <1>6, Zenon DEF RecvMsg1
  <2> QED
    BY <2>1, <2>4, <2>5, <2>6, <1>f, Zenon
<1>7. ASSUME NEW n \in Nodes, NEW m \in net, RecvMsg2(n, m) PROVE Instances' /\ EstablishStep
  <2> DEFINE new == [i |-> m.i, r |-> m.r]
  <2>1. /\ env' = env /\ spent' = spent /\ responders' = responders
        /\ m.type = "msg2" /\ m.to = n
        /\ initiators' = [initiators EXCEPT ![<<n, m.from>>] = {}]
    BY <1>7 DEF RecvMsg2, InitiatorsAfterMsg2
  <2>2. <<n, m.from>> \in Pairs
    BY <2>1 DEF TypeOK, Messages, Pairs
  <2>3. CASE net' = Taken(m) /\ made' = made /\ sessions' = sessions
    <3>1. \A z \in Pairs : initiators'[z] \subseteq initiators[z]
      BY <2>1, <2>2 DEF TypeOK
    <3> QED
      BY <2>1, <2>3, <3>1, <1>f, InstancesFrame DEF Taken
  <2>4. CASE /\ m.i \in initiators[<<n, m.from>>]
             /\ net' = Taken(m) \cup {Msg3(n, m.from, new)}
             /\ sessions' = [sessions EXCEPT ![<<n, m.from>>] = {new}]
             /\ Record(n, m.from, "initiator", new)
    <3>1. Instances'
      BY <2>1, <2>4, InstancesFinish, Zenon
    <3>2. \A t \in made : t.node = n => t.i # m.i
      BY <2>2, <2>4 DEF Vouched, Instances, OwnOnce
    <3>3. EstablishStep
      <4>1. sessions \in [Pairs -> SUBSET Instance] /\ new.i = m.i /\ new.r = m.r
        BY DEF TypeOK
      <4>2. ASSUME NEW x \in Pairs, NEW s \in sessions'[x] \ sessions[x]
            PROVE  x = <<n, m.from>> /\ s = new
        BY <2>2, <2>4, <4>1, <4>2
      <4> HIDE DEF new
      <4> QED
        BY <3>2, <4>1, <4>2 DEF EstablishStep
    <3> QED
      BY <3>1, <3>3
  <2> QED
    BY <1>7, <2>3, <2>4 DEF RecvMsg2, NotFinished
<1>8. ASSUME NEW n \in Nodes, NEW m \in net, RecvMsg3(n, m) PROVE Instances' /\ EstablishStep
  <2> DEFINE new == [i |-> m.i, r |-> m.r]
  <2>1. /\ env' = env /\ spent' = spent /\ initiators' = initiators
        /\ m.type = "msg3" /\ m.to = n /\ net' = Taken(m)
        /\ responders' = [responders EXCEPT ![<<n, m.from>>] = {}]
    BY <1>8 DEF RecvMsg3, RespondersAfterMsg3
  <2>2. <<n, m.from>> \in Pairs
    BY <2>1 DEF TypeOK, Messages, Pairs
  <2>3. CASE made' = made /\ sessions' = sessions
    <3>1. \A z \in Pairs : responders'[z] \subseteq responders[z]
      BY <2>1, <2>2 DEF TypeOK
    <3> QED
      BY <2>1, <2>3, <3>1, <1>f, InstancesFrame DEF Taken
  <2>4. CASE /\ new \in responders[<<n, m.from>>]
             /\ sessions' = [sessions EXCEPT ![<<n, m.from>>] = {new}]
             /\ Record(n, m.from, "responder", new)
    <3>1. Instances'
      BY <2>1, <2>4, InstancesAccept, Zenon
    <3>2. \A t \in made : t.node = n => t.r # m.r
      BY <2>2, <2>4 DEF Vouched, Instances, AnswerOnce
    <3>3. EstablishStep
      <4>1. sessions \in [Pairs -> SUBSET Instance] /\ new.i = m.i /\ new.r = m.r
        BY DEF TypeOK
      <4>2. ASSUME NEW x \in Pairs, NEW s \in sessions'[x] \ sessions[x]
            PROVE  x = <<n, m.from>> /\ s = new
        BY <2>2, <2>4, <4>1, <4>2
      <4> HIDE DEF new
      <4> QED
        BY <3>2, <4>1, <4>2 DEF EstablishStep
    <3> QED
      BY <3>1, <3>3
  <2> QED
    BY <1>8, <2>3, <2>4 DEF RecvMsg3, Msg3Matches
<1>9. ASSUME NEW n \in Nodes, NEW m \in net, RecvFrame(n, m) \/ RecvFlood(n, m)
      PROVE  Instances' /\ EstablishStep
  BY <1>9, <1>f, InstancesFrame DEF RecvFrame, RecvFlood, Taken
<1>10. ASSUME NEW m \in net, Lose(m) PROVE Instances' /\ EstablishStep
  BY <1>10, <1>f, InstancesFrame DEF Lose, pairVars
<1>11. CASE UNCHANGED vars
  BY <1>11, InstancesFrame DEF vars, pairVars
<1> QED
  BY <1>1, <1>2, <1>3, <1>4, <1>5, <1>6, <1>7, <1>8, <1>9, <1>10, <1>11 DEF Next, Receive

\* No node ever establishes a second session from one handshake instance, so no two
\* sessions of a node share keys and nonces, for any number of nodes, losses, duplicates
\* and restarts.
THEOREM InstancesOnce == Spec => InstanceOnce
<1>1. Init => Instances /\ Vouched /\ Agreement
  BY DEF Init, Instances, Known, OwnOnce, AnswerOnce, Vouched, Agreement
<1> QED
  BY <1>1, InstancesStep, VouchedStep, TypeCorrect, PTL DEF Spec, InstanceOnce
=============================================================================
