-------------------------- MODULE NodeRuntimeProofs --------------------------
(***************************************************************************)
(* Proofs about the control connection of a node, in the daemon as a       *)
(* whole: the node has one identity, and its watchdog does not end a       *)
(* session that is answered.                                               *)
(***************************************************************************)
EXTENDS NodeRuntime, TLAPS

(* Every leaf that names no prover is tried by the SMT translation, by it   *)
(* once more, and by Zenon.                                                *)
USE SMTT(10), Z3T(10), Zenon

-----------------------------------------------------------------------------
(* Messages in order.                                                      *)

IsSeq(q) == \E S : q \in Seq(S)
Elems(q) == {q[i] : i \in DOMAIN q}
Has(q, t) == \E m \in Elems(q) : m.t = t

\* A message is written.
LEMMA ElemsAppend ==
    ASSUME NEW q, IsSeq(q), NEW x
    PROVE  IsSeq(Append(q, x)) /\ Elems(Append(q, x)) = Elems(q) \cup {x}
<1>1. PICK S : q \in Seq(S)
  BY DEF IsSeq
<1>2. q \in Seq(S \cup {x}) /\ x \in S \cup {x}
  BY <1>1
<1>3. Append(q, x) \in Seq(S \cup {x}) /\ Len(Append(q, x)) = Len(q) + 1 /\ Append(q, x)[Len(q) + 1] = x
      /\ \A i \in 1..Len(q) : Append(q, x)[i] = q[i]
  BY <1>2
<1>4. DOMAIN q = 1..Len(q) /\ DOMAIN Append(q, x) = 1..(Len(q) + 1) /\ Len(q) \in Nat
  BY <1>2, <1>3
<1>5. IsSeq(Append(q, x))
  BY <1>3 DEF IsSeq
<1>6. ASSUME NEW y PROVE y \in Elems(Append(q, x)) <=> y \in Elems(q) \cup {x}
  <2>1. ASSUME y \in Elems(Append(q, x)) PROVE y \in Elems(q) \cup {x}
    <3>1. PICK i \in 1..(Len(q) + 1) : y = Append(q, x)[i]
      BY <1>4, <2>1 DEF Elems
    <3>2. i = Len(q) + 1 \/ i \in 1..Len(q)
      BY <1>4
    <3>. QED  BY <1>3, <1>4, <3>1, <3>2 DEF Elems
  <2>2. ASSUME y \in Elems(q) PROVE y \in Elems(Append(q, x))
    <3>1. PICK i \in 1..Len(q) : y = q[i]
      BY <1>4, <2>2 DEF Elems
    <3>2. i \in 1..(Len(q) + 1) /\ y = Append(q, x)[i]
      BY <1>3, <1>4, <3>1
    <3>. QED  BY <1>4, <3>2 DEF Elems
  <2>3. x \in Elems(Append(q, x))
    <3>1. Len(q) + 1 \in 1..(Len(q) + 1)
      BY <1>4
    <3>. QED  BY <1>3, <1>4, <3>1 DEF Elems
  <2>. QED  BY <2>1, <2>2, <2>3
<1>. QED  BY <1>5, <1>6

\* Messages are written after others.
LEMMA ElemsConcat ==
    ASSUME NEW q, IsSeq(q), NEW r, IsSeq(r)
    PROVE  IsSeq(q \o r) /\ Elems(q \o r) = Elems(q) \cup Elems(r)
<1>1. PICK S, T : q \in Seq(S) /\ r \in Seq(T)
  BY DEF IsSeq
<1>2. q \in Seq(S \cup T) /\ r \in Seq(S \cup T)
  BY <1>1
<1>. DEFINE c == q \o r
<1>3. /\ c \in Seq(S \cup T) /\ Len(c) = Len(q) + Len(r) /\ Len(q) \in Nat /\ Len(r) \in Nat
      /\ \A i \in 1..Len(c) : c[i] = IF i <= Len(q) THEN q[i] ELSE r[i - Len(q)]
  BY <1>2
<1>4. DOMAIN q = 1..Len(q) /\ DOMAIN r = 1..Len(r) /\ DOMAIN c = 1..Len(c)
  BY <1>2, <1>3
<1>. HIDE DEF c
<1>5. IsSeq(c)
  BY <1>3 DEF IsSeq
<1>6. ASSUME NEW y PROVE y \in Elems(c) <=> y \in Elems(q) \cup Elems(r)
  <2>1. ASSUME y \in Elems(c) PROVE y \in Elems(q) \cup Elems(r)
    <3>1. PICK i \in 1..Len(c) : y = c[i]
      BY <1>4, <2>1 DEF Elems
    <3>2. CASE i <= Len(q)
      <4>1. i \in 1..Len(q) /\ y = q[i]
        BY <1>3, <3>1, <3>2
      <4>. QED  BY <1>4, <4>1 DEF Elems
    <3>3. CASE ~(i <= Len(q))
      <4>1. i - Len(q) \in 1..Len(r) /\ y = r[i - Len(q)]
        BY <1>3, <3>1, <3>3
      <4>. QED  BY <1>4, <4>1 DEF Elems
    <3>. QED  BY <3>2, <3>3
  <2>2. ASSUME y \in Elems(q) PROVE y \in Elems(c)
    <3>1. PICK i \in 1..Len(q) : y = q[i]
      BY <1>4, <2>2 DEF Elems
    <3>2. i \in 1..Len(c) /\ y = c[i]
      BY <1>3, <3>1
    <3>. QED  BY <1>4, <3>2 DEF Elems
  <2>3. ASSUME y \in Elems(r) PROVE y \in Elems(c)
    <3>1. PICK i \in 1..Len(r) : y = r[i]
      BY <1>4, <2>3 DEF Elems
    <3>2. Len(q) + i \in 1..Len(c) /\ ~(Len(q) + i <= Len(q)) /\ (Len(q) + i) - Len(q) = i
      BY <1>3
    <3>3. y = c[Len(q) + i]
      BY <1>3, <3>1, <3>2
    <3>. QED  BY <1>4, <3>2, <3>3 DEF Elems
  <2>. QED  BY <2>1, <2>2, <2>3
<1>. QED  BY <1>5, <1>6 DEF c

\* A message is read.
LEMMA ElemsTail ==
    ASSUME NEW q, IsSeq(q), q # <<>>
    PROVE  IsSeq(Tail(q)) /\ Elems(q) = Elems(Tail(q)) \cup {Head(q)}
<1>1. PICK S : q \in Seq(S)
  BY DEF IsSeq
<1>. DEFINE c == Tail(q)
<1>2. /\ c \in Seq(S) /\ Len(q) \in Nat \ {0} /\ Len(c) = Len(q) - 1 /\ Head(q) = q[1]
      /\ \A i \in 1..Len(c) : c[i] = q[i + 1]
  BY <1>1
<1>3. DOMAIN q = 1..Len(q) /\ DOMAIN c = 1..Len(c)
  BY <1>1, <1>2
<1>. HIDE DEF c
<1>4. IsSeq(c)
  BY <1>2 DEF IsSeq
<1>5. ASSUME NEW y PROVE y \in Elems(q) <=> y \in Elems(c) \cup {q[1]}
  <2>1. ASSUME y \in Elems(q) PROVE y \in Elems(c) \cup {q[1]}
    <3>1. PICK i \in 1..Len(q) : y = q[i]
      BY <1>3, <2>1 DEF Elems
    <3>2. CASE i # 1
      <4>1. i - 1 \in 1..Len(c) /\ (i - 1) + 1 = i
        BY <1>2, <3>2
      <4>2. y = c[i - 1]
        BY <1>2, <3>1, <4>1
      <4>. QED  BY <1>3, <4>1, <4>2 DEF Elems
    <3>. QED  BY <3>1, <3>2
  <2>2. ASSUME y \in Elems(c) PROVE y \in Elems(q)
    <3>1. PICK i \in 1..Len(c) : y = c[i]
      BY <1>3, <2>2 DEF Elems
    <3>2. i + 1 \in 1..Len(q) /\ y = q[i + 1]
      BY <1>2, <3>1
    <3>. QED  BY <1>3, <3>2 DEF Elems
  <2>3. q[1] \in Elems(q)
    <3>1. 1 \in 1..Len(q)
      BY <1>2
    <3>. QED  BY <1>3, <3>1 DEF Elems
  <2>. QED  BY <2>1, <2>2, <2>3
<1>. QED  BY <1>2, <1>4, <1>5 DEF c

\* The stream ends after some of the messages under way.
LEMMA ElemsCut ==
    ASSUME NEW q, IsSeq(q), NEW k \in 0..Len(q), NEW x
    PROVE  LET c == Append(SubSeq(q, 1, k), x)
           IN  IsSeq(c) /\ Elems(c) \subseteq Elems(q) \cup {x} /\ x \in Elems(c)
<1>1. PICK S : q \in Seq(S)
  BY DEF IsSeq
<1>. DEFINE p == SubSeq(q, 1, k)
<1>2. p \in Seq(S) /\ Len(p) = k /\ (\A i \in 1..k : p[i] = q[i]) /\ DOMAIN p = 1..k /\ DOMAIN q = 1..Len(q)
      /\ Len(q) \in Nat /\ k <= Len(q)
  BY <1>1
<1>. HIDE DEF p
<1>3. IsSeq(p)
  BY <1>2 DEF IsSeq
<1>4. Elems(p) \subseteq Elems(q)
  <2>1. \A i \in 1..k : i \in 1..Len(q)
    BY <1>2
  <2>. QED  BY <1>2, <2>1 DEF Elems
<1>5. IsSeq(Append(p, x)) /\ Elems(Append(p, x)) = Elems(p) \cup {x}
  BY <1>3, ElemsAppend
<1>. QED  BY <1>4, <1>5 DEF p

-----------------------------------------------------------------------------
(* The inductive invariant.                                                *)

Somebody == Rs \cup {"none"}
Conns == [registered : {0, 1}, challenge : {"none", "resume", "new"}, age : Nat, beat : BOOLEAN]

\* What is under way to the node names the one identity, and replicas.
Mail(q, e) ==
    \A m \in Elems(q) :
        /\ m.t = "response" => m.id \in {0, e}
        /\ m.t = "redirect" => m.to \in Somebody

\* The registry has at most one identity for the node; a replica, a message and the node have
\* that one or none.
Known ==
    /\ entry \in {0, 1} /\ issued = entry /\ applied \in [Rs -> {0, entry}] /\ node_id \in {0, entry}
    /\ leader \in Somebody /\ view \in [Rs -> Somebody] /\ target \in Rs /\ coord_override \in Somebody
    /\ conn \in Conns /\ lease \in Int
    /\ IsSeq(toServer) /\ IsSeq(toNode) /\ Mail(toNode, entry)

\* In a session that was answered so far, a lease that is one interval old is on its way to be
\* renewed: the heartbeat is due, or under way, or its answer is.
Answered ==
    /\ lease = -1 \/ lease >= LeaseTicks - 1
    /\ lease # -1 \/ Has(toNode, "lease") => conn.registered # 0
    /\ lease # -1 /\ lease < LeaseTicks =>
        \/ due \/ Has(toServer, "heartbeat")
        \/ Has(toNode, "lease") \/ Has(toNode, "redirect") \/ Has(toNode, "close")
    /\ conn.beat => lease = LeaseTicks \/ Has(toNode, "lease") \/ Has(toNode, "close")
    /\ due => ~Has(toServer, "heartbeat") /\ ~Has(toNode, "lease")
    /\ due /\ lease # -1 => toServer = <<>> /\ \A m \in Elems(toNode) : m.t = "close"

Attended ==
    control = "open" =>
        /\ conn.challenge = "resume" => applied[target] # 0
        /\ ~ignored => Answered

Inv == Known /\ Attended

\* Nothing but the end of the stream is under way.
Ended(q) == \A m \in Elems(q) : m.t = "close"

\* One message, or two.
LEMMA FewElems ==
    ASSUME NEW x, NEW y
    PROVE  /\ IsSeq(<<>>) /\ Elems(<<>>) = {}
           /\ IsSeq(<<x>>) /\ Elems(<<x>>) = {x}
           /\ IsSeq(<<x, y>>) /\ Elems(<<x, y>>) = {x, y}
<1>1. <<>> \in Seq({x}) /\ <<x>> \in Seq({x}) /\ <<x, y>> \in Seq({x, y})
  OBVIOUS
<1>2. DOMAIN <<>> = {} /\ DOMAIN <<x>> = {1} /\ DOMAIN <<x, y>> = {1, 2}
  OBVIOUS
<1>3. <<x>>[1] = x /\ <<x, y>>[1] = x /\ <<x, y>>[2] = y
  OBVIOUS
<1>4. IsSeq(<<>>) /\ IsSeq(<<x>>) /\ IsSeq(<<x, y>>)
  BY <1>1, Zenon DEF IsSeq
<1>. QED  BY <1>2, <1>3, <1>4 DEF Elems

\* A message is written to a queue.
LEMMA Written ==
    ASSUME NEW q, IsSeq(q), NEW x
    PROVE  IsSeq(Append(q, x)) /\ \A t : Has(Append(q, x), t) <=> Has(q, t) \/ x.t = t
BY ElemsAppend DEF Has

\* A message is read off a queue.
LEMMA ReadOff ==
    ASSUME NEW q, IsSeq(q), q # <<>>
    PROVE  /\ IsSeq(Tail(q)) /\ \A t : Has(q, t) <=> Has(Tail(q), t) \/ Head(q).t = t
           /\ \A e : Mail(q, e) => /\ Mail(Tail(q), e)
                                   /\ Head(q).t = "response" => Head(q).id \in {0, e}
                                   /\ Head(q).t = "redirect" => Head(q).to \in Somebody
           /\ Ended(q) => Head(q).t = "close"
BY ElemsTail DEF Has, Mail, Ended

\* A batch of replies is written to a queue.
LEMMA Replied ==
    ASSUME NEW q, IsSeq(q), NEW r, IsSeq(r)
    PROVE  /\ IsSeq(q \o r) /\ \A t : Has(q \o r, t) <=> Has(q, t) \/ Has(r, t)
           /\ \A e : Mail(q, e) /\ Mail(r, e) => Mail(q \o r, e)
<1>. DEFINE c == q \o r
<1>1. IsSeq(c) /\ Elems(c) = Elems(q) \cup Elems(r)
  BY ElemsConcat
<1>. HIDE DEF c
<1>2. (\A t : Has(c, t) <=> Has(q, t) \/ Has(r, t)) /\ \A e : Mail(q, e) /\ Mail(r, e) => Mail(c, e)
  BY <1>1, Zenon DEF Has, Mail
<1>. QED  BY <1>1, <1>2 DEF c

\* A broken connection delivers a prefix and then its end.
LEMMA CutOff ==
    ASSUME NEW q, IsSeq(q), NEW k \in 0..Len(q), NEW c, c = Append(SubSeq(q, 1, k), Msg("close"))
    PROVE  /\ IsSeq(c) /\ Has(c, "close") /\ \A t : t # "close" /\ Has(c, t) => Has(q, t)
           /\ \A e : Mail(q, e) => Mail(c, e)
           /\ Ended(q) => Ended(c)
<1>. DEFINE x == Msg("close")
<1>1. IsSeq(c) /\ Elems(c) \subseteq Elems(q) \cup {x} /\ x \in Elems(c)
  BY ElemsCut
<1>2. x.t = "close"
  BY DEF Msg
<1>. HIDE DEF x
<1>. QED  BY <1>1, <1>2, Zenon DEF Has, Mail, Ended

\* The registry may come to know the node, and replicas learn of it.
Grown ==
    /\ entry' \in {0, 1} /\ issued' = entry' /\ (entry # 0 => entry' = entry)
    /\ applied' \in [Rs -> {0, entry'}]
    /\ \A r \in Rs : applied[r] # 0 => applied'[r] # 0

\* A step that commits, applies and issues nothing loses nothing.
LEMMA SameGrown ==
    ASSUME Known, entry' = entry, applied' = applied, issued' = issued
    PROVE  Grown
BY DEF Known, Grown

\* A commit makes the one entry.
LEMMA CommitGrown ==
    ASSUME Known, NEW r \in Rs, Commit(r)
    PROVE  Grown /\ entry' = 1
<1>1. entry \in {0, 1} /\ issued = entry /\ applied \in [Rs -> {0, entry}]
  BY DEF Known
<1>2. entry' = 1 /\ issued' = 1
  BY <1>1 DEF Commit
<1>. DEFINE id == IF entry = 0 THEN issued + 1 ELSE entry
<1>3. \E Q \in SUBSET Up : applied' = [x \in Rs |-> IF x \in Q THEN id ELSE applied[x]]
  BY Zenon DEF Commit
<1>4. id = 1
  BY <1>1
<1>. HIDE DEF id
<1>5. PICK Q \in SUBSET Up : applied' = [x \in Rs |-> IF x \in Q THEN 1 ELSE applied[x]]
  BY <1>3, <1>4
<1>. QED  BY <1>1, <1>2, <1>5 DEF Grown

\* Mail that named the entry still does.
LEMMA MailGrown ==
    ASSUME Known, Grown, NEW q, Mail(q, entry)
    PROVE  Mail(q, entry') /\ node_id \in {0, entry'}
BY DEF Known, Grown, Mail

\* Dropping the connection loses nothing of the cluster.
LEMMA DropGrown ==
    ASSUME Known, Drop
    PROVE  Grown
BY SameGrown, CommitGrown DEF Drop, Known

-----------------------------------------------------------------------------
(* Kinds of steps.                                                         *)

\* A connection ends.
LEMMA DropInv ==
    ASSUME Inv, Drop, UNCHANGED <<leader, view, target>>,
           coord_override' \in Somebody, node_id' \in {0, entry}, lease' \in Int
    PROVE  Inv'
<1>1. Known
  BY DEF Inv
<1>2. Grown
  BY <1>1, DropGrown
<1>3. control' = "none" /\ toServer' = <<>> /\ toNode' = <<>> /\ conn' = NoConn
  BY DEF Drop
<1>4. IsSeq(toServer') /\ IsSeq(toNode') /\ Elems(toNode') = {}
  BY <1>3, FewElems, Zenon
<1>5. Mail(toNode', entry')
  BY <1>4 DEF Mail
<1>6. conn' \in Conns
  BY <1>3 DEF NoConn, Conns
<1>7. node_id' \in {0, entry'}
  BY <1>1, <1>2 DEF Known, Grown
<1>8. Known'
  BY <1>1, <1>2, <1>4, <1>5, <1>6, <1>7 DEF Known, Grown
<1>. QED  BY <1>3, <1>8 DEF Inv, Attended

\* The node handles a message, and may answer it.
LEMMA EventInv ==
    ASSUME Inv, NEW t, t \in {"response", "netmap", "routemap", "challenge"}, read_event(t),
           toNode' = Tail(toNode), IsSeq(toServer'),
           Has(toServer', "heartbeat") <=> Has(toServer, "heartbeat"),
           UNCHANGED <<entry, issued, applied, leader, view, control, target, coord_override>>,
           UNCHANGED <<conn, lease, due, ignored>>, node_id' \in {0, entry}
    PROVE  Inv'
<1>1. Known /\ control = "open" /\ toNode # <<>> /\ Head(toNode).t = t /\ Attended
  BY DEF Inv, read_event
<1>2. IsSeq(toNode) /\ Mail(toNode, entry)
  BY <1>1 DEF Known
<1>3. /\ IsSeq(toNode') /\ \A u : Has(toNode, u) <=> Has(toNode', u) \/ t = u
      /\ Mail(toNode', entry)
      /\ ~Ended(toNode)
  BY <1>1, <1>2, ReadOff
<1>4. Known'
  BY <1>1, <1>3 DEF Known
<1>5. ASSUME ~ignored PROVE Answered'
  <2>1. Answered
    BY <1>1, <1>5 DEF Attended
  <2>2. ~(due /\ lease # -1)
    BY <1>3, <2>1 DEF Answered, Ended
  <2>3. \A u \in {"lease", "redirect", "close"} : Has(toNode', u) <=> Has(toNode, u)
    BY <1>3
  <2>. QED  BY <2>1, <2>2, <2>3 DEF Answered
<1>. QED  BY <1>1, <1>4, <1>5 DEF Inv, Attended

\* A replica handles a message that is not a heartbeat.
LEMMA HandledInv ==
    ASSUME Inv, Grown, NEW t, t # "heartbeat", ReadMessage(t),
           IsSeq(toNode'), Mail(toNode', entry'),
           \A u : Has(toNode, u) => Has(toNode', u), Has(toNode', "lease") => Has(toNode, "lease"),
           conn' \in Conns, conn'.beat = conn.beat, conn.registered # 0 => conn'.registered # 0,
           conn'.challenge = "resume" => applied'[target] # 0
    PROVE  Inv'
<1>1. Known /\ control = "open" /\ toServer # <<>> /\ Head(toServer).t = t /\ toServer' = Tail(toServer) /\ Attended
  BY DEF Inv, ReadMessage
<1>2. UNCHANGED <<leader, view, ignored, control, target, coord_override, node_id, lease, due>>
  BY DEF ReadMessage, self
<1>3. IsSeq(toServer)
  BY <1>1 DEF Known
<1>4. IsSeq(toServer') /\ (Has(toServer', "heartbeat") <=> Has(toServer, "heartbeat"))
  BY <1>1, <1>3, ReadOff
<1>5. node_id' \in {0, entry'}
  BY <1>1, <1>2 DEF Known, Grown
<1>6. Known'
  BY <1>1, <1>2, <1>4, <1>5 DEF Known, Grown
<1>7. ASSUME ~ignored PROVE Answered'
  <2>1. Answered
    BY <1>1, <1>7 DEF Attended
  <2>2. ~(due /\ lease # -1)
    BY <1>1, <2>1 DEF Answered
  <2>. QED  BY <1>2, <1>4, <2>1, <2>2 DEF Answered
<1>. QED  BY <1>1, <1>2, <1>6, <1>7 DEF Inv, Attended

\* The cluster changes; the connection may be cut.
LEMMA ClusterInv ==
    ASSUME Inv, Grown, leader' \in Somebody, view' \in [Rs -> Somebody],
           UNCHANGED <<control, target, coord_override, node_id, lease, due, toServer, conn, ignored>>,
           \/ toNode' = toNode
           \/ \E k \in 0..Len(toNode) : toNode' = Append(SubSeq(toNode, 1, k), Msg("close"))
    PROVE  Inv'
<1>1. Known /\ Attended
  BY DEF Inv
<1>2. IsSeq(toNode) /\ Mail(toNode, entry)
  BY <1>1 DEF Known
<1>3. /\ IsSeq(toNode') /\ Mail(toNode', entry)
      /\ \A u : Has(toNode', u) => Has(toNode, u) \/ u = "close"
      /\ \A u : Has(toNode, u) => Has(toNode', u) \/ Has(toNode', "close")
      /\ Ended(toNode) => Ended(toNode')
  <2>1. CASE toNode' = toNode
    BY <1>2, <2>1
  <2>2. CASE \E k \in 0..Len(toNode) : toNode' = Append(SubSeq(toNode, 1, k), Msg("close"))
    BY <1>2, <2>2, CutOff, Zenon
  <2>. QED  BY <2>1, <2>2
<1>4. Mail(toNode', entry') /\ node_id' \in {0, entry'}
  BY <1>1, <1>3, MailGrown
<1>5. Known'
  BY <1>1, <1>3, <1>4 DEF Known, Grown
<1>6. ASSUME control = "open", ~ignored PROVE Answered'
  <2>1. Answered
    BY <1>1, <1>6 DEF Attended
  <2>. QED  BY <1>3, <2>1 DEF Answered, Ended
<1>7. control = "open" /\ conn.challenge = "resume" => applied'[target] # 0
  BY <1>1 DEF Known, Attended, Grown
<1>. QED  BY <1>1, <1>5, <1>6, <1>7 DEF Inv, Attended

-----------------------------------------------------------------------------
(* The steps.                                                              *)

\* What a replica answers with is of the right kind.
LEMMA ReplyFacts ==
    ASSUME Known, Grown, NEW ms, IsSeq(ms), Mail(ms, entry'), Reply(ms)
    PROVE  /\ IsSeq(toNode') /\ Mail(toNode', entry')
           /\ \A u : Has(toNode', u) <=> Has(toNode, u) \/ Has(ms, u)
<1>1. IsSeq(toNode) /\ Mail(toNode, entry') /\ toNode' = toNode \o ms
  BY MailGrown DEF Known, Reply
<1>. QED  BY <1>1, Replied

\* A redirect is the answer of a replica that does not lead.
LEMMA RedirectFacts ==
    ASSUME Known, Grown, NEW r \in Rs, Reply(<<Redirect(r)>>)
    PROVE  /\ IsSeq(toNode') /\ Mail(toNode', entry')
           /\ \A u : Has(toNode', u) <=> Has(toNode, u) \/ u = "redirect"
<1>. DEFINE x == Redirect(r)
           ms == <<x>>
<1>1. x.t = "redirect" /\ x.to \in Somebody
  BY DEF Redirect, Known
<1>2. IsSeq(ms) /\ Elems(ms) = {x}
  BY FewElems, Zenon
<1>3. Reply(ms)
  OBVIOUS
<1>. HIDE DEF x, ms
<1>4. Mail(ms, entry') /\ \A u : Has(ms, u) <=> u = "redirect"
  BY <1>1, <1>2 DEF Mail, Has
<1>. QED  BY <1>2, <1>3, <1>4, ReplyFacts

\* REGISTER.
LEMMA RegisterInv ==
    ASSUME Inv, ReadMessage("register"), HandleRegister(target)
    PROVE  Inv'
<1>1. Known /\ target \in Rs /\ conn \in Conns /\ applied \in [Rs -> {0, entry}] /\ entry \in {0, 1} /\ Attended
      /\ control = "open"
  BY DEF Inv, Known, ReadMessage
<1>2. Grown
  BY <1>1, SameGrown DEF HandleRegister
<1>3. CASE Reply(<<Redirect(target)>>) /\ UNCHANGED conn
  <2>1. /\ IsSeq(toNode') /\ Mail(toNode', entry')
        /\ \A u : Has(toNode', u) <=> Has(toNode, u) \/ u = "redirect"
    BY <1>1, <1>2, <1>3, RedirectFacts
  <2>2. conn.challenge = "resume" => applied'[target] # 0
    BY <1>1, <1>2 DEF Attended, Grown
  <2>. QED  BY <1>1, <1>2, <1>3, <2>1, <2>2, HandledInv
<1>4. CASE /\ conn' = [conn EXCEPT !.challenge = IF applied[target] # 0 THEN "resume" ELSE "new", !.age = 0]
           /\ Reply(<<IdMsg("challenge", applied[target])>>)
  <2>. DEFINE x == IdMsg("challenge", applied[target])
             ms == <<x>>
  <2>1. x.t = "challenge"
    BY DEF IdMsg
  <2>2. IsSeq(ms) /\ Elems(ms) = {x}
    BY FewElems, Zenon
  <2>3. Reply(ms)
    BY <1>4
  <2>. HIDE DEF x, ms
  <2>4. Mail(ms, entry') /\ \A u : Has(ms, u) <=> u = "challenge"
    BY <2>1, <2>2 DEF Mail, Has
  <2>5. /\ IsSeq(toNode') /\ Mail(toNode', entry')
        /\ \A u : Has(toNode', u) <=> Has(toNode, u) \/ Has(ms, u)
    BY <1>1, <1>2, <2>2, <2>3, <2>4, ReplyFacts
  <2>6. conn' \in Conns /\ conn'.beat = conn.beat /\ conn'.registered = conn.registered
    BY <1>1, <1>4, Zenon DEF Conns
  <2>7. conn'.challenge = "resume" => applied[target] # 0
    BY <1>1, <1>4 DEF Conns
  <2>8. conn'.challenge = "resume" => applied'[target] # 0
    BY <1>1, <1>2, <2>7 DEF Grown
  <2>. QED  BY <1>2, <2>4, <2>5, <2>6, <2>8, HandledInv
<1>. QED  BY <1>3, <1>4 DEF HandleRegister

\* A registration is answered with the identity.
LEMMA AnswerInv ==
    ASSUME Inv, Grown, ReadMessage("ack"), NEW id, id \in {0, entry'}, id # 0, NEW snap,
           conn' = [conn EXCEPT !.challenge = "none", !.registered = id],
           Reply(<<IdMsg("response", id), NetmapMsg(snap)>>)
    PROVE  Inv'
<1>. DEFINE x == IdMsg("response", id)
           y == NetmapMsg(snap)
           ms == <<x, y>>
<1>1. x.t = "response" /\ x.id = id /\ y.t = "netmap"
  BY DEF IdMsg, NetmapMsg
<1>2. IsSeq(ms) /\ Elems(ms) = {x, y}
  BY FewElems, Zenon
<1>3. Reply(ms)
  OBVIOUS
<1>. HIDE DEF x, y, ms
<1>4. Mail(ms, entry') /\ \A u : Has(ms, u) <=> u \in {"response", "netmap"}
  BY <1>1, <1>2 DEF Mail, Has
<1>5. Known /\ conn \in Conns
  BY DEF Inv, Known
<1>6. /\ IsSeq(toNode') /\ Mail(toNode', entry')
      /\ \A u : Has(toNode', u) <=> Has(toNode, u) \/ Has(ms, u)
  BY <1>2, <1>3, <1>4, <1>5, ReplyFacts
<1>7. id \in {0, 1}
  BY DEF Grown
<1>8. conn' \in Conns /\ conn'.beat = conn.beat /\ conn'.registered = id /\ conn'.challenge = "none"
  BY <1>5, <1>7, Zenon DEF Conns
<1>. QED  BY <1>4, <1>6, <1>8, HandledInv

\* CHALLENGE_ACK.
LEMMA AckInv ==
    ASSUME Inv, NEW snap, ReadMessage("ack"), HandleAck(target, snap)
    PROVE  Inv'
<1>1. Known /\ target \in Rs /\ conn \in Conns /\ applied \in [Rs -> {0, entry}] /\ entry \in {0, 1} /\ Attended
      /\ control = "open"
  BY DEF Inv, Known, ReadMessage
<1>2. CASE Reply(<<Msg("close")>>) /\ UNCHANGED <<conn, entry, applied, issued>>
  <2>. DEFINE x == Msg("close")
             ms == <<x>>
  <2>1. x.t = "close"
    BY DEF Msg
  <2>2. IsSeq(ms) /\ Elems(ms) = {x}
    BY FewElems, Zenon
  <2>3. Reply(ms)
    BY <1>2
  <2>. HIDE DEF x, ms
  <2>4. Mail(ms, entry') /\ \A u : Has(ms, u) <=> u = "close"
    BY <2>1, <2>2 DEF Mail, Has
  <2>5. Grown
    BY <1>1, <1>2, SameGrown
  <2>6. /\ IsSeq(toNode') /\ Mail(toNode', entry')
        /\ \A u : Has(toNode', u) <=> Has(toNode, u) \/ Has(ms, u)
    BY <1>1, <2>2, <2>3, <2>4, <2>5, ReplyFacts
  <2>7. conn'.challenge = "resume" => applied'[target] # 0
    BY <1>1, <1>2 DEF Attended
  <2>. QED  BY <1>1, <1>2, <2>4, <2>5, <2>6, <2>7, HandledInv
<1>3. CASE Resume(target, snap)
  <2>1. Grown
    BY <1>1, <1>3, SameGrown DEF Resume
  <2>2. PICK id : id = applied[target]
    OBVIOUS
  <2>3. id \in {0, entry'} /\ id # 0
    BY <1>1, <1>3, <2>2 DEF Resume, Attended
  <2>4. conn' = [conn EXCEPT !.challenge = "none", !.registered = id]
    BY <1>3, <2>2 DEF Resume
  <2>5. Reply(<<IdMsg("response", id), NetmapMsg(snap)>>)
    BY <1>3, <2>2 DEF Resume
  <2>. QED  BY <2>1, <2>3, <2>4, <2>5, AnswerInv, Zenon
<1>4. CASE /\ Commit(target)
           /\ conn' = [conn EXCEPT !.challenge = "none", !.registered = entry']
           /\ Reply(<<IdMsg("response", entry'), NetmapMsg(snap)>>)
  <2>1. Grown /\ entry' = 1
    BY <1>1, <1>4, CommitGrown
  <2>2. PICK id : id = entry'
    OBVIOUS
  <2>3. id \in {0, entry'} /\ id # 0
    BY <2>1, <2>2
  <2>4. conn' = [conn EXCEPT !.challenge = "none", !.registered = id]
    BY <1>4, <2>2
  <2>5. Reply(<<IdMsg("response", id), NetmapMsg(snap)>>)
    BY <1>4, <2>2
  <2>. QED  BY <2>1, <2>3, <2>4, <2>5, AnswerInv, Zenon
<1>5. CASE /\ conn' = [conn EXCEPT !.challenge = "none"]
           /\ Reply(<<Redirect(target)>>)
           /\ UNCHANGED <<entry, applied, issued>>
  <2>1. Grown
    BY <1>1, <1>5, SameGrown
  <2>2. /\ IsSeq(toNode') /\ Mail(toNode', entry')
        /\ \A u : Has(toNode', u) <=> Has(toNode, u) \/ u = "redirect"
    BY <1>1, <1>5, <2>1, RedirectFacts
  <2>3. conn' \in Conns /\ conn'.beat = conn.beat /\ conn'.registered = conn.registered /\ conn'.challenge = "none"
    BY <1>1, <1>5 DEF Conns
  <2>. QED  BY <2>1, <2>2, <2>3, HandledInv
<1>. QED  BY <1>2, <1>3, <1>4, <1>5 DEF HandleAck, RegisterNew

\* ENDPOINT_REPORT.
LEMMA ReportInv ==
    ASSUME Inv, ReadMessage("report"), HandleReport(target)
    PROVE  Inv'
<1>1. Known /\ target \in Rs /\ conn \in Conns /\ Attended /\ control = "open" /\ IsSeq(toNode) /\ Mail(toNode, entry)
  BY DEF Inv, Known, ReadMessage
<1>2. UNCHANGED <<conn, entry, applied, issued>>
  BY DEF HandleReport
<1>3. Grown
  BY <1>1, <1>2, SameGrown
<1>4. /\ IsSeq(toNode') /\ Mail(toNode', entry')
      /\ \A u : Has(toNode', u) => Has(toNode, u) \/ u = "redirect"
      /\ \A u : Has(toNode, u) => Has(toNode', u)
  <2>1. CASE Reply(<<Redirect(target)>>)
    BY <1>1, <1>3, <2>1, RedirectFacts
  <2>2. CASE UNCHANGED toNode
    BY <1>1, <1>2, <2>2
  <2>. QED  BY <2>1, <2>2 DEF HandleReport
<1>5. conn'.challenge = "resume" => applied'[target] # 0
  BY <1>1, <1>2 DEF Attended
<1>. QED  BY <1>1, <1>2, <1>3, <1>4, <1>5, HandledInv

\* HEARTBEAT: an answered lease is renewed, or the node is sent elsewhere.
LEMMA HeartbeatInv ==
    ASSUME Inv, NEW snap, NEW more, IsSeq(more), \A m \in Elems(more) : m.t = "routemap",
           ReadMessage("heartbeat"), HandleHeartbeat(target, snap, more)
    PROVE  Inv'
<1>1. /\ Known /\ target \in Rs /\ conn \in Conns /\ Attended /\ control = "open"
      /\ IsSeq(toNode) /\ Mail(toNode, entry) /\ IsSeq(toServer)
      /\ toServer # <<>> /\ Head(toServer).t = "heartbeat" /\ toServer' = Tail(toServer)
  BY DEF Inv, Known, ReadMessage
<1>2. UNCHANGED <<entry, applied, issued, leader, view, ignored, control, target, coord_override, node_id, lease, due>>
  BY DEF HandleHeartbeat, ReadMessage, self
<1>3. Grown
  BY <1>1, <1>2, SameGrown
<1>4. IsSeq(toServer') /\ Has(toServer, "heartbeat")
  BY <1>1, ReadOff
<1>. DEFINE Beaten == conn' = [conn EXCEPT !.beat = TRUE] /\ Reply(<<NetmapMsg(snap)>> \o more \o <<Msg("lease")>>)
<1>5. ASSUME Beaten
      PROVE  /\ IsSeq(toNode') /\ Mail(toNode', entry')
             /\ \A u : Has(toNode', u) => Has(toNode, u) \/ u \in {"netmap", "routemap", "lease"}
             /\ \A u : Has(toNode, u) => Has(toNode', u)
             /\ Has(toNode', "lease")
  <2>. DEFINE x == NetmapMsg(snap)
             y == Msg("lease")
             a == <<x>>
             b == a \o more
             z == <<y>>
             c == b \o z
  <2>1. Reply(c)
    BY <1>5
  <2>2. x.t = "netmap" /\ y.t = "lease"
    BY DEF NetmapMsg, Msg
  <2>3. IsSeq(a) /\ Elems(a) = {x} /\ IsSeq(z) /\ Elems(z) = {y}
    BY FewElems, Zenon
  <2>. HIDE DEF a, z, x, y
  <2>4. IsSeq(b) /\ Elems(b) = Elems(a) \cup Elems(more)
    BY <2>3, ElemsConcat
  <2>. HIDE DEF b
  <2>5. IsSeq(c) /\ Elems(c) = Elems(b) \cup Elems(z)
    BY <2>3, <2>4, ElemsConcat
  <2>. HIDE DEF c
  <2>6. \A m \in Elems(c) : m.t \in {"netmap", "routemap", "lease"}
    BY <2>2, <2>3, <2>4, <2>5
  <2>7. y \in Elems(c)
    BY <2>3, <2>5
  <2>8. Mail(c, entry') /\ Has(c, "lease") /\ \A u : Has(c, u) => u \in {"netmap", "routemap", "lease"}
    BY <2>2, <2>6, <2>7 DEF Mail, Has
  <2>9. /\ IsSeq(toNode') /\ Mail(toNode', entry')
        /\ \A u : Has(toNode', u) <=> Has(toNode, u) \/ Has(c, u)
    BY <1>1, <1>3, <2>1, <2>5, <2>8, ReplyFacts
  <2>. QED  BY <2>8, <2>9
<1>6. ASSUME Beaten
      PROVE  conn' \in Conns /\ conn'.registered = conn.registered /\ conn'.challenge = conn.challenge
  BY <1>1, <1>6, Zenon DEF Conns
<1>7. ASSUME Reply(<<Redirect(target)>>)
      PROVE  /\ IsSeq(toNode') /\ Mail(toNode', entry')
             /\ \A u : Has(toNode', u) <=> Has(toNode, u) \/ u = "redirect"
  BY <1>1, <1>3, <1>7, RedirectFacts
<1>8. \/ conn.registered = 0 /\ UNCHANGED <<conn, toNode>>
      \/ conn.registered # 0 /\ Reply(<<Redirect(target)>>) /\ UNCHANGED conn
      \/ conn.registered # 0 /\ conn.beat /\ UNCHANGED <<conn, toNode>>
      \/ conn.registered # 0 /\ Beaten
  BY DEF HandleHeartbeat
<1>. HIDE DEF Beaten
<1>9. IsSeq(toNode') /\ Mail(toNode', entry') /\ conn' \in Conns /\ conn'.challenge = conn.challenge
      /\ conn'.registered = conn.registered
  BY <1>1, <1>2, <1>5, <1>6, <1>7, <1>8
<1>10. Known'
  BY <1>1, <1>2, <1>4, <1>9 DEF Known
<1>11. ASSUME ~ignored PROVE Answered'
  <2>1. Answered
    BY <1>1, <1>11 DEF Attended
  <2>2. ~due /\ lease \in Int
    BY <1>1, <1>4, <2>1 DEF Answered, Known
  <2>3. CASE conn.registered = 0 /\ UNCHANGED <<conn, toNode>>
    BY <1>2, <2>1, <2>2, <2>3 DEF Answered
  <2>4. CASE conn.registered # 0 /\ Reply(<<Redirect(target)>>) /\ UNCHANGED conn
    BY <1>2, <1>7, <2>1, <2>2, <2>4 DEF Answered
  <2>5. CASE conn.registered # 0 /\ conn.beat /\ UNCHANGED <<conn, toNode>>
    BY <1>2, <2>1, <2>2, <2>5 DEF Answered
  <2>6. CASE conn.registered # 0 /\ Beaten
    BY <1>2, <1>5, <1>6, <2>1, <2>2, <2>6 DEF Answered
  <2>. QED  BY <1>8, <2>3, <2>4, <2>5, <2>6
<1>. QED  BY <1>1, <1>2, <1>9, <1>10, <1>11 DEF Inv, Attended

\* The server's side.
LEMMA ServeInv ==
    ASSUME Inv, NEW snap, NEW more, IsSeq(more), \A m \in Elems(more) : m.t = "routemap", Serve(snap, more)
    PROVE  Inv'
BY RegisterInv, AckInv, HeartbeatInv, ReportInv DEF Serve

\* The node's side: connecting.
LEMMA ConnectInv ==
    ASSUME Inv, SpawnConnect \/ ConnectOk \/ ConnectFail
    PROVE  Inv'
<1>1. Known /\ Attended
  BY DEF Inv
<1>2. CASE SpawnConnect
  <2>1. target' \in Rs
    BY <1>1, <1>2, ControlAssumption, Zenon DEF SpawnConnect, Known, Somebody
  <2>2. UNCHANGED <<entry, issued, applied, leader, view, coord_override, node_id, lease, toServer, toNode, conn>>
        /\ control' = "connecting"
    BY <1>2 DEF SpawnConnect, cluster, link
  <2>. QED  BY <1>1, <2>1, <2>2 DEF Inv, Known, Attended
<1>3. CASE ConnectOk
  <2>1. /\ UNCHANGED <<entry, issued, applied, leader, view, target, coord_override, node_id, due>>
        /\ lease' = -1 /\ toNode' = <<>> /\ conn' = NoConn
    BY <1>3 DEF ConnectOk, connect, cluster
  <2>. DEFINE x == Msg("register")
  <2>2. toServer' = <<x>>
    BY <1>3 DEF ConnectOk, connect
  <2>3. x.t = "register"
    BY DEF Msg
  <2>. HIDE DEF x
  <2>4. IsSeq(toServer') /\ Elems(toServer') = {x} /\ IsSeq(toNode') /\ Elems(toNode') = {}
    BY <2>1, <2>2, FewElems, Zenon
  <2>5. Mail(toNode', entry) /\ (\A u : ~Has(toNode', u)) /\ ~Has(toServer', "heartbeat")
    BY <2>3, <2>4 DEF Mail, Has
  <2>6. conn' \in Conns /\ conn'.challenge = "none" /\ conn'.beat = FALSE
    BY <2>1 DEF NoConn, Conns
  <2>7. Known'
    BY <1>1, <2>1, <2>4, <2>5, <2>6 DEF Known
  <2>8. Answered'
    BY <2>1, <2>5, <2>6 DEF Answered
  <2>. QED  BY <2>6, <2>7, <2>8 DEF Inv, Attended
<1>4. CASE ConnectFail
  <2>1. UNCHANGED <<entry, issued, applied, leader, view, target, node_id, lease, toServer, toNode, conn>>
        /\ control' = "none" /\ coord_override' \in Somebody
    BY <1>4 DEF ConnectFail, cluster, link, Somebody
  <2>. QED  BY <1>1, <2>1 DEF Inv, Known, Attended
<1>. QED  BY <1>2, <1>3, <1>4

\* Messages that the node answers or applies.
LEMMA MessageInv ==
    ASSUME Inv, Registered \/ NetmapEvent \/ RouteMapEvent \/ ChallengeEvent
    PROVE  Inv'
<1>1. Known /\ IsSeq(toServer) /\ IsSeq(toNode) /\ Mail(toNode, entry) /\ node_id \in {0, entry}
  BY DEF Inv, Known
<1>2. ASSUME NEW u, u # "heartbeat", Write(Msg(u))
      PROVE  IsSeq(toServer') /\ (Has(toServer', "heartbeat") <=> Has(toServer, "heartbeat"))
  <2>1. PICK x : x = Msg(u)
    OBVIOUS
  <2>2. toServer' = Append(toServer, x) /\ x.t = u
    BY <1>2, <2>1 DEF Write, Msg
  <2>. QED  BY <1>1, <1>2, <2>2, Written
<1>3. CASE Registered
  <2>1. read_event("response") /\ toNode' = Tail(toNode) /\ node_id' = Head(toNode).id
        /\ UNCHANGED <<entry, issued, applied, leader, view, control, target, coord_override>>
        /\ UNCHANGED <<conn, lease, due, ignored>>
    BY <1>3 DEF Registered, cluster
  <2>2. Write(Msg("report"))
    BY <1>3, Zenon DEF Registered
  <2>3. IsSeq(toServer') /\ (Has(toServer', "heartbeat") <=> Has(toServer, "heartbeat"))
    BY <1>2, <2>2
  <2>4. node_id' \in {0, entry}
    BY <1>1, <2>1, ReadOff DEF read_event
  <2>. QED  BY <2>1, <2>3, <2>4, EventInv
<1>4. CASE NetmapEvent
  <2>1. read_event("netmap") /\ toNode' = Tail(toNode) /\ UNCHANGED <<toServer, node_id>>
        /\ UNCHANGED <<entry, issued, applied, leader, view, control, target, coord_override>>
        /\ UNCHANGED <<conn, lease, due, ignored>>
    BY <1>4 DEF NetmapEvent, cluster
  <2>. QED  BY <1>1, <2>1, EventInv
<1>5. CASE RouteMapEvent
  <2>1. read_event("routemap") /\ toNode' = Tail(toNode) /\ UNCHANGED <<toServer, node_id>>
        /\ UNCHANGED <<entry, issued, applied, leader, view, control, target, coord_override>>
        /\ UNCHANGED <<conn, lease, due, ignored>>
    BY <1>5 DEF RouteMapEvent, cluster, self
  <2>. QED  BY <1>1, <2>1, EventInv
<1>6. CASE ChallengeEvent
  <2>1. read_event("challenge") /\ toNode' = Tail(toNode) /\ UNCHANGED node_id
        /\ UNCHANGED <<entry, issued, applied, leader, view, control, target, coord_override>>
        /\ UNCHANGED <<conn, lease, due, ignored>>
    BY <1>6 DEF ChallengeEvent, cluster, self
  <2>2. Write(Msg("ack"))
    BY <1>6 DEF ChallengeEvent
  <2>3. IsSeq(toServer') /\ (Has(toServer', "heartbeat") <=> Has(toServer, "heartbeat"))
    BY <1>2, <2>2
  <2>. QED  BY <1>1, <2>1, <2>3, EventInv
<1>. QED  BY <1>3, <1>4, <1>5, <1>6

\* A lease is renewed.
LEMMA LeaseInv ==
    ASSUME Inv, LeaseEvent
    PROVE  Inv'
<1>1. /\ UNCHANGED <<entry, issued, applied, leader, view, control, target, coord_override, node_id>>
      /\ UNCHANGED <<toServer, conn, due, ignored>> /\ toNode' = Tail(toNode) /\ lease' = LeaseTicks
      /\ control = "open" /\ toNode # <<>> /\ Head(toNode).t = "lease"
  BY DEF LeaseEvent, cluster, read_event
<1>2. Known /\ Attended /\ IsSeq(toNode) /\ Mail(toNode, entry)
  BY DEF Inv, Known
<1>3. IsSeq(toNode') /\ Mail(toNode', entry) /\ Has(toNode, "lease") /\ \A u : Has(toNode', u) => Has(toNode, u)
  BY <1>1, <1>2, ReadOff
<1>4. LeaseTicks \in Nat /\ LeaseTicks >= 2
  BY ControlAssumption
<1>5. Known'
  BY <1>1, <1>2, <1>3, <1>4 DEF Known
<1>6. ASSUME ~ignored PROVE Answered'
  <2>1. Answered
    BY <1>1, <1>2, <1>6 DEF Attended
  <2>. QED  BY <1>1, <1>3, <1>4, <2>1 DEF Answered
<1>. QED  BY <1>1, <1>2, <1>5, <1>6 DEF Inv, Attended

\* The ends of a session on the node's side.
LEMMA EndInv ==
    ASSUME Inv, ReadError \/ LeaderRedirect \/ Watchdog \/ Respawn
    PROVE  Inv'
<1>1. Known /\ coord_override \in Somebody /\ node_id \in {0, entry} /\ lease \in Int /\ IsSeq(toNode) /\ Mail(toNode, entry)
  BY DEF Inv, Known
<1>2. CASE ReadError
  <2>1. Drop /\ UNCHANGED <<leader, view, target, coord_override, node_id, lease>>
    BY <1>2 DEF ReadError
  <2>. QED  BY <1>1, <2>1, DropInv
<1>3. CASE LeaderRedirect
  <2>1. Drop /\ UNCHANGED <<leader, view, target, node_id, lease>>
    BY <1>3 DEF LeaderRedirect
  <2>2. Head(toNode).to \in Somebody
    BY <1>1, <1>3, ReadOff DEF LeaderRedirect, read_event
  <2>3. coord_override' \in Somebody
    BY <1>1, <1>3, <2>2 DEF LeaderRedirect
  <2>. QED  BY <1>1, <2>1, <2>3, DropInv
<1>4. CASE Watchdog
  <2>1. Drop /\ UNCHANGED <<leader, view, target, coord_override, node_id>> /\ lease' = -1
    BY <1>4 DEF Watchdog
  <2>. QED  BY <1>1, <2>1, DropInv
<1>5. CASE Respawn
  <2>1. Drop /\ UNCHANGED <<leader, view, target>> /\ coord_override' \in Somebody /\ node_id' = 0 /\ lease' = -1
    BY <1>5 DEF Respawn, Somebody
  <2>. QED  BY <1>1, <2>1, DropInv
<1>. QED  BY <1>2, <1>3, <1>4, <1>5

\* The heartbeat is written.  While it is due in an answered session nothing is in its way.
LEMMA BeatInv ==
    ASSUME Inv, Heartbeat
    PROVE  Inv'
<1>1. Known /\ Attended /\ IsSeq(toServer) /\ coord_override \in Somebody /\ node_id \in {0, entry} /\ lease \in Int
  BY DEF Inv, Known
<1>2. due /\ due' = FALSE /\ UNCHANGED <<target, coord_override, node_id, lease>>
  BY DEF Heartbeat
<1>3. CASE Drop /\ UNCHANGED <<setting, faults, run, leader, view>>
  BY <1>1, <1>2, <1>3, DropInv
<1>4. CASE /\ control = "open" /\ Write(Msg("heartbeat"))
           /\ UNCHANGED <<cluster, toNode, conn, ignored, control>>
  <2>1. UNCHANGED <<entry, issued, applied, leader, view, toNode, conn, ignored, control>>
    BY <1>4 DEF cluster
  <2>2. PICK x : x = Msg("heartbeat")
    OBVIOUS
  <2>3. toServer' = Append(toServer, x) /\ x.t = "heartbeat"
    BY <1>4, <2>2 DEF Write, Msg
  <2>4. IsSeq(toServer') /\ Has(toServer', "heartbeat")
    BY <1>1, <2>3, Written
  <2>5. Known'
    BY <1>1, <1>2, <2>1, <2>4 DEF Known
  <2>6. ASSUME ~ignored PROVE Answered'
    <3>1. Answered
      BY <1>1, <1>4, <2>6 DEF Attended
    <3>. QED  BY <1>2, <2>1, <2>4, <3>1 DEF Answered
  <2>. QED  BY <1>1, <1>2, <1>4, <2>1, <2>5, <2>6 DEF Inv, Attended
<1>5. CASE /\ control # "open" \/ Len(toServer) = MaxQueue
           /\ UNCHANGED <<cluster, link, control>>
  <2>1. UNCHANGED <<entry, issued, applied, leader, view, toServer, toNode, conn, ignored, control>>
    BY <1>5 DEF cluster, link
  <2>2. Known'
    BY <1>1, <1>2, <2>1 DEF Known
  <2>3. ASSUME control = "open", ~ignored PROVE Answered'
    <3>1. Answered
      BY <1>1, <2>3 DEF Attended
    <3>2. toServer # <<>>
      BY <1>5, <2>3, ControlAssumption
    <3>3. lease = -1
      BY <1>2, <3>1, <3>2 DEF Answered
    <3>. QED  BY <1>2, <2>1, <3>1, <3>3 DEF Answered
  <2>. QED  BY <1>1, <1>2, <2>1, <2>2, <2>3 DEF Inv, Attended
<1>. QED  BY <1>3, <1>4, <1>5 DEF Heartbeat

\* An interval passes: in a session that is answered, the lease was renewed in the one before.
LEMMA TickInv ==
    ASSUME Inv, Tick
    PROVE  Inv'
<1>1. Known /\ Attended /\ conn \in Conns /\ lease \in Int
  BY DEF Inv, Known
<1>2. /\ UNCHANGED <<entry, issued, applied, leader, view, toServer, toNode, control, target, coord_override, node_id>>
      /\ due' = TRUE /\ ~due
      /\ lease' = IF lease > 0 THEN lease - 1 ELSE lease
      /\ control = "open" => toNode = <<>>
  BY DEF Tick, Quiet, cluster
<1>3. lease' \in Int
  BY <1>1, <1>2
<1>4. conn' \in Conns /\ conn'.beat = FALSE /\ conn'.challenge = conn.challenge /\ conn'.registered = conn.registered
  <2>. DEFINE a == IF conn.challenge = "none" THEN 0 ELSE MinOf(conn.age + 1, WindowTicks + 1)
  <2>1. a \in Nat
    BY <1>1, ControlAssumption DEF Conns, MinOf
  <2>2. conn' = [conn EXCEPT !.beat = FALSE, !.age = a]
    BY DEF Tick
  <2>. HIDE DEF a
  <2>. QED  BY <1>1, <2>1, <2>2, Zenon DEF Conns
<1>5. Known'
  BY <1>1, <1>2, <1>3, <1>4 DEF Known
<1>6. ASSUME control = "open", ~ignored' PROVE Answered'
  <2>1. ~ignored /\ toServer = <<>>
    BY <1>6, Zenon DEF Tick
  <2>2. Answered
    BY <1>1, <1>6, <2>1 DEF Attended
  <2>3. Elems(toNode) = {} /\ Elems(toServer) = {}
    BY <1>2, <1>6, <2>1, FewElems, Zenon
  <2>4. \A u : ~Has(toNode, u) /\ ~Has(toServer, u)
    BY <2>3 DEF Has
  <2>5. lease = -1 \/ lease >= LeaseTicks
    BY <1>1, <1>2, <2>2, <2>4, ControlAssumption DEF Answered
  <2>6. (lease' = -1 /\ lease = -1) \/ (lease' >= LeaseTicks - 1 /\ lease # -1 /\ lease' # -1)
    BY <1>1, <1>2, <2>5, ControlAssumption
  <2>. QED  BY <1>2, <1>4, <2>1, <2>2, <2>3, <2>4, <2>6 DEF Answered
<1>. QED  BY <1>1, <1>2, <1>4, <1>5, <1>6 DEF Inv, Attended

\* The cluster and its faults.
LEMMA FaultsInv ==
    ASSUME Inv, NEW r \in Rs,
           \/ Elect(r) \/ Follow(r) \/ Forget(r) \/ Revive(r)
           \/ Freeze(r) \/ Handover(r) \/ Die(r) \/ Break
    PROVE  Inv'
<1>1. /\ Known /\ leader \in Somebody /\ view \in [Rs -> Somebody] /\ entry \in {0, 1}
      /\ applied \in [Rs -> {0, entry}] /\ issued = entry
  BY DEF Inv, Known
<1>2. r \in Somebody /\ "none" \in Somebody
  BY DEF Somebody
<1>3. CASE Elect(r) \/ Forget(r) \/ Revive(r) \/ Freeze(r) \/ Handover(r)
  <2>1. UNCHANGED <<control, target, coord_override, node_id, lease, due, toServer, toNode, conn, ignored>>
    BY <1>3, Zenon DEF Elect, Forget, Revive, Freeze, Handover, link, self
  <2>2. UNCHANGED <<entry, applied, issued>>
    BY <1>3, Zenon DEF Elect, Forget, Revive, Freeze, Handover
  <2>3. leader' \in Somebody /\ view' \in [Rs -> Somebody]
    BY <1>1, <1>2, <1>3, Zenon DEF Elect, Forget, Revive, Freeze, Handover
  <2>4. Grown
    BY <1>1, <2>2, SameGrown
  <2>. QED  BY <2>1, <2>3, <2>4, ClusterInv
<1>4. CASE Follow(r)
  <2>1. UNCHANGED <<control, target, coord_override, node_id, lease, due, toServer, toNode, conn, ignored>>
    BY <1>4 DEF Follow, link, self
  <2>2. leader' = leader /\ view' = [view EXCEPT ![r] = leader] /\ UNCHANGED <<entry, issued>>
        /\ applied' = [applied EXCEPT ![r] = entry]
    BY <1>4 DEF Follow
  <2>3. leader' \in Somebody /\ view' \in [Rs -> Somebody]
    BY <1>1, <2>2
  <2>4. Grown
    BY <1>1, <2>2 DEF Grown
  <2>. QED  BY <2>1, <2>3, <2>4, ClusterInv
<1>5. Close =>
        \/ toNode' = toNode
        \/ \E k \in 0..Len(toNode) : toNode' = Append(SubSeq(toNode, 1, k), Msg("close"))
  BY DEF Close
<1>6. CASE Die(r)
  <2>1. UNCHANGED <<control, target, coord_override, node_id, lease, due, toServer, conn, ignored>>
    BY <1>6 DEF Die, self
  <2>2. leader' \in Somebody /\ view' \in [Rs -> Somebody] /\ UNCHANGED <<entry, applied, issued>>
    BY <1>1, <1>2, <1>6 DEF Die
  <2>3. Close \/ toNode' = toNode
    BY <1>6 DEF Die
  <2>4. Grown
    BY <1>1, <2>2, SameGrown
  <2>. QED  BY <1>5, <2>1, <2>2, <2>3, <2>4, ClusterInv
<1>7. CASE Break
  <2>1. UNCHANGED <<control, target, coord_override, node_id, lease, due, toServer, conn, ignored>>
        /\ UNCHANGED <<leader, view, entry, applied, issued>> /\ Close
    BY <1>7 DEF Break, self
  <2>2. Grown
    BY <1>1, <2>1, SameGrown
  <2>. QED  BY <1>1, <1>5, <2>1, <2>2, ClusterInv
<1>. QED  BY <1>3, <1>4, <1>6, <1>7

\* Nothing of the connection changes.
LEMMA SameInv ==
    ASSUME Inv, UNCHANGED <<cluster, link, self>>
    PROVE  Inv'
BY DEF Inv, Known, Attended, Answered, cluster, link, self

-----------------------------------------------------------------------------
(* The daemon.                                                             *)

\* A daemon starts without a connection and an identity.
LEMMA InitInv == Init => Inv
<1>. SUFFICES ASSUME Init PROVE Inv
  OBVIOUS
<1>1. CtlInit
  BY DEF Init
<1>2. env.leader \in Rs /\ env.member \in BOOLEAN
  BY <1>1, ControlAssumption DEF CtlInit, env
<1>3. entry = (IF env.member THEN 1 ELSE 0) /\ issued = entry /\ node_id = entry /\ leader = env.leader /\ target = leader
  BY <1>1 DEF CtlInit
<1>4. toServer = <<>> /\ toNode = <<>>
  BY <1>1 DEF CtlInit
<1>5. IsSeq(toServer) /\ IsSeq(toNode) /\ Elems(toServer) = {} /\ Elems(toNode) = {}
  BY <1>4, FewElems, Zenon
<1>6. Mail(toNode, entry) /\ \A u : ~Has(toNode, u) /\ ~Has(toServer, u)
  BY <1>5 DEF Mail, Has
<1>7. conn = [registered |-> entry, challenge |-> "none", age |-> 0, beat |-> FALSE]
  BY <1>1, Zenon DEF CtlInit, NoConn
<1>8. conn \in Conns /\ conn.registered = entry /\ conn.challenge = "none" /\ conn.beat = FALSE
  BY <1>3, <1>7 DEF Conns
<1>9. applied \in [Rs -> {0, entry}] /\ view \in [Rs -> Somebody] /\ leader \in Somebody
  BY <1>1, <1>2, <1>3 DEF CtlInit, Somebody
<1>10. coord_override \in Somebody
  BY <1>1, <1>9 DEF CtlInit, Somebody
<1>11. lease \in Int /\ ((lease = LeaseTicks /\ entry = 1) \/ lease = -1) /\ due = FALSE
  BY <1>1, <1>2, <1>3, ControlAssumption DEF CtlInit
<1>12. Known
  BY <1>2, <1>3, <1>5, <1>6, <1>8, <1>9, <1>10, <1>11 DEF Known
<1>13. Answered
  BY <1>6, <1>8, <1>11, ControlAssumption DEF Answered
<1>. QED  BY <1>8, <1>12, <1>13 DEF Inv, Attended

\* push_route_map writes route maps only.
LEMMA PushedMaps ==
    IsSeq(push_route_map) /\ \A m \in Elems(push_route_map) : m.t = "routemap"
<1>. DEFINE x == RouteMapMsg(routeMap)
<1>1. x.t = "routemap"
  BY DEF RouteMapMsg
<1>2. push_route_map = <<>> \/ push_route_map = <<x>>
  BY DEF push_route_map
<1>. HIDE DEF x
<1>3. CASE push_route_map = <<>>
  <2>1. IsSeq(<<>>) /\ Elems(<<>>) = {}
    BY FewElems, Zenon
  <2>. QED  BY <1>3, <2>1
<1>4. CASE push_route_map = <<x>>
  <2>1. IsSeq(<<x>>) /\ Elems(<<x>>) = {x}
    BY FewElems, Zenon
  <2>. QED  BY <1>1, <1>4, <2>1
<1>. QED  BY <1>2, <1>3, <1>4

\* Every step of connection, replicas and forwarding keeps the invariant.
LEMMA StepInv == Inv /\ [Next]_vars => Inv'
<1>. SUFFICES ASSUME Inv, [Next]_vars PROVE Inv'
  OBVIOUS
<1>1. ASSUME NodeStep PROVE Inv'
  <2>1. ASSUME NEW r \in Rs, pump_audits(r) PROVE Inv'
    BY <2>1, SameInv DEF pump_audits
  <2>2. ASSUME SpawnConnect \/ ConnectOk \/ ConnectFail PROVE Inv'
    BY <2>2, ConnectInv
  <2>3. ASSUME Registered \/ ChallengeEvent PROVE Inv'
    BY <2>3, MessageInv
  <2>4. ASSUME ReadError \/ LeaderRedirect \/ Watchdog PROVE Inv'
    BY <2>4, EndInv
  <2>5. ASSUME LeaseEvent PROVE Inv'
    BY <2>5, LeaseInv
  <2>6. ASSUME Heartbeat PROVE Inv'
    BY <2>6, BeatInv
  <2>. QED  BY <1>1, <2>1, <2>2, <2>3, <2>4, <2>5, <2>6, Zenon DEF NodeStep
<1>2. ASSUME Control PROVE Inv'
  <2>1. ASSUME NEW r \in Rs, Elect(r) \/ Follow(r) \/ Forget(r) \/ Revive(r) \/ Freeze(r) \/ Handover(r) PROVE Inv'
    BY <2>1, FaultsInv
  <2>2. ASSUME Break PROVE Inv'
    <3>1. Configured \in Rs
      BY ControlAssumption
    <3>. QED  BY <2>2, <3>1, FaultsInv
  <2>3. ASSUME Tick PROVE Inv'
    BY <2>3, TickInv
  <2>. QED  BY <1>1, <1>2, <2>1, <2>2, <2>3, Zenon DEF Control, ClusterStep
<1>3. ASSUME handle_message PROVE Inv'
  BY <1>3, PushedMaps, ServeInv DEF handle_message
<1>4. ASSUME NEW r \in Rs, Died(r) PROVE Inv'
  BY <1>4, FaultsInv DEF Died
<1>5. ASSUME UNCHANGED ctlVars PROVE Inv'
  BY <1>5, SameInv DEF ctlVars
<1>6. ASSUME handle_control_event PROVE Inv'
  BY <1>6, MessageInv DEF handle_control_event
<1>7. ASSUME Restarted PROVE Inv'
  BY <1>7, EndInv DEF Restarted
<1>. QED  BY <1>2, <1>3, <1>4, <1>5, <1>6, <1>7 DEF Next, vars

\* The invariant holds for ever.
LEMMA Invariance == Spec => []Inv
BY InitInv, StepInv, PTL DEF Spec

\* The key of the node gets one identity, whatever is lost between the registration and its
\* answer, whoever leads and however often the daemon or a replica starts again.
THEOREM NodeHasOneIdentity == Spec => []OneIdentity
<1>1. Inv => OneIdentity
  BY DEF Inv, Known, OneIdentity
<1>. QED  BY <1>1, Invariance, PTL

\* The watchdog drops a session only if the replica left a message of it for an interval: in
\* every other session the lease is renewed before it is over.
THEOREM WatchdogIsHonest == Spec => WatchdogHonest
<1>1. Inv => (control = "open" /\ lease = 0 => ignored)
  BY ControlAssumption DEF Inv, Attended, Answered
<1>2. Inv /\ [Next]_vars => [control = "open" /\ lease = 0 /\ lease' = -1 => ignored]_ctlVars
  BY <1>1
<1>. QED  BY <1>2, Invariance, PTL DEF Spec, WatchdogHonest

=============================================================================
