------------------------- MODULE TailnetStepProofs -------------------------
(***************************************************************************)
(* Proofs about the tailnet: a leg that reads an undisturbed map stream    *)
(* was told what the registry holds, and while the registry forgets nobody *)
(* a leg keeps the tunnels to the peers it has met.                        *)
(***************************************************************************)
EXTENDS Tailnet, TLAPS

(* Every leaf that names no prover is tried by the SMT translation, by it   *)
(* once more, and by Zenon.                                                *)
USE SMTT(10), Z3T(10), Zenon

-----------------------------------------------------------------------------
(* What a stream still owes its leg.                                       *)

IsSeq(q) == \E S : q \in Seq(S)

\* What the registry ns holds of node n, and what a leg with snapshot sn was told of it.
Held(ns, n) == IF n \in DOMAIN ns THEN {[key |-> ns[n].key, routes |-> ns[n].approved]} ELSE {}
Heard(sn, n) == IF n \in DOMAIN sn THEN {Gist(sn[n])} ELSE {}

\* The registry ns2 is ns but for node x.
SameIds(ns, ns2) == DOMAIN ns2 = DOMAIN ns
ElseSame(ns, ns2, x) == \A n : n # x => Held(ns2, n) = Held(ns, n)

\* A frame speaks of n, and what it says of it.
Speaks(f, n) == f.full \/ n \in DOMAIN f.peers \cup f.removed
Says(f, n) == IF n \in DOMAIN f.peers /\ (f.full \/ n \notin f.removed) THEN {Gist(f.peers[n])} ELSE {}

\* A leg that was told before of n will have been told after once it has read the frames out.
Leaves(out, n, before, after) ==
    /\ (\A k \in DOMAIN out : ~Speaks(out[k], n)) => before = after
    /\ \A k \in DOMAIN out :
         Speaks(out[k], n) /\ (\A j \in DOMAIN out : j > k => ~Speaks(out[j], n)) => Says(out[k], n) = after

Awaits(queue, n) == \E k \in DOMAIN queue : queue[k].nid = n

\* The events queued: a node removed is not known again, and a node that is gone has an event to say so.
Orderly(queue, ids, next) ==
    \A k \in DOMAIN queue :
      IF queue[k].removed
      THEN queue[k].nid \in Nat /\ queue[k].nid < next /\ queue[k].nid \notin ids
      ELSE queue[k].nid \in ids \/ \E j \in DOMAIN queue : j > k /\ queue[j].nid = queue[k].nid

\* Of every node about which nothing is queued, the frames of s leave its leg with what the registry holds.
UpToDate(s, sn, ns) ==
    s.phase \in {"sent", "live"} /\ ~s.lagged =>
      \A n : n \notin s.missed /\ n # s.nid /\ ~Awaits(s.queue, n) => Leaves(s.out, n, Heard(sn, n), Held(ns, n))

IsEntry(e) == e = [machine |-> e.machine, key |-> e.key, announced |-> e.announced, approved |-> e.approved,
                   endpoints |-> e.endpoints, online |-> e.online]
IsProcess(l) == l = [key |-> l.key, phase |-> l.phase, control |-> l.control, broken |-> l.broken, stream |-> l.stream,
                     torn |-> l.torn, todo |-> l.todo, snapshot |-> l.snapshot, engine |-> l.engine, exits |-> l.exits,
                     adv |-> l.adv, poke |-> l.poke, derp |-> l.derp, preferred |-> l.preferred, lost |-> l.lost]
IsStream(s) == s = [leg |-> s.leg, nid |-> s.nid, phase |-> s.phase, request |-> s.request, dead |-> s.dead,
                    queue |-> s.queue, lagged |-> s.lagged, out |-> s.out, missed |-> s.missed]

RegistryOK(ns, next) ==
    /\ next \in Nat
    /\ \A n \in DOMAIN ns : n \in Nat /\ n < next /\ IsEntry(ns[n])

StreamOK(s, ids, next) ==
    /\ IsStream(s) /\ s.leg \in Legs /\ IsSeq(s.queue) /\ IsSeq(s.out)
    /\ s.phase \in {"map", "poll", "sent"} => s.queue = <<>>
    /\ s.phase = "live" => Orderly(s.queue, ids, next)

StreamsOK(ss, ids, next) ==
    /\ IsFiniteSet(DOMAIN ss)
    /\ \A i \in DOMAIN ss : i \in Nat \ {0} /\ StreamOK(ss[i], ids, next)

\* There is an id left for one more stream, and the sequence q lists the set S without repetition.
Spare(D) == Cardinality(D) \in Nat /\ \E i \in 1..Cardinality(D) + 1 : i \notin D
Lists(q, S) ==
    /\ IsFiniteSet(DOMAIN q) /\ Len(q) \in Nat /\ DOMAIN q = 1..Len(q)
    /\ (\A k \in DOMAIN q : q[k] \in S) /\ (\A c \in S : \E k \in DOMAIN q : q[k] = c)
    /\ \A j, k \in DOMAIN q : q[j] = q[k] => j = k

\* A stream stays what it is and as up to date as it was, while the registry becomes ns2.
Follows(s, t, ns, ns2) ==
    /\ t.leg = s.leg /\ t.nid = s.nid /\ t.phase = s.phase /\ t.dead = s.dead
    /\ \A sn : UpToDate(s, sn, ns) => UpToDate(t, sn, ns2)

AllFollow(ss, tt, ns, ns2, next) ==
    /\ StreamsOK(tt, DOMAIN ns2, next) /\ DOMAIN tt = DOMAIN ss
    /\ \A i \in DOMAIN ss : Follows(ss[i], tt[i], ns, ns2)

\* A leg's routes are those of its snapshot; its stream is its own, and was ended by nobody else.
Routed(l) == l.engine = RoutesOf(l.snapshot) /\ l.exits = ExitsOf(l.snapshot)
Owns(c, i, ss) == i # 0 => i \in DOMAIN ss /\ ss[i].leg = c /\ (ss[i].dead => ss[i].phase = "panicked")
LegOK(c, l, ss, ns) ==
    /\ IsProcess(l) /\ Routed(l) /\ Owns(c, l.stream, ss)
    /\ l.stream # 0 /\ ~l.torn /\ ~ss[l.stream].dead => UpToDate(ss[l.stream], l.snapshot, ns)

Inv ==
    /\ env.cap \in Nat \ {0}
    /\ RegistryOK(nodes, nextId)
    /\ StreamsOK(streams, DOMAIN nodes, nextId)
    /\ DOMAIN leg = Legs
    /\ \A c \in Legs : LegOK(c, leg[c], streams, nodes)

-----------------------------------------------------------------------------
(* Frames and events in order.                                             *)

\* Finite sets: the empty one, a subset, one element more.
LEMMA EmptyFinite == IsFiniteSet({})
<1>1. <<>> \in Seq({}) /\ \A x \in {} : \E n \in 1..Len(<<>>) : <<>>[n] = x
  OBVIOUS
<1>. QED  BY <1>1, Zenon DEF IsFiniteSet

LEMMA FiniteSubset ==
    ASSUME NEW S, IsFiniteSet(S), NEW T \in SUBSET S
    PROVE  IsFiniteSet(T)
<1>1. CASE T = {}
  BY <1>1, EmptyFinite
<1>2. CASE T # {}
  <2>1. PICK q \in Seq(S) : \A x \in S : \E n \in 1..Len(q) : q[n] = x
    BY DEF IsFiniteSet
  <2>2. PICK t \in T : TRUE
    BY <1>2
  <2>3. PICK r : r = [n \in 1..Len(q) |-> IF q[n] \in T THEN q[n] ELSE t]
    BY Zenon
  <2>4. r \in Seq(T) /\ Len(r) = Len(q)
    BY <2>1, <2>3
  <2>5. ASSUME NEW x \in T PROVE \E n \in 1..Len(r) : r[n] = x
    <3>1. PICK n \in 1..Len(q) : q[n] = x
      BY <2>1
    <3>. QED  BY <2>3, <2>4, <3>1
  <2>. QED  BY <2>4, <2>5 DEF IsFiniteSet
<1>. QED  BY <1>1, <1>2

LEMMA FiniteAdd ==
    ASSUME NEW S, IsFiniteSet(S), NEW y
    PROVE  IsFiniteSet(S \cup {y})
<1>1. PICK q \in Seq(S) : \A x \in S : \E n \in 1..Len(q) : q[n] = x
  BY DEF IsFiniteSet
<1>2. PICK r : r = Append(q, y)
  BY Zenon
<1>3. r \in Seq(S \cup {y}) /\ Len(r) = Len(q) + 1 /\ r[Len(q) + 1] = y /\ \A n \in 1..Len(q) : r[n] = q[n]
  <2>1. q \in Seq(S \cup {y})
    BY <1>1
  <2>. QED  BY <1>1, <1>2, <2>1
<1>4. ASSUME NEW x \in S PROVE \E n \in 1..Len(r) : r[n] = x
  <2>1. PICK n \in 1..Len(q) : q[n] = x
    BY <1>1
  <2>2. n \in 1..Len(r) /\ r[n] = x
    BY <1>1, <1>3, <2>1
  <2>. QED  BY <2>2
<1>5. Len(q) + 1 \in 1..Len(r)
  BY <1>1, <1>3
<1>. QED  BY <1>3, <1>4, <1>5, Zenon DEF IsFiniteSet

\* The empty sequence.
LEMMA EmptySeq == IsSeq(<<>>) /\ DOMAIN <<>> = {}
<1>1. <<>> \in Seq({})
  OBVIOUS
<1>. QED  BY <1>1, SMT DEF IsSeq

\* One more at the end.
LEMMA AppendSeq ==
    ASSUME NEW q, IsSeq(q), NEW x, NEW c, c = Append(q, x)
    PROVE  /\ IsSeq(c) /\ Len(q) \in Nat
           /\ DOMAIN q = 1..Len(q) /\ DOMAIN c = 1..(Len(q) + 1)
           /\ c[Len(q) + 1] = x /\ \A k \in 1..Len(q) : c[k] = q[k]
<1>1. PICK S : q \in Seq(S)
  BY DEF IsSeq
<1>2. q \in Seq(S \cup {x}) /\ x \in S \cup {x}
  BY <1>1
<1>3. c \in Seq(S \cup {x}) /\ Len(c) = Len(q) + 1 /\ Len(q) \in Nat /\ c[Len(q) + 1] = x
      /\ \A k \in 1..Len(q) : c[k] = q[k]
  BY <1>2
<1>4. DOMAIN q = 1..Len(q) /\ DOMAIN c = 1..(Len(q) + 1)
  BY <1>2, <1>3
<1>. QED  BY <1>3, <1>4 DEF IsSeq

\* The first is taken.
LEMMA TailSeq ==
    ASSUME NEW q, IsSeq(q), q # <<>>, NEW c, c = Tail(q)
    PROVE  /\ IsSeq(c) /\ Len(q) \in Nat \ {0}
           /\ DOMAIN q = 1..Len(q) /\ DOMAIN c = 1..(Len(q) - 1)
           /\ Head(q) = q[1] /\ \A k \in 1..(Len(q) - 1) : c[k] = q[k + 1]
<1>1. PICK S : q \in Seq(S)
  BY DEF IsSeq
<1>2. /\ c \in Seq(S) /\ Len(q) \in Nat \ {0} /\ Len(c) = Len(q) - 1 /\ Head(q) = q[1]
      /\ \A k \in 1..Len(c) : c[k] = q[k + 1]
  BY <1>1
<1>3. DOMAIN q = 1..Len(q) /\ DOMAIN c = 1..Len(c)
  BY <1>1, <1>2
<1>. QED  BY <1>2, <1>3 DEF IsSeq

\* A frame that speaks of n settles what the leg is told; another one changes nothing.
LEMMA LeavesAppend ==
    ASSUME NEW q, IsSeq(q), NEW f, NEW c, c = Append(q, f), NEW n, NEW b, NEW a,
           IF Speaks(f, n) THEN Says(f, n) = a ELSE Leaves(q, n, b, a)
    PROVE  Leaves(c, n, b, a)
<1>1. /\ Len(q) \in Nat /\ DOMAIN q = 1..Len(q) /\ DOMAIN c = 1..(Len(q) + 1)
      /\ c[Len(q) + 1] = f /\ \A k \in 1..Len(q) : c[k] = q[k]
  BY AppendSeq
<1>2. ASSUME \A k \in DOMAIN c : ~Speaks(c[k], n) PROVE b = a
  <2>1. ~Speaks(f, n) /\ \A k \in DOMAIN q : ~Speaks(q[k], n)
    BY <1>1, <1>2
  <2>. QED  BY <2>1 DEF Leaves
<1>3. ASSUME NEW k \in DOMAIN c, Speaks(c[k], n), \A j \in DOMAIN c : j > k => ~Speaks(c[j], n)
      PROVE  Says(c[k], n) = a
  <2>1. CASE k = Len(q) + 1
    BY <1>1, <1>3, <2>1
  <2>2. CASE k # Len(q) + 1
    <3>1. k \in DOMAIN q /\ c[k] = q[k] /\ Len(q) + 1 > k /\ Len(q) + 1 \in DOMAIN c
      BY <1>1, <2>2
    <3>2. ~Speaks(f, n)
      BY <1>1, <1>3, <3>1
    <3>3. \A j \in DOMAIN q : j > k => ~Speaks(q[j], n)
      BY <1>1, <1>3
    <3>. QED  BY <1>3, <3>1, <3>2, <3>3 DEF Leaves
  <2>. QED  BY <2>1, <2>2
<1>. QED  BY <1>2, <1>3 DEF Leaves

\* The leg reads a frame.
LEMMA LeavesTail ==
    ASSUME NEW q, IsSeq(q), q # <<>>, NEW c, c = Tail(q), NEW n, NEW b, NEW a, Leaves(q, n, b, a),
           NEW t, t = IF Speaks(Head(q), n) THEN Says(Head(q), n) ELSE b
    PROVE  Leaves(c, n, t, a)
<1>1. /\ Len(q) \in Nat \ {0} /\ DOMAIN q = 1..Len(q) /\ DOMAIN c = 1..(Len(q) - 1)
      /\ Head(q) = q[1] /\ \A k \in 1..(Len(q) - 1) : c[k] = q[k + 1]
  BY TailSeq
<1>2. \A j \in DOMAIN q : j > 1 => j - 1 \in DOMAIN c /\ q[j] = c[j - 1]
  BY <1>1
<1>3. ASSUME \A k \in DOMAIN c : ~Speaks(c[k], n) PROVE t = a
  <2>1. \A j \in DOMAIN q : j > 1 => ~Speaks(q[j], n)
    BY <1>2, <1>3
  <2>2. CASE Speaks(q[1], n)
    <3>1. 1 \in DOMAIN q
      BY <1>1
    <3>. QED  BY <1>1, <2>1, <2>2, <3>1 DEF Leaves
  <2>3. CASE ~Speaks(q[1], n)
    <3>1. \A j \in DOMAIN q : ~Speaks(q[j], n)
      BY <1>1, <2>1, <2>3
    <3>. QED  BY <1>1, <2>3, <3>1 DEF Leaves
  <2>. QED  BY <2>2, <2>3
<1>4. ASSUME NEW k \in DOMAIN c, Speaks(c[k], n), \A j \in DOMAIN c : j > k => ~Speaks(c[j], n)
      PROVE  Says(c[k], n) = a
  <2>1. k + 1 \in DOMAIN q /\ q[k + 1] = c[k]
    BY <1>1
  <2>2. ASSUME NEW j \in DOMAIN q, j > k + 1 PROVE ~Speaks(q[j], n)
    <3>1. j > 1 /\ j - 1 > k
      BY <1>1, <2>2
    <3>. QED  BY <1>2, <1>4, <3>1
  <2>. QED  BY <1>4, <2>1, <2>2 DEF Leaves
<1>. QED  BY <1>3, <1>4 DEF Leaves

\* An event is queued.
LEMMA AwaitsAppend ==
    ASSUME NEW q, IsSeq(q), NEW e, NEW c, c = Append(q, e), NEW n
    PROVE  Awaits(c, n) <=> Awaits(q, n) \/ e.nid = n
<1>1. /\ Len(q) \in Nat /\ DOMAIN q = 1..Len(q) /\ DOMAIN c = 1..(Len(q) + 1)
      /\ c[Len(q) + 1] = e /\ \A k \in 1..Len(q) : c[k] = q[k]
  BY AppendSeq
<1>2. ASSUME Awaits(c, n) PROVE Awaits(q, n) \/ e.nid = n
  BY <1>1, <1>2 DEF Awaits
<1>3. ASSUME Awaits(q, n) \/ e.nid = n PROVE Awaits(c, n)
  <2>1. Len(q) + 1 \in DOMAIN c /\ \A k \in DOMAIN q : k \in DOMAIN c /\ c[k] = q[k]
    BY <1>1
  <2>. QED  BY <1>1, <1>3, <2>1 DEF Awaits
<1>. QED  BY <1>2, <1>3

\* An event is taken.
LEMMA AwaitsTail ==
    ASSUME NEW q, IsSeq(q), q # <<>>, NEW c, c = Tail(q), NEW n, Awaits(q, n), Head(q).nid # n
    PROVE  Awaits(c, n)
<1>1. /\ Len(q) \in Nat \ {0} /\ DOMAIN q = 1..Len(q) /\ DOMAIN c = 1..(Len(q) - 1)
      /\ Head(q) = q[1] /\ \A k \in 1..(Len(q) - 1) : c[k] = q[k + 1]
  BY TailSeq
<1>2. PICK k \in DOMAIN q : q[k].nid = n
  BY DEF Awaits
<1>3. k > 1 /\ k - 1 \in DOMAIN c /\ c[k - 1] = q[k]
  BY <1>1, <1>2
<1>. QED  BY <1>2, <1>3 DEF Awaits

\* Taking an event leaves the others in order.
LEMMA OrderlyTail ==
    ASSUME NEW q, IsSeq(q), q # <<>>, NEW c, c = Tail(q), NEW ids, NEW next, Orderly(q, ids, next)
    PROVE  Orderly(c, ids, next)
<1>1. /\ Len(q) \in Nat \ {0} /\ DOMAIN q = 1..Len(q) /\ DOMAIN c = 1..(Len(q) - 1)
      /\ Head(q) = q[1] /\ \A k \in 1..(Len(q) - 1) : c[k] = q[k + 1]
  BY TailSeq
<1>. SUFFICES ASSUME NEW k \in DOMAIN c
              PROVE  IF c[k].removed
                     THEN c[k].nid \in Nat /\ c[k].nid < next /\ c[k].nid \notin ids
                     ELSE c[k].nid \in ids \/ \E j \in DOMAIN c : j > k /\ c[j].nid = c[k].nid
  BY DEF Orderly
<1>2. k + 1 \in DOMAIN q /\ c[k] = q[k + 1]
  BY <1>1
<1>3. CASE c[k].removed
  BY <1>2, <1>3 DEF Orderly
<1>4. CASE ~c[k].removed
  <2>1. CASE c[k].nid \in ids
    BY <1>4, <2>1
  <2>2. CASE c[k].nid \notin ids
    <3>1. PICK j \in DOMAIN q : j > k + 1 /\ q[j].nid = c[k].nid
      BY <1>2, <1>4, <2>2 DEF Orderly
    <3>2. j - 1 \in DOMAIN c /\ j - 1 > k /\ c[j - 1] = q[j]
      BY <1>1, <3>1
    <3>. QED  BY <1>4, <3>1, <3>2
  <2>. QED  BY <2>1, <2>2
<1>. QED  BY <1>3, <1>4

\* An event is queued when the ids change by that of its node alone, and by new ones.
LEMMA OrderlyAppend ==
    ASSUME NEW q, IsSeq(q), NEW e, NEW c, c = Append(q, e),
           NEW ids, NEW next \in Nat, Orderly(q, ids, next), NEW ids2, NEW next2 \in Nat, next <= next2,
           \A n : n # e.nid => (n \in ids2 <=> n \in ids),
           e.nid \in Nat, e.nid < next2, e.removed <=> e.nid \notin ids2,
           e.nid \in ids \/ e.nid = next
    PROVE  Orderly(c, ids2, next2)
<1>1. /\ Len(q) \in Nat /\ DOMAIN q = 1..Len(q) /\ DOMAIN c = 1..(Len(q) + 1)
      /\ c[Len(q) + 1] = e /\ \A k \in 1..Len(q) : c[k] = q[k]
  BY AppendSeq
<1>. SUFFICES ASSUME NEW k \in DOMAIN c
              PROVE  IF c[k].removed
                     THEN c[k].nid \in Nat /\ c[k].nid < next2 /\ c[k].nid \notin ids2
                     ELSE c[k].nid \in ids2 \/ \E j \in DOMAIN c : j > k /\ c[j].nid = c[k].nid
  BY DEF Orderly
<1>2. CASE k = Len(q) + 1
  BY <1>1, <1>2
<1>3. CASE k # Len(q) + 1
  <2>1. k \in DOMAIN q /\ c[k] = q[k] /\ Len(q) + 1 \in DOMAIN c /\ Len(q) + 1 > k
    BY <1>1, <1>3
  <2>2. CASE c[k].removed
    <3>1. c[k].nid \in Nat /\ c[k].nid < next /\ c[k].nid \notin ids
      BY <2>1, <2>2 DEF Orderly
    <3>2. c[k].nid # e.nid /\ c[k].nid < next2
      BY <3>1
    <3>. QED  BY <2>2, <3>1, <3>2
  <2>3. CASE ~c[k].removed
    <3>1. CASE c[k].nid = e.nid
      BY <1>1, <2>1, <2>3, <3>1
    <3>2. CASE c[k].nid # e.nid
      <4>1. c[k].nid \in ids \/ \E j \in DOMAIN q : j > k /\ q[j].nid = c[k].nid
        BY <2>1, <2>3 DEF Orderly
      <4>2. \A j \in DOMAIN q : j \in DOMAIN c /\ c[j] = q[j]
        BY <1>1
      <4>. QED  BY <2>3, <3>2, <4>1, <4>2
    <3>. QED  BY <3>1, <3>2
  <2>. QED  BY <2>2, <2>3
<1>. QED  BY <1>2, <1>3

-----------------------------------------------------------------------------
(* Tunnels.  A node that was told the present key of a leg keeps it: what is told later of the   *)
(* same node is not older.                                                                       *)

Keys(lg) == [c \in Legs |-> lg[c].key]

\* A key told of node n is one that its machine had; its present one is in the registry already.
Seen(n, key, ns, ky) ==
    /\ n \in DOMAIN ns /\ key = <<ns[n].machine, key[2]>>
    /\ key[2] \in Nat /\ key[2] <= ky[ns[n].machine][2]
    /\ key = ky[ns[n].machine] => ns[n].key = key

RegistryKept(ns, ky) ==
    /\ \A c \in Legs : ky[c] = <<c, ky[c][2]>> /\ ky[c][2] \in Nat
    /\ \A n \in DOMAIN ns : ns[n].machine \in Legs /\ Seen(n, ns[n].key, ns, ky)
    /\ \A m, n \in DOMAIN ns : ns[m].machine = ns[n].machine => m = n

\* Peers as leg c was told of them: other machines, with keys they had.
Views(vs, c, ns, ky) == \A n \in DOMAIN vs : Seen(n, vs[n].key, ns, ky) /\ ns[n].machine # c

\* The frame f confirms the present keys among the views vs.
Confirms(f, vs, ns, ky) ==
    \A n \in DOMAIN vs : vs[n].key = ky[ns[n].machine] =>
      (f.full => n \in DOMAIN f.peers) /\ (n \in DOMAIN f.peers => f.peers[n].key = vs[n].key)

OutKept(out, c, ns, ky) ==
    \A k \in DOMAIN out :
      /\ out[k].removed = {} /\ Views(out[k].peers, c, ns, ky)
      /\ \A j \in DOMAIN out : j < k => Confirms(out[k], out[j].peers, ns, ky)

NoRemovals(queue) == \A k \in DOMAIN queue : ~queue[k].removed

StreamKept(s, ns, ky) ==
    /\ s.nid \in DOMAIN ns /\ ns[s.nid].machine = s.leg
    /\ NoRemovals(s.queue) /\ OutKept(s.out, s.leg, ns, ky)

Linked(sn, out, ns, ky) == \A k \in DOMAIN out : Confirms(out[k], sn, ns, ky)

LegLinked(c, l, ss, ns, ky) ==
    Views(l.snapshot, c, ns, ky) /\ (l.stream # 0 => Linked(l.snapshot, ss[l.stream].out, ns, ky))

Kept(ns, ss, lg) ==
    /\ RegistryKept(ns, Keys(lg))
    /\ \A i \in DOMAIN ss : StreamKept(ss[i], ns, Keys(lg))
    /\ \A c \in Legs : LegLinked(c, lg[c], ss, ns, Keys(lg))

InvKept ==
    /\ used \in [Faults -> Nat]
    /\ used["wipe"] = 0 /\ used["evict"] = 0 => Kept(nodes, streams, leg)

\* The registry and the keys become ns2 and ky2: no node is lost, and a key that is present now was before.
Onward(ns, ky, ns2, ky2) ==
    \A n \in DOMAIN ns :
      /\ n \in DOMAIN ns2 /\ ns2[n].machine = ns[n].machine
      /\ \A key : Seen(n, key, ns, ky) =>
           Seen(n, key, ns2, ky2) /\ (key = ky2[ns2[n].machine] => key = ky[ns[n].machine])

\* A frame that tells what the registry holds, to the stream of node x.
Fresh(f, ns, x) ==
    /\ f.removed = {}
    /\ \A n \in DOMAIN f.peers : n \in DOMAIN ns /\ n # x /\ f.peers[n].key = ns[n].key
    /\ f.full => \A n \in DOMAIN ns : n # x => n \in DOMAIN f.peers

\* What a step does to the frames of a stream: nothing, one is read, one is sent, all are lost.
OutStep(p, q, ns, x) ==
    q = p \/ q = <<>> \/ (p # <<>> /\ q = Tail(p)) \/ \E f : Fresh(f, ns, x) /\ q = Append(p, f)

Heir(s, t, ns) ==
    /\ t.leg = s.leg /\ t.nid = s.nid
    /\ NoRemovals(s.queue) => NoRemovals(t.queue)
    /\ OutStep(s.out, t.out, ns, s.nid)

\* Views stay views.
LEMMA ViewsOn ==
    ASSUME NEW ns, NEW ky, NEW ns2, NEW ky2, Onward(ns, ky, ns2, ky2), NEW vs, NEW c, Views(vs, c, ns, ky)
    PROVE  Views(vs, c, ns2, ky2)
BY DEF Onward, Views, Seen

\* What was confirmed stays so.
LEMMA ConfirmsOn ==
    ASSUME NEW ns, NEW ky, NEW ns2, NEW ky2, Onward(ns, ky, ns2, ky2), NEW vs, NEW c, Views(vs, c, ns, ky),
           NEW f, Confirms(f, vs, ns, ky)
    PROVE  Confirms(f, vs, ns2, ky2)
<1>1. ASSUME NEW n \in DOMAIN vs, vs[n].key = ky2[ns2[n].machine] PROVE vs[n].key = ky[ns[n].machine]
  <2>1. Seen(n, vs[n].key, ns, ky) /\ n \in DOMAIN ns
    BY DEF Views, Seen
  <2>. QED  BY <1>1, <2>1 DEF Onward
<1>. QED  BY <1>1 DEF Confirms

\* The frames of a stream.
LEMMA OutOn ==
    ASSUME NEW ns, NEW ky, NEW ns2, NEW ky2, Onward(ns, ky, ns2, ky2), NEW out, NEW c, OutKept(out, c, ns, ky)
    PROVE  OutKept(out, c, ns2, ky2)
<1>1. ASSUME NEW k \in DOMAIN out
      PROVE  out[k].removed = {} /\ Views(out[k].peers, c, ns2, ky2)
  BY ViewsOn DEF OutKept
<1>2. ASSUME NEW k \in DOMAIN out, NEW j \in DOMAIN out, j < k
      PROVE  Confirms(out[k], out[j].peers, ns2, ky2)
  <2>1. Views(out[j].peers, c, ns, ky) /\ Confirms(out[k], out[j].peers, ns, ky)
    BY <1>2 DEF OutKept
  <2>. QED  BY <2>1, ConfirmsOn
<1>. QED  BY <1>1, <1>2 DEF OutKept

\* A snapshot and the frames after it.
LEMMA LinkedOn ==
    ASSUME NEW ns, NEW ky, NEW ns2, NEW ky2, Onward(ns, ky, ns2, ky2), NEW sn, NEW c, Views(sn, c, ns, ky),
           NEW out, Linked(sn, out, ns, ky)
    PROVE  Linked(sn, out, ns2, ky2)
BY ConfirmsOn DEF Linked

\* A frame made of the registry.
LEMMA FreshKept ==
    ASSUME NEW ns, NEW ky, RegistryKept(ns, ky), NEW x \in DOMAIN ns, NEW c, ns[x].machine = c,
           NEW f, Fresh(f, ns, x)
    PROVE  /\ Views(f.peers, c, ns, ky)
           /\ \A vs : Views(vs, c, ns, ky) => Confirms(f, vs, ns, ky)
<1>1. \A n \in DOMAIN ns : Seen(n, ns[n].key, ns, ky) /\ (ns[n].machine = c => n = x)
  BY DEF RegistryKept
<1>2. \A n \in DOMAIN f.peers : n \in DOMAIN ns /\ n # x /\ f.peers[n].key = ns[n].key
  BY DEF Fresh
<1>3. Views(f.peers, c, ns, ky)
  BY <1>1, <1>2 DEF Views
<1>4. ASSUME NEW vs, Views(vs, c, ns, ky), NEW n \in DOMAIN vs, vs[n].key = ky[ns[n].machine]
      PROVE  (f.full => n \in DOMAIN f.peers) /\ (n \in DOMAIN f.peers => f.peers[n].key = vs[n].key)
  <2>1. n \in DOMAIN ns /\ ns[n].machine # c /\ ns[n].key = vs[n].key
    BY <1>4 DEF Views, Seen
  <2>. QED  BY <1>2, <2>1 DEF Fresh
<1>. QED  BY <1>3, <1>4 DEF Confirms

\* The frames after a step, and a snapshot before them.
LEMMA OutStepKept ==
    ASSUME NEW ns, NEW ky, RegistryKept(ns, ky), NEW x \in DOMAIN ns, NEW c, ns[x].machine = c,
           NEW p, IsSeq(p), OutKept(p, c, ns, ky), NEW q, OutStep(p, q, ns, x)
    PROVE  /\ OutKept(q, c, ns, ky)
           /\ \A sn : Views(sn, c, ns, ky) /\ Linked(sn, p, ns, ky) => Linked(sn, q, ns, ky)
<1>1. CASE q = p
  BY <1>1
<1>2. CASE q = <<>>
  BY <1>2, EmptySeq DEF OutKept, Linked
<1>3. CASE p # <<>> /\ q = Tail(p)
  <2>1. Len(p) \in Nat \ {0} /\ DOMAIN p = 1..Len(p) /\ DOMAIN q = 1..(Len(p) - 1)
        /\ \A k \in 1..(Len(p) - 1) : q[k] = p[k + 1]
    BY <1>3, TailSeq
  <2>2. ASSUME NEW k \in DOMAIN q PROVE k + 1 \in DOMAIN p /\ q[k] = p[k + 1]
    BY <2>1
  <2>3. ASSUME NEW k \in DOMAIN q, NEW j \in DOMAIN q, j < k PROVE j + 1 < k + 1
    BY <2>1, <2>3
  <2>. QED  BY <2>2, <2>3 DEF OutKept, Linked
<1>4. ASSUME NEW f, Fresh(f, ns, x), q = Append(p, f)
      PROVE  /\ OutKept(q, c, ns, ky)
             /\ \A sn : Views(sn, c, ns, ky) /\ Linked(sn, p, ns, ky) => Linked(sn, q, ns, ky)
  <2>1. Len(p) \in Nat /\ DOMAIN p = 1..Len(p) /\ DOMAIN q = 1..(Len(p) + 1)
        /\ q[Len(p) + 1] = f /\ \A k \in 1..Len(p) : q[k] = p[k]
    BY <1>4, AppendSeq
  <2>2. ASSUME NEW k \in DOMAIN q PROVE (k \in DOMAIN p /\ q[k] = p[k]) \/ (k = Len(p) + 1 /\ q[k] = f)
    BY <2>1
  <2>3. ASSUME NEW k \in DOMAIN q, NEW j \in DOMAIN q, j < k PROVE j \in DOMAIN p /\ q[j] = p[j]
    BY <2>1, <2>3
  <2>4. f.removed = {} /\ Views(f.peers, c, ns, ky) /\ \A vs : Views(vs, c, ns, ky) => Confirms(f, vs, ns, ky)
    BY <1>4, FreshKept DEF Fresh
  <2>5. ASSUME NEW k \in DOMAIN q
        PROVE  /\ q[k].removed = {} /\ Views(q[k].peers, c, ns, ky)
               /\ \A j \in DOMAIN q : j < k => Confirms(q[k], q[j].peers, ns, ky)
    <3>1. CASE k \in DOMAIN p /\ q[k] = p[k]
      BY <2>3, <3>1 DEF OutKept
    <3>2. CASE q[k] = f
      BY <2>3, <2>4, <3>2 DEF OutKept
    <3>. QED  BY <2>2, <3>1, <3>2
  <2>6. ASSUME NEW sn, Views(sn, c, ns, ky), Linked(sn, p, ns, ky), NEW k \in DOMAIN q
        PROVE  Confirms(q[k], sn, ns, ky)
    BY <2>2, <2>4, <2>6 DEF Linked
  <2>. QED  BY <2>5, <2>6 DEF OutKept, Linked
<1>. QED  BY <1>1, <1>2, <1>3, <1>4 DEF OutStep

\* A stream after a step, and a snapshot before it.
LEMMA HeirKept ==
    ASSUME NEW ns, NEW ky, NEW ns2, NEW ky2, Onward(ns, ky, ns2, ky2), RegistryKept(ns2, ky2),
           NEW s, StreamKept(s, ns, ky), IsSeq(s.out), NEW t, Heir(s, t, ns2)
    PROVE  /\ StreamKept(t, ns2, ky2)
           /\ \A sn : Views(sn, s.leg, ns, ky) /\ Linked(sn, s.out, ns, ky) => Linked(sn, t.out, ns2, ky2)
<1>1. PICK x, c, p, q : x = s.nid /\ c = s.leg /\ p = s.out /\ q = t.out
  OBVIOUS
<1>2. x \in DOMAIN ns /\ ns[x].machine = c /\ NoRemovals(s.queue) /\ OutKept(p, c, ns, ky)
  BY <1>1 DEF StreamKept
<1>3. x \in DOMAIN ns2 /\ ns2[x].machine = c
  BY <1>2 DEF Onward
<1>4. OutKept(p, c, ns2, ky2)
  BY <1>2, OutOn
<1>5. OutStep(p, q, ns2, x) /\ t.leg = c /\ t.nid = x /\ NoRemovals(t.queue) /\ IsSeq(p)
  BY <1>1, <1>2 DEF Heir
<1>6. /\ OutKept(q, c, ns2, ky2)
      /\ \A sn : Views(sn, c, ns2, ky2) /\ Linked(sn, p, ns2, ky2) => Linked(sn, q, ns2, ky2)
  BY <1>3, <1>4, <1>5, OutStepKept
<1>7. StreamKept(t, ns2, ky2)
  BY <1>1, <1>3, <1>5, <1>6 DEF StreamKept
<1>8. ASSUME NEW sn, Views(sn, c, ns, ky), Linked(sn, p, ns, ky) PROVE Linked(sn, q, ns2, ky2)
  BY <1>6, <1>8, ViewsOn, LinkedOn
<1>. QED  BY <1>1, <1>7, <1>8

\* The streams after a step: those of before, and new ones.
Opened(t, ns) == t.nid \in DOMAIN ns /\ ns[t.nid].machine = t.leg /\ t.queue = <<>> /\ t.out = <<>>
Inherited(ss, tt, ns) == \A j \in DOMAIN tt : (j \in DOMAIN ss /\ Heir(ss[j], tt[j], ns)) \/ Opened(tt[j], ns)

\* A leg after a step that reads no frame: it keeps its snapshot, or it is a new process.
Carries(l, k, tt) ==
    \/ k.snapshot = l.snapshot /\ (k.stream = l.stream \/ k.stream = 0 \/ tt[k.stream].out = <<>>)
    \/ k.snapshot = <<>> /\ k.stream = 0

InOrder == Kept(nodes, streams, leg)

\* No snapshot, nothing to confirm.
LEMMA NothingSeen ==
    ASSUME NEW c, NEW ns, NEW ky
    PROVE  Views(<<>>, c, ns, ky) /\ OutKept(<<>>, c, ns, ky) /\ NoRemovals(<<>>)
BY EmptySeq DEF Views, OutKept, NoRemovals

\* No frame, nothing confirmed.
LEMMA NothingLinked ==
    ASSUME NEW sn, NEW ns, NEW ky, NEW out, out = <<>>
    PROVE  Linked(sn, out, ns, ky)
BY EmptySeq DEF Linked

\* The streams.
LEMMA StreamsKept ==
    ASSUME NEW ns, NEW ky, NEW ns2, NEW ky2, Onward(ns, ky, ns2, ky2), RegistryKept(ns2, ky2),
           NEW ss, \A i \in DOMAIN ss : StreamKept(ss[i], ns, ky) /\ IsSeq(ss[i].out),
           NEW tt, Inherited(ss, tt, ns2), NEW j \in DOMAIN tt
    PROVE  StreamKept(tt[j], ns2, ky2)
<1>1. CASE j \in DOMAIN ss /\ Heir(ss[j], tt[j], ns2)
  BY <1>1, HeirKept
<1>2. CASE Opened(tt[j], ns2)
  <2>1. tt[j].queue = <<>> /\ tt[j].out = <<>>
    BY <1>2 DEF Opened
  <2>. QED  BY <1>2, <2>1, NothingSeen DEF Opened, StreamKept
<1>. QED  BY <1>1, <1>2 DEF Inherited

\* A leg.
LEMMA LegCarried ==
    ASSUME NEW ns, NEW ky, NEW ns2, NEW ky2, Onward(ns, ky, ns2, ky2), RegistryKept(ns2, ky2),
           NEW ss, \A i \in DOMAIN ss : StreamKept(ss[i], ns, ky) /\ IsSeq(ss[i].out),
           NEW tt, Inherited(ss, tt, ns2),
           NEW c, NEW l, LegLinked(c, l, ss, ns, ky), Owns(c, l.stream, ss),
           NEW k, Carries(l, k, tt), Owns(c, k.stream, tt)
    PROVE  LegLinked(c, k, tt, ns2, ky2)
<1>1. CASE k.snapshot = <<>> /\ k.stream = 0
  BY <1>1, NothingSeen DEF LegLinked
<1>2. CASE k.snapshot = l.snapshot
  <2>1. PICK sn, i : sn = l.snapshot /\ i = k.stream
    OBVIOUS
  <2>2. Views(sn, c, ns, ky) /\ Views(sn, c, ns2, ky2)
    BY <2>1, ViewsOn DEF LegLinked
  <2>3. CASE i # 0 /\ i = l.stream
    <3>1. i \in DOMAIN tt /\ i \in DOMAIN ss /\ ss[i].leg = c /\ Linked(sn, ss[i].out, ns, ky)
      BY <2>1, <2>3 DEF Owns, LegLinked
    <3>2. CASE Heir(ss[i], tt[i], ns2)
      <4>1. Linked(sn, tt[i].out, ns2, ky2)
        BY <2>2, <3>1, <3>2, HeirKept
      <4>. QED  BY <1>2, <2>1, <2>2, <4>1 DEF LegLinked
    <3>3. CASE Opened(tt[i], ns2)
      <4>1. Linked(sn, tt[i].out, ns2, ky2)
        BY <3>3, NothingLinked DEF Opened
      <4>. QED  BY <1>2, <2>1, <2>2, <4>1 DEF LegLinked
    <3>. QED  BY <3>1, <3>2, <3>3 DEF Inherited
  <2>4. CASE i # 0 /\ tt[i].out = <<>>
    <3>1. Linked(sn, tt[i].out, ns2, ky2)
      BY <2>4, NothingLinked
    <3>. QED  BY <1>2, <2>1, <2>2, <3>1 DEF LegLinked
  <2>5. CASE i = 0
    BY <1>2, <2>1, <2>2, <2>5 DEF LegLinked
  <2>6. CASE k.snapshot = <<>> /\ k.stream = 0
    BY <1>1, <2>6
  <2>. QED  BY <2>1, <2>3, <2>4, <2>5, <2>6 DEF Carries
<1>. QED  BY <1>1, <1>2 DEF Carries

-----------------------------------------------------------------------------
(* Events for the streams.                                                 *)

\* The events: x changed, x was removed.
Change(ss, x) == Publish(ss, x, FALSE)
Removal(ss, x) == Publish(ss, x, TRUE)

\* What Notify does, case by case.
LEMMA NotifyCases ==
    ASSUME NEW s, NEW e, NEW t, t = Notify(s, e)
    PROVE  /\ s.phase = "live" /\ Len(s.queue) < env.cap => t = [s EXCEPT !.queue = Append(s.queue, e)]
           /\ s.phase = "live" /\ ~(Len(s.queue) < env.cap) =>
                t = [s EXCEPT !.queue = Append(Tail(s.queue), e), !.lagged = TRUE]
           /\ s.phase = "sent" => t = [s EXCEPT !.missed = s.missed \cup {e.nid}]
           /\ s.phase \notin {"sent", "live"} => t = s
<1>1. "live" # "sent"
  OBVIOUS
<1>. QED  BY <1>1, Zenon DEF Notify

\* A stream is told of the change of one node, and the registry changes in no other.
LEMMA NotifyOK ==
    ASSUME env.cap \in Nat \ {0},
           NEW s, NEW ids, NEW next \in Nat, StreamOK(s, ids, next),
           NEW e, NEW t, t = Notify(s, e), NEW ids2, NEW next2 \in Nat, next <= next2,
           \A n : n # e.nid => (n \in ids2 <=> n \in ids),
           e.nid \in Nat, e.nid < next2, e.removed <=> e.nid \notin ids2,
           e.nid \in ids \/ e.nid = next,
           NEW ns, NEW ns2, ElseSame(ns, ns2, e.nid)
    PROVE  StreamOK(t, ids2, next2) /\ Follows(s, t, ns, ns2)
<1>1. IsStream(s) /\ s.leg \in Legs /\ IsSeq(s.queue) /\ IsSeq(s.out)
  BY DEF StreamOK
<1>2. CASE s.phase = "live" /\ Len(s.queue) < env.cap
  <2>. DEFINE q == Append(s.queue, e)
  <2>1. t = [s EXCEPT !.queue = q]
    BY <1>2, NotifyCases, Zenon
  <2>2. /\ IsStream(t) /\ t.leg = s.leg /\ t.nid = s.nid /\ t.phase = "live" /\ t.dead = s.dead /\ t.queue = q
        /\ t.out = s.out /\ t.lagged = s.lagged /\ t.missed = s.missed
    BY <1>1, <1>2, <2>1, Zenon DEF IsStream
  <2>3. IsSeq(q)
    BY <1>1, AppendSeq, Zenon
  <2>4. Orderly(q, ids2, next2)
    BY <1>1, <1>2, OrderlyAppend, Zenon DEF StreamOK
  <2>5. \A n : Awaits(q, n) <=> Awaits(s.queue, n) \/ e.nid = n
    BY <1>1, AwaitsAppend, Zenon
  <2>. HIDE DEF q
  <2>6. StreamOK(t, ids2, next2)
    BY <1>1, <2>2, <2>3, <2>4 DEF StreamOK
  <2>7. ASSUME NEW sn, UpToDate(s, sn, ns) PROVE UpToDate(t, sn, ns2)
    BY <1>2, <2>2, <2>5, <2>7 DEF UpToDate, ElseSame
  <2>. QED  BY <1>2, <2>2, <2>6, <2>7 DEF Follows
<1>3. CASE s.phase = "live" /\ ~(Len(s.queue) < env.cap)
  <2>. DEFINE p == Tail(s.queue)
              q == Append(p, e)
  <2>1. t = [s EXCEPT !.queue = q, !.lagged = TRUE]
    BY <1>3, NotifyCases, Zenon
  <2>2. /\ IsStream(t) /\ t.leg = s.leg /\ t.nid = s.nid /\ t.phase = "live" /\ t.dead = s.dead /\ t.queue = q
        /\ t.out = s.out /\ t.lagged
    BY <1>1, <1>3, <2>1, Zenon DEF IsStream
  <2>3. s.queue # <<>>
    BY <1>3
  <2>4. IsSeq(p) /\ Orderly(p, ids, next)
    BY <1>1, <1>3, <2>3, TailSeq, OrderlyTail, Zenon DEF StreamOK
  <2>5. IsSeq(q)
    BY <2>4, AppendSeq, Zenon
  <2>6. Orderly(q, ids2, next2)
    BY <2>4, OrderlyAppend, Zenon
  <2>. HIDE DEF p, q
  <2>7. StreamOK(t, ids2, next2)
    BY <1>1, <2>2, <2>5, <2>6 DEF StreamOK
  <2>8. \A sn : UpToDate(t, sn, ns2)
    BY <2>2 DEF UpToDate
  <2>. QED  BY <1>3, <2>2, <2>7, <2>8 DEF Follows
<1>4. CASE s.phase = "sent"
  <2>1. t = [s EXCEPT !.missed = s.missed \cup {e.nid}]
    BY <1>4, NotifyCases, Zenon
  <2>2. /\ IsStream(t) /\ t.leg = s.leg /\ t.nid = s.nid /\ t.phase = "sent" /\ t.dead = s.dead /\ t.queue = s.queue
        /\ t.out = s.out /\ t.lagged = s.lagged /\ t.missed = s.missed \cup {e.nid}
    BY <1>1, <1>4, <2>1 DEF IsStream
  <2>3. StreamOK(t, ids2, next2)
    BY <1>1, <1>4, <2>2 DEF StreamOK
  <2>4. ASSUME NEW sn, UpToDate(s, sn, ns) PROVE UpToDate(t, sn, ns2)
    BY <1>4, <2>2, <2>4 DEF UpToDate, ElseSame
  <2>. QED  BY <1>4, <2>2, <2>3, <2>4 DEF Follows
<1>5. CASE s.phase \notin {"sent", "live"}
  <2>1. t = s
    BY <1>5, NotifyCases, Zenon
  <2>2. StreamOK(t, ids2, next2)
    BY <1>5, <2>1 DEF StreamOK
  <2>3. \A sn : UpToDate(t, sn, ns2)
    BY <1>5, <2>1 DEF UpToDate
  <2>. QED  BY <2>1, <2>2, <2>3 DEF Follows
<1>. QED  BY <1>2, <1>3, <1>4, <1>5

\* What is held of a node tells whether it is known.
LEMMA HeldKnown ==
    ASSUME NEW ns, NEW ns2, NEW n, Held(ns2, n) = Held(ns, n)
    PROVE  n \in DOMAIN ns2 <=> n \in DOMAIN ns
BY Zenon DEF Held

\* Every stream is told of the change of node x.
LEMMA PublishOK ==
    ASSUME env.cap \in Nat \ {0},
           NEW ns, NEW next, RegistryOK(ns, next), NEW ss, StreamsOK(ss, DOMAIN ns, next),
           NEW ns2, NEW next2, RegistryOK(ns2, next2), next <= next2,
           NEW x \in Nat, x < next2, x \in DOMAIN ns \/ x = next,
           ElseSame(ns, ns2, x),
           NEW tt, \/ x \in DOMAIN ns2 /\ tt = Change(ss, x)
                   \/ x \notin DOMAIN ns2 /\ tt = Removal(ss, x)
    PROVE  AllFollow(ss, tt, ns, ns2, next2)
<1>1. PICK e : /\ e.nid = x /\ (e.removed <=> x \notin DOMAIN ns2)
              /\ tt = [i \in DOMAIN ss |-> Notify(ss[i], e)]
  <2>1. CASE x \in DOMAIN ns2 /\ tt = Change(ss, x)
    <3>. WITNESS [nid |-> x, removed |-> FALSE]
    <3>. QED  BY <2>1 DEF Publish, Change
  <2>2. CASE x \notin DOMAIN ns2 /\ tt = Removal(ss, x)
    <3>. WITNESS [nid |-> x, removed |-> TRUE]
    <3>. QED  BY <2>2 DEF Publish, Removal
  <2>. QED  BY <2>1, <2>2
<1>2. DOMAIN tt = DOMAIN ss /\ \A i \in DOMAIN ss : tt[i] = Notify(ss[i], e)
  BY <1>1
<1>3. next \in Nat /\ next2 \in Nat
  BY DEF RegistryOK
<1>4. \A n : n # x => (n \in DOMAIN ns2 <=> n \in DOMAIN ns)
  BY HeldKnown DEF ElseSame
<1>5. ASSUME NEW i \in DOMAIN ss PROVE StreamOK(tt[i], DOMAIN ns2, next2) /\ Follows(ss[i], tt[i], ns, ns2)
  <2>1. StreamOK(ss[i], DOMAIN ns, next) /\ tt[i] = Notify(ss[i], e)
    BY <1>2 DEF StreamsOK
  <2>2. /\ e.nid \in Nat /\ e.nid < next2 /\ (e.removed <=> e.nid \notin DOMAIN ns2)
        /\ (e.nid \in DOMAIN ns \/ e.nid = next)
        /\ \A n : n # e.nid => (n \in DOMAIN ns2 <=> n \in DOMAIN ns)
        /\ ElseSame(ns, ns2, e.nid)
    BY <1>1, <1>4
  <2>. QED  BY <1>3, <2>1, <2>2, NotifyOK, Zenon
<1>. QED  BY <1>2, <1>5 DEF StreamsOK, AllFollow

\* A change that no peer is told of.
LEMMA QuietOK ==
    ASSUME NEW ns, NEW ns2, \A n : Held(ns2, n) = Held(ns, n), NEW s
    PROVE  Follows(s, s, ns, ns2)
BY DEF Follows, UpToDate

\* A leg whose stream follows the registry.
LEMMA LegFollows ==
    ASSUME NEW c, NEW l, NEW ss, NEW ns, LegOK(c, l, ss, ns), NEW k, NEW tt, NEW ns2,
           IsProcess(k), Routed(k), k.stream = l.stream, k.snapshot = l.snapshot, ~k.torn => ~l.torn,
           l.stream # 0 => l.stream \in DOMAIN tt /\ Follows(ss[l.stream], tt[l.stream], ns, ns2)
    PROVE  LegOK(c, k, tt, ns2)
<1>1. CASE l.stream = 0
  BY <1>1 DEF LegOK, Owns
<1>2. CASE l.stream # 0
  BY <1>2 DEF LegOK, Owns, Follows
<1>. QED  BY <1>1, <1>2

-----------------------------------------------------------------------------
(* Changes of the registry.                                                *)

\* What is held of a node follows from its key and its approved routes.
LEMMA SameHeld ==
    ASSUME NEW ns, NEW ns2, NEW n, n \in DOMAIN ns2 <=> n \in DOMAIN ns,
           n \in DOMAIN ns => ns2[n].key = ns[n].key /\ ns2[n].approved = ns[n].approved
    PROVE  Held(ns2, n) = Held(ns, n)
BY DEF Held

\* A node's entry is put or replaced.
LEMMA PutFacts ==
    ASSUME NEW ns, NEW x, NEW e, NEW ns2, ns2 = Put(ns, x, e)
    PROVE  /\ DOMAIN ns2 = DOMAIN ns \cup {x} /\ ns2[x] = e
           /\ ElseSame(ns, ns2, x)
           /\ \A n \in DOMAIN ns : n # x => ns2[n] = ns[n]
<1>1. /\ DOMAIN ns2 = DOMAIN ns \cup {x} /\ ns2[x] = e
      /\ \A n \in DOMAIN ns : n # x => ns2[n] = ns[n]
  BY DEF Put
<1>. QED  BY <1>1, SameHeld DEF ElseSame

\* A node's entry is removed.
LEMMA DropFacts ==
    ASSUME NEW ns, NEW x, NEW ns2, ns2 = Drop(ns, x)
    PROVE  /\ DOMAIN ns2 = DOMAIN ns \ {x}
           /\ ElseSame(ns, ns2, x)
           /\ \A n \in DOMAIN ns2 : ns2[n] = ns[n]
<1>1. /\ DOMAIN ns2 = DOMAIN ns \ {x} /\ \A n \in DOMAIN ns2 : ns2[n] = ns[n]
  BY DEF Drop
<1>. QED  BY <1>1, SameHeld DEF ElseSame

\* A node announces its routes: its key stays, the other nodes do.
LEMMA UpdatedFacts ==
    ASSUME NEW ns, NEW next, RegistryOK(ns, next), NEW x, NEW request, NEW ns2, ns2 = Updated(ns, x, request)
    PROVE  /\ RegistryOK(ns2, next) /\ DOMAIN ns2 = DOMAIN ns
           /\ ElseSame(ns, ns2, x)
           /\ x \in DOMAIN ns /\ ns2[x].approved = ns[x].approved => Held(ns2, x) = Held(ns, x)
<1>1. CASE x \notin DOMAIN ns
  <2>1. ns2 = ns
    BY <1>1 DEF Updated
  <2>. QED  BY <1>1, <2>1 DEF ElseSame
<1>2. CASE x \in DOMAIN ns
  <2>0. PICK d, p, r, a : /\ d = ns[x] /\ p = request.endpoints /\ r = request.routable
                          /\ a = IF ns[x].announced = r THEN ns[x].approved ELSE {y \in r : approves(y)}
    BY Zenon
  <2>7. PICK e : e = [d EXCEPT !.endpoints = p, !.online = TRUE, !.announced = r, !.approved = a]
    BY Zenon
  <2>1. ns2 = [ns EXCEPT ![x] = e]
    BY <1>2, <2>0, <2>7, Zenon DEF Updated, Announced
  <2>2. DOMAIN ns2 = DOMAIN ns /\ ns2[x] = e /\ \A n \in DOMAIN ns : n # x => ns2[n] = ns[n]
    BY <1>2, <2>1
  <2>3. IsEntry(d)
    BY <1>2, <2>0 DEF RegistryOK
  <2>4. IsEntry(e) /\ e.key = d.key
    BY <2>3, <2>7, Zenon DEF IsEntry
  <2>6. e.key = ns[x].key
    BY <2>0, <2>4
  <2>5. RegistryOK(ns2, next)
    BY <2>2, <2>4 DEF RegistryOK
  <2>. QED  BY <2>2, <2>6, <2>5, SameHeld DEF ElseSame
<1>. QED  BY <1>1, <1>2

\* A node is marked online or offline: no peer is told otherwise.
LEMMA MarkedFacts ==
    ASSUME NEW ns, NEW next, RegistryOK(ns, next), NEW x, NEW online, NEW ns2, ns2 = Marked(ns, x, online)
    PROVE  /\ RegistryOK(ns2, next) /\ DOMAIN ns2 = DOMAIN ns
           /\ \A n : Held(ns2, n) = Held(ns, n)
<1>1. CASE x \notin DOMAIN ns
  <2>1. ns2 = ns
    BY <1>1 DEF Marked
  <2>. QED  BY <2>1
<1>2. CASE x \in DOMAIN ns
  <2>. DEFINE e == [ns[x] EXCEPT !.online = online]
  <2>1. ns2 = [ns EXCEPT ![x] = e]
    BY <1>2, Zenon DEF Marked
  <2>2. DOMAIN ns2 = DOMAIN ns /\ ns2[x] = e /\ \A n \in DOMAIN ns : n # x => ns2[n] = ns[n]
    BY <1>2, <2>1
  <2>3. IsEntry(ns[x])
    BY <1>2 DEF RegistryOK
  <2>4. IsEntry(e) /\ e.key = ns[x].key /\ e.approved = ns[x].approved
    BY <2>3 DEF IsEntry
  <2>. HIDE DEF e
  <2>5. RegistryOK(ns2, next)
    BY <2>2, <2>4 DEF RegistryOK
  <2>. QED  BY <2>2, <2>4, <2>5, SameHeld
<1>. QED  BY <1>1, <1>2

\* The entry of x changes, and its peers are told unless nothing changes for them.
LEMMA AnnounceOK ==
    ASSUME env.cap \in Nat \ {0},
           NEW ns, NEW next, RegistryOK(ns, next), NEW ss, StreamsOK(ss, DOMAIN ns, next),
           NEW ns2, RegistryOK(ns2, next), SameIds(ns, ns2), NEW x,
           ElseSame(ns, ns2, x),
           NEW tt, \/ x \in DOMAIN ns /\ tt = Change(ss, x)
                   \/ tt = ss /\ Held(ns2, x) = Held(ns, x)
    PROVE  AllFollow(ss, tt, ns, ns2, next)
<1>1. CASE x \in DOMAIN ns /\ tt = Change(ss, x)
  <2>1. x \in Nat /\ x < next /\ next <= next
    BY <1>1 DEF RegistryOK
  <2>2. x \in DOMAIN ns2 /\ tt = Change(ss, x)
    BY <1>1 DEF SameIds
  <2>3. x \in DOMAIN ns \/ x = next
    BY <1>1
  <2>. HIDE <1>1
  <2>. QED  BY <2>1, <2>2, <2>3, PublishOK, Zenon
<1>2. CASE tt = ss /\ Held(ns2, x) = Held(ns, x)
  <2>1. \A n : Held(ns2, n) = Held(ns, n)
    BY <1>2 DEF ElseSame
  <2>. QED  BY <1>2, <2>1, QuietOK DEF SameIds, AllFollow
<1>. QED  BY <1>1, <1>2

-----------------------------------------------------------------------------
(* Steps.                                                                  *)

\* The registry changes, and the streams ss that the legs read follow it.
LEMMA RegistryStep ==
    ASSUME Inv, env' = env, RegistryOK(nodes', nextId'),
           NEW ss, AllFollow(ss, streams', nodes, nodes', nextId'),
           DOMAIN leg' = Legs, \A c \in Legs : LegOK(c, leg'[c], ss, nodes)
    PROVE  Inv'
<1>1. ASSUME NEW c \in Legs PROVE LegOK(c, leg'[c], streams', nodes')
  <2>1. PICK l, tt, ns2 : l = leg'[c] /\ tt = streams' /\ ns2 = nodes'
    OBVIOUS
  <2>2. LegOK(c, l, ss, nodes) /\ DOMAIN tt = DOMAIN ss /\ \A i \in DOMAIN ss : Follows(ss[i], tt[i], nodes, ns2)
    BY <2>1 DEF AllFollow
  <2>3. IsProcess(l) /\ Routed(l) /\ (l.stream # 0 => l.stream \in DOMAIN ss)
    BY <2>2 DEF LegOK, Owns
  <2>4. LegOK(c, l, tt, ns2)
    BY <2>2, <2>3, LegFollows
  <2>. QED  BY <2>1, <2>4
<1>. QED  BY <1>1 DEF Inv, AllFollow

\* evict: its peers are told that the node is gone.
LEMMA EvictInv ==
    ASSUME Inv, NEW c \in Legs, evict(c)
    PROVE  Inv'
<1>1. PICK n \in NodesOf(c) : nodes' = Drop(nodes, n) /\ streams' = Publish(streams, n, TRUE)
  BY Zenon DEF evict
<1>2. env' = env /\ nextId' = nextId /\ leg' = leg /\ n \in DOMAIN nodes
  BY DEF evict, NodesOf
<1>3. PICK ns2, tt : ns2 = Drop(nodes, n) /\ tt = Removal(streams, n) /\ nodes' = ns2 /\ streams' = tt
  BY <1>1, Zenon DEF Removal
<1>4. DOMAIN ns2 = DOMAIN nodes \ {n} /\ ElseSame(nodes, ns2, n) /\ \A m \in DOMAIN ns2 : ns2[m] = nodes[m]
  <2>1. ElseSame(nodes, ns2, n)
    BY <1>3, DropFacts, Zenon
  <2>. QED  BY <1>3, <2>1 DEF Drop
<1>5. env.cap \in Nat \ {0} /\ RegistryOK(nodes, nextId) /\ StreamsOK(streams, DOMAIN nodes, nextId)
  BY DEF Inv
<1>6. RegistryOK(ns2, nextId) /\ n \in Nat /\ n < nextId /\ nextId <= nextId /\ n \notin DOMAIN ns2
  BY <1>2, <1>4, <1>5 DEF RegistryOK
<1>7. AllFollow(streams, tt, nodes, ns2, nextId)
  <2>1. (n \in DOMAIN nodes \/ n = nextId) /\ (n \notin DOMAIN ns2 /\ tt = Removal(streams, n))
    BY <1>2, <1>3, <1>6
  <2>. QED  BY <1>4, <1>5, <1>6, <2>1, PublishOK, Zenon
<1>8. DOMAIN leg' = Legs /\ \A d \in Legs : LegOK(d, leg'[d], streams, nodes)
  BY <1>2 DEF Inv
<1>9. RegistryOK(nodes', nextId') /\ AllFollow(streams, streams', nodes, nodes', nextId')
  BY <1>2, <1>3, <1>6, <1>7, Zenon
<1>. QED  BY <1>2, <1>8, <1>9, RegistryStep

\* register: a node is added, or its key and routes are replaced, and its peers are told.
LEMMA RegisterFollowed ==
    ASSUME Inv, NEW c, NEW key, register(c, key)
    PROVE  RegistryOK(nodes', nextId') /\ AllFollow(streams, streams', nodes, nodes', nextId')
<1>1. PICK n, e :
        /\ n \in IF NodesOf(c) = {} THEN {nextId} ELSE NodesOf(c)
        /\ e = [machine |-> c, key |-> key, announced |-> {}, approved |-> {},
                endpoints |-> n \in DOMAIN nodes /\ nodes[n].endpoints, online |-> TRUE]
        /\ nodes' = Put(nodes, n, e)
        /\ nextId' = IF n = nextId THEN nextId + 1 ELSE nextId
        /\ streams' = Publish(streams, n, FALSE)
  BY Zenon DEF register
<1>2. env.cap \in Nat \ {0} /\ RegistryOK(nodes, nextId) /\ StreamsOK(streams, DOMAIN nodes, nextId)
  BY DEF Inv
<1>3. n \in DOMAIN nodes \/ n = nextId
  BY <1>1 DEF NodesOf
<1>4. PICK ns2, tt, next2 : /\ ns2 = Put(nodes, n, e) /\ tt = Change(streams, n)
                            /\ next2 = (IF n = nextId THEN nextId + 1 ELSE nextId)
                            /\ nodes' = ns2 /\ streams' = tt /\ nextId' = next2
  BY <1>1, Zenon DEF Change
<1>5. /\ DOMAIN ns2 = DOMAIN nodes \cup {n} /\ ns2[n] = e /\ ElseSame(nodes, ns2, n)
      /\ \A m \in DOMAIN nodes : m # n => ns2[m] = nodes[m]
  <2>1. ElseSame(nodes, ns2, n)
    BY <1>4, PutFacts, Zenon
  <2>. QED  BY <1>4, <2>1 DEF Put
<1>6. IsEntry(e)
  BY <1>1 DEF IsEntry
<1>7. next2 \in Nat /\ nextId <= next2 /\ n \in Nat /\ n < next2
  BY <1>2, <1>3, <1>4 DEF RegistryOK
<1>8. RegistryOK(ns2, next2)
  BY <1>2, <1>5, <1>6, <1>7 DEF RegistryOK
<1>9. AllFollow(streams, tt, nodes, ns2, next2)
  <2>1. n \in DOMAIN ns2 /\ tt = Change(streams, n)
    BY <1>4, <1>5
  <2>. QED  BY <1>2, <1>3, <1>5, <1>7, <1>8, <2>1, PublishOK, Zenon
<1>. QED  BY <1>4, <1>8, <1>9, Zenon

\* A leg goes on with its stream, its snapshot and its routes.
GoesOn(l, k) ==
    /\ IsProcess(k) /\ k.stream = l.stream /\ k.snapshot = l.snapshot /\ k.engine = l.engine /\ k.exits = l.exits
    /\ ~k.torn => ~l.torn

\* Such a leg is still in order.
LEMMA LegKept ==
    ASSUME NEW c, NEW l, NEW ss, NEW ns, LegOK(c, l, ss, ns), NEW k, GoesOn(l, k)
    PROVE  LegOK(c, k, ss, ns)
BY DEF LegOK, Routed, GoesOn

\* Establish: the machine registers.
LEMMA EstablishInv ==
    ASSUME Inv, NEW c \in Legs, Establish(c)
    PROVE  Inv'
<1>1. RegistryOK(nodes', nextId') /\ AllFollow(streams, streams', nodes, nodes', nextId')
  BY RegisterFollowed DEF Establish, handle_register
<1>2. PICK l, k : l = leg[c] /\ k = [l EXCEPT !.phase = "registered"] /\ leg' = [leg EXCEPT ![c] = k] /\ env' = env
  BY Zenon DEF Establish, Set
<1>3. DOMAIN leg = Legs /\ \A d \in Legs : LegOK(d, leg[d], streams, nodes)
  BY DEF Inv
<1>4. IsProcess(l)
  BY <1>2, <1>3 DEF LegOK
<1>5. GoesOn(l, k)
  BY <1>2, <1>4 DEF IsProcess, GoesOn
<1>6. LegOK(c, k, streams, nodes)
  BY <1>2, <1>3, <1>5, LegKept
<1>7. DOMAIN leg' = Legs /\ \A d \in Legs : LegOK(d, leg'[d], streams, nodes)
  BY <1>2, <1>3, <1>6
<1>. QED  BY <1>1, <1>2, <1>7, RegistryStep

\* A leg whose stream is another than the one that changed.
LEMMA OtherLeg ==
    ASSUME NEW d, NEW l, NEW ss, NEW tt, NEW ns, LegOK(d, l, ss, ns),
           l.stream # 0 => l.stream \in DOMAIN tt /\ tt[l.stream] = ss[l.stream]
    PROVE  LegOK(d, l, tt, ns)
BY DEF LegOK, Owns

\* One stream changes: the leg that reads it must stay up to date.
LEMMA StreamStep ==
    ASSUME Inv, UNCHANGED <<env, nodes, nextId, leg>>, NEW i \in DOMAIN streams,
           NEW t, streams' = [streams EXCEPT ![i] = t], StreamOK(t, DOMAIN nodes, nextId), t.leg = streams[i].leg,
           \A c \in Legs : leg[c].stream = i =>
             (t.dead => t.phase = "panicked") /\ (~leg[c].torn /\ ~t.dead => UpToDate(t, leg[c].snapshot, nodes))
    PROVE  Inv'
<1>1. PICK tt : tt = [streams EXCEPT ![i] = t] /\ streams' = tt
  OBVIOUS
<1>2. DOMAIN tt = DOMAIN streams /\ tt[i] = t /\ \A j \in DOMAIN streams : j # i => tt[j] = streams[j]
  BY <1>1
<1>3. StreamsOK(tt, DOMAIN nodes, nextId)
  BY <1>2 DEF Inv, StreamsOK
<1>4. ASSUME NEW c \in Legs PROVE LegOK(c, leg[c], tt, nodes)
  <2>1. LegOK(c, leg[c], streams, nodes)
    BY DEF Inv
  <2>2. CASE leg[c].stream = i
    BY <1>2, <2>1, <2>2 DEF LegOK, Owns
  <2>3. CASE leg[c].stream # i
    <3>1. leg[c].stream # 0 => leg[c].stream \in DOMAIN tt /\ tt[leg[c].stream] = streams[leg[c].stream]
      BY <1>2, <2>1, <2>3 DEF LegOK, Owns
    <3>. QED  BY <2>1, <3>1, OtherLeg
  <2>. QED  BY <2>2, <2>3
<1>. QED  BY <1>1, <1>3, <1>4, Zenon DEF Inv

\* One leg goes on, its stream is left alone.
LEMMA LegStep ==
    ASSUME Inv, UNCHANGED <<env, nodes, nextId, streams>>, NEW c \in Legs, NEW k, leg' = [leg EXCEPT ![c] = k],
           GoesOn(leg[c], k)
    PROVE  Inv'
<1>1. DOMAIN leg = Legs /\ \A d \in Legs : LegOK(d, leg[d], streams, nodes)
  BY DEF Inv
<1>2. LegOK(c, k, streams, nodes)
  BY <1>1, LegKept
<1>3. DOMAIN leg' = Legs /\ \A d \in Legs : LegOK(d, leg'[d], streams, nodes)
  BY <1>1, <1>2
<1>. QED  BY <1>3 DEF Inv

\* Cutting a stream.
LEMMA CutOK ==
    ASSUME NEW s, NEW ids, NEW next, StreamOK(s, ids, next), NEW t, t = Cut(s)
    PROVE  StreamOK(t, ids, next) /\ t.leg = s.leg
<1>1. IsStream(s)
  BY DEF StreamOK
<1>2. /\ IsStream(t) /\ t.leg = s.leg /\ t.queue = s.queue /\ t.phase = s.phase /\ t.out = <<>>
  BY <1>1, Zenon DEF IsStream, Cut
<1>. QED  BY <1>2, EmptySeq DEF StreamOK

\* The streams of a leg are cut, and it has none any more.
LEMMA CutStep ==
    ASSUME Inv, UNCHANGED <<env, nodes, nextId>>, NEW c \in Legs, streams' = CutStreams(c),
           NEW k, leg' = [leg EXCEPT ![c] = k], IsProcess(k), Routed(k), k.stream = 0
    PROVE  Inv'
<1>1. DOMAIN leg = Legs /\ (\A d \in Legs : LegOK(d, leg[d], streams, nodes)) /\ StreamsOK(streams, DOMAIN nodes, nextId)
  BY DEF Inv
<1>2. PICK tt : tt = CutStreams(c) /\ streams' = tt
  OBVIOUS
<1>3. /\ DOMAIN tt = DOMAIN streams
      /\ \A i \in DOMAIN streams : tt[i] = IF streams[i].leg = c THEN Cut(streams[i]) ELSE streams[i]
  BY <1>2 DEF CutStreams
<1>4. ASSUME NEW i \in DOMAIN streams PROVE StreamOK(tt[i], DOMAIN nodes, nextId)
  <2>1. StreamOK(streams[i], DOMAIN nodes, nextId)
    BY <1>1 DEF StreamsOK
  <2>2. CASE streams[i].leg = c
    BY <1>3, <2>1, <2>2, CutOK
  <2>3. CASE streams[i].leg # c
    BY <1>3, <2>1, <2>3
  <2>. QED  BY <2>2, <2>3
<1>5. StreamsOK(tt, DOMAIN nodes, nextId)
  BY <1>1, <1>3, <1>4 DEF StreamsOK
<1>6. LegOK(c, k, tt, nodes)
  BY DEF LegOK, Owns
<1>7. ASSUME NEW d \in Legs, d # c PROVE LegOK(d, leg[d], tt, nodes)
  <2>1. LegOK(d, leg[d], streams, nodes)
    BY <1>1
  <2>2. leg[d].stream # 0 => leg[d].stream \in DOMAIN tt /\ tt[leg[d].stream] = streams[leg[d].stream]
    BY <1>3, <1>7, <2>1 DEF LegOK, Owns
  <2>. QED  BY <2>1, <2>2, OtherLeg
<1>8. DOMAIN leg' = Legs /\ \A d \in Legs : LegOK(d, leg'[d], tt, nodes)
  BY <1>1, <1>6, <1>7
<1>. QED  BY <1>2, <1>5, <1>8 DEF Inv

\* run_control starts over.
LEMMA GiveUpInv ==
    ASSUME Inv, UNCHANGED <<env, nodes, nextId>>, NEW c \in Legs, NEW l, IsProcess(l), Routed(l), GiveUp(c, l)
    PROVE  Inv'
<1>1. PICK k : /\ k = [l EXCEPT !.phase = "down", !.broken = FALSE, !.control = 0, !.stream = 0, !.torn = FALSE,
                                !.todo = "read"]
               /\ leg' = [leg EXCEPT ![c] = k] /\ streams' = CutStreams(c)
  BY Zenon DEF GiveUp, Set
<1>2. IsProcess(k) /\ k.stream = 0 /\ k.snapshot = l.snapshot /\ k.engine = l.engine /\ k.exits = l.exits
  BY <1>1, Zenon DEF IsProcess
<1>3. Routed(k)
  BY <1>2 DEF Routed
<1>. QED  BY <1>1, <1>2, <1>3, CutStep, Zenon

\* Every leg is a process whose routes are those of its snapshot.
LEMMA LegFacts ==
    ASSUME Inv, NEW c \in Legs
    PROVE  /\ DOMAIN leg = Legs /\ LegOK(c, leg[c], streams, nodes) /\ IsProcess(leg[c]) /\ Routed(leg[c])
           /\ Owns(c, leg[c].stream, streams)
BY DEF Inv, LegOK

\* Every stream is in order.
LEMMA StreamFacts ==
    ASSUME Inv, NEW i \in DOMAIN streams
    PROVE  /\ i \in Nat \ {0} /\ StreamOK(streams[i], DOMAIN nodes, nextId) /\ IsStream(streams[i])
           /\ IsSeq(streams[i].queue) /\ IsSeq(streams[i].out)
           /\ \A c \in Legs : leg[c].stream = i =>
                /\ streams[i].dead => streams[i].phase = "panicked"
                /\ ~leg[c].torn /\ ~streams[i].dead => UpToDate(streams[i], leg[c].snapshot, nodes)
<1>1. i \in Nat \ {0} /\ StreamOK(streams[i], DOMAIN nodes, nextId)
  BY DEF Inv, StreamsOK
<1>2. ASSUME NEW c \in Legs, leg[c].stream = i
      PROVE  /\ streams[i].dead => streams[i].phase = "panicked"
             /\ ~leg[c].torn /\ ~streams[i].dead => UpToDate(streams[i], leg[c].snapshot, nodes)
  <2>1. LegOK(c, leg[c], streams, nodes) /\ leg[c].stream # 0
    BY <1>1, <1>2 DEF Inv
  <2>. QED  BY <1>2, <2>1 DEF LegOK, Owns
<1>. QED  BY <1>1, <1>2 DEF StreamOK

-----------------------------------------------------------------------------
(* The steps of a leg.                                                     *)

\* The leg's own progress: the key is fetched, the connection is made.
LEMMA ConnectInv ==
    ASSUME Inv, NEW c \in Legs, fetch_control_key(c) \/ Connect(c)
    PROVE  Inv'
<1>1. IsProcess(leg[c])
  BY LegFacts
<1>2. PICK l, p, n, k : l = leg[c] /\ k = [l EXCEPT !.phase = p, !.control = n] /\ leg' = [leg EXCEPT ![c] = k]
  <2>1. CASE fetch_control_key(c)
    <3>1. \E n : leg' = [leg EXCEPT ![c] = [leg[c] EXCEPT !.phase = "keyed", !.control = n]]
      BY <2>1, Zenon DEF fetch_control_key, Set
    <3>. QED  BY <3>1, Zenon
  <2>2. CASE Connect(c)
    <3>1. \E p : leg' = [leg EXCEPT ![c] = [leg[c] EXCEPT !.phase = p, !.control = 0]]
      BY <2>2, Zenon DEF Connect, Set
    <3>. QED  BY <3>1, Zenon
  <2>. QED  BY <2>1, <2>2, Zenon
<1>3. UNCHANGED <<env, nodes, nextId, streams>>
  BY Zenon DEF fetch_control_key, Connect
<1>4. GoesOn(l, k)
  BY <1>1, <1>2, Zenon DEF IsProcess, GoesOn
<1>. QED  BY <1>2, <1>3, <1>4, LegStep, Zenon

\* A DERP connection is made, refused or lost, and the mesh adds routes.
LEMMA DerpInv ==
    ASSUME Inv, NEW c \in Legs, ConnectDerp(c) \/ DerpError(c) \/ SetMeshRoutes(c)
    PROVE  Inv'
<1>1. IsProcess(leg[c])
  BY LegFacts
<1>2. UNCHANGED <<env, nodes, nextId, streams>>
  BY Zenon DEF ConnectDerp, DerpError, SetMeshRoutes
<1>3. PICK l : l = leg[c]
  OBVIOUS
<1>4. \E k : leg' = [leg EXCEPT ![c] = k] /\ GoesOn(l, k)
  <2>1. CASE ConnectDerp(c)
    <3>1. \/ \E d : leg' = [leg EXCEPT ![c] = [l EXCEPT !.derp = d, !.preferred = TRUE, !.todo = "lite"]]
          \/ leg' = [leg EXCEPT ![c] = [l EXCEPT !.todo = "lite"]]
      BY <1>3, <2>1, Zenon DEF ConnectDerp, Set
    <3>2. CASE leg' = [leg EXCEPT ![c] = [l EXCEPT !.todo = "lite"]]
      <4>1. PICK k : k = [l EXCEPT !.todo = "lite"] /\ leg' = [leg EXCEPT ![c] = k]
        BY <3>2, Zenon
      <4>2. GoesOn(l, k)
        BY <1>1, <1>3, <4>1 DEF IsProcess, GoesOn
      <4>. QED  BY <4>1, <4>2, Zenon
    <3>3. CASE \E d : leg' = [leg EXCEPT ![c] = [l EXCEPT !.derp = d, !.preferred = TRUE, !.todo = "lite"]]
      <4>1. PICK d, k : k = [l EXCEPT !.derp = d, !.preferred = TRUE, !.todo = "lite"] /\ leg' = [leg EXCEPT ![c] = k]
        BY <3>3, Zenon
      <4>2. GoesOn(l, k)
        BY <1>1, <1>3, <4>1, Zenon DEF IsProcess, GoesOn
      <4>. QED  BY <4>1, <4>2, Zenon
    <3>. QED  BY <3>1, <3>2, <3>3, Zenon
  <2>2. CASE DerpError(c)
    <3>1. PICK k : k = [l EXCEPT !.derp = <<>>, !.lost = TRUE] /\ leg' = [leg EXCEPT ![c] = k]
      BY <1>3, <2>2, Zenon DEF DerpError, Set
    <3>2. GoesOn(l, k)
      BY <1>1, <1>3, <3>1, Zenon DEF IsProcess, GoesOn
    <3>. QED  BY <3>1, <3>2, Zenon
  <2>3. CASE SetMeshRoutes(c)
    <3>1. PICK r, k : k = [l EXCEPT !.adv = r, !.poke = TRUE] /\ leg' = [leg EXCEPT ![c] = k]
      BY <1>3, <2>3, Zenon DEF SetMeshRoutes, Set
    <3>2. GoesOn(l, k)
      BY <1>1, <1>3, <3>1, Zenon DEF IsProcess, GoesOn
    <3>. QED  BY <3>1, <3>2, Zenon
  <2>. QED  BY <2>1, <2>2, <2>3
<1>. QED  BY <1>2, <1>3, <1>4, LegStep, Zenon

\* The control task starts over.
LEMMA StartOverInv ==
    ASSUME Inv, NEW c \in Legs, EstablishFails(c) \/ MapFails(c) \/ DerpLost(c)
    PROVE  Inv'
<1>1. IsProcess(leg[c]) /\ Routed(leg[c])
  BY LegFacts
<1>2. UNCHANGED <<env, nodes, nextId>>
  BY DEF EstablishFails, MapFails, DerpLost
<1>3. CASE EstablishFails(c) \/ MapFails(c)
  BY <1>1, <1>2, <1>3, GiveUpInv DEF EstablishFails, MapFails
<1>4. CASE DerpLost(c)
  <2>1. PICK l, k : l = leg[c] /\ k = [l EXCEPT !.preferred = FALSE, !.lost = FALSE] /\ GiveUp(c, k)
    BY <1>4, Zenon DEF DerpLost
  <2>2. IsProcess(k) /\ k.snapshot = l.snapshot /\ k.engine = l.engine /\ k.exits = l.exits
    BY <1>1, <2>1, Zenon DEF IsProcess
  <2>3. Routed(k)
    BY <1>1, <2>1, <2>2 DEF Routed
  <2>. QED  BY <1>2, <2>1, <2>2, <2>3, GiveUpInv
<1>. QED  BY <1>3, <1>4

\* No snapshot, no routes.
LEMMA EmptyRouted == RoutesOf(<<>>) = {} /\ ExitsOf(<<>>) = {}
BY EmptySeq DEF RoutesOf, ExitsOf

\* A fresh process.
LEMMA ProcessFacts ==
    ASSUME NEW c, NEW n
    PROVE  IsProcess(Process(c, n)) /\ Routed(Process(c, n)) /\ Process(c, n).stream = 0
BY EmptyRouted DEF IsProcess, Routed, Process

\* A connection breaks, a process restarts.
LEMMA BreakInv ==
    ASSUME Inv, NEW c \in Legs, Break(c) \/ RestartLeg(c)
    PROVE  Inv'
<1>1. IsProcess(leg[c]) /\ Routed(leg[c])
  BY LegFacts
<1>2. UNCHANGED <<env, nodes, nextId>> /\ streams' = CutStreams(c)
  BY DEF Break, RestartLeg
<1>3. CASE Break(c)
  <2>1. PICK l, k : l = leg[c] /\ k = [l EXCEPT !.broken = TRUE, !.stream = 0] /\ leg' = [leg EXCEPT ![c] = k]
    BY <1>3, Zenon DEF Break, Set
  <2>2. IsProcess(k) /\ k.stream = 0 /\ k.snapshot = l.snapshot /\ k.engine = l.engine /\ k.exits = l.exits
    BY <1>1, <2>1, Zenon DEF IsProcess
  <2>3. Routed(k)
    BY <1>1, <2>1, <2>2 DEF Routed
  <2>. QED  BY <1>2, <2>1, <2>2, <2>3, CutStep, Zenon
<1>4. CASE RestartLeg(c)
  <2>1. PICK k, n : k = Process(c, n) /\ leg' = [leg EXCEPT ![c] = k]
    BY <1>4, Zenon DEF RestartLeg, Set
  <2>. QED  BY <1>2, <2>1, ProcessFacts, CutStep, Zenon
<1>. QED  BY <1>3, <1>4

\* The server loses its state.
LEMMA WipeInv ==
    ASSUME Inv, Wipe
    PROVE  Inv'
<1>1. nodes' = <<>> /\ nextId' = 1 /\ streams' = <<>> /\ env' = env
  BY Zenon DEF Wipe
<1>2. RegistryOK(<<>>, 1) /\ StreamsOK(<<>>, {}, 1)
  <2>1. IsFiniteSet({})
    BY EmptyFinite
  <2>. QED  BY <2>1, EmptySeq DEF RegistryOK, StreamsOK
<1>3. ASSUME NEW c \in Legs PROVE LegOK(c, leg'[c], <<>>, <<>>)
  <2>1. IsProcess(leg[c]) /\ Routed(leg[c])
    BY LegFacts
  <2>2. PICK l, b, o, k : l = leg[c] /\ k = [l EXCEPT !.broken = b, !.stream = 0, !.derp = <<>>, !.lost = o] /\ leg'[c] = k
    BY Zenon DEF Wipe
  <2>3. IsProcess(k) /\ k.stream = 0 /\ k.snapshot = l.snapshot /\ k.engine = l.engine /\ k.exits = l.exits
    BY <2>1, <2>2, Zenon DEF IsProcess
  <2>4. LegOK(c, k, <<>>, <<>>)
    BY <2>1, <2>2, <2>3 DEF LegOK, Owns, Routed
  <2>. QED  BY <2>2, <2>4
<1>4. DOMAIN leg' = Legs
  BY Zenon DEF Wipe
<1>5. DOMAIN nodes' = {}
  BY <1>1, EmptySeq
<1>. QED  BY <1>1, <1>2, <1>3, <1>4, <1>5 DEF Inv

\* A leg and its stream change.
LEMMA ReadStep ==
    ASSUME Inv, UNCHANGED <<env, nodes, nextId>>, NEW c \in Legs, NEW i \in DOMAIN streams, leg[c].stream = i,
           NEW t, NEW tt, tt = [streams EXCEPT ![i] = t], streams' = tt, StreamOK(t, DOMAIN nodes, nextId),
           NEW k, leg' = [leg EXCEPT ![c] = k], LegOK(c, k, tt, nodes)
    PROVE  Inv'
<1>1. DOMAIN leg = Legs /\ i # 0 /\ streams[i].leg = c
  BY LegFacts, StreamFacts DEF Owns
<1>2. DOMAIN tt = DOMAIN streams /\ tt[i] = t /\ \A j \in DOMAIN streams : j # i => tt[j] = streams[j]
  OBVIOUS
<1>3. StreamsOK(tt, DOMAIN nodes, nextId)
  BY <1>2 DEF Inv, StreamsOK
<1>4. ASSUME NEW d \in Legs, d # c PROVE LegOK(d, leg[d], tt, nodes)
  <2>1. LegOK(d, leg[d], streams, nodes) /\ Owns(d, leg[d].stream, streams)
    BY LegFacts
  <2>2. leg[d].stream # 0 => leg[d].stream \in DOMAIN tt /\ tt[leg[d].stream] = streams[leg[d].stream]
    BY <1>1, <1>2, <1>4, <2>1 DEF Owns
  <2>. QED  BY <2>1, <2>2, OtherLeg, Zenon
<1>5. DOMAIN leg' = Legs /\ \A d \in Legs : LegOK(d, leg'[d], tt, nodes)
  BY <1>1, <1>4, Zenon
<1>. QED  BY <1>3, <1>5, Zenon DEF Inv

\* A frame is read off a stream.
LEMMA ReadOK ==
    ASSUME NEW s, NEW ids, NEW next, StreamOK(s, ids, next), s.out # <<>>, NEW t, t = [s EXCEPT !.out = Tail(s.out)]
    PROVE  /\ StreamOK(t, ids, next) /\ t.leg = s.leg /\ t.nid = s.nid /\ t.phase = s.phase /\ t.dead = s.dead
           /\ t.queue = s.queue /\ t.lagged = s.lagged /\ t.missed = s.missed /\ t.out = Tail(s.out)
<1>1. IsStream(s) /\ IsSeq(s.out)
  BY DEF StreamOK
<1>2. PICK o : o = Tail(s.out)
  BY Zenon
<1>3. /\ IsStream(t) /\ t.leg = s.leg /\ t.nid = s.nid /\ t.phase = s.phase /\ t.dead = s.dead
      /\ t.queue = s.queue /\ t.lagged = s.lagged /\ t.missed = s.missed /\ t.out = o
  BY <1>1, <1>2, Zenon DEF IsStream
<1>4. IsSeq(o)
  BY <1>1, <1>2, TailSeq, Zenon
<1>. QED  BY <1>2, <1>3, <1>4 DEF StreamOK

\* pump_ts2021: the engine's routes become those of the snapshot, whatever they were.
LEMMA PumpFacts ==
    ASSUME NEW l, IsProcess(l), NEW k, k = pump_ts2021(l)
    PROVE  IsProcess(k) /\ Routed(k) /\ k.key = l.key /\ k.snapshot = l.snapshot /\ k.stream = l.stream /\ k.torn = l.torn
<1>. DEFINE mirror == {r[2] : r \in l.engine}
            fresh == {l.snapshot[n].key : n \in DOMAIN l.snapshot}
            stay == {r \in l.engine : r[2] \notin (mirror \ fresh) \cup fresh}
<1>1. stay = {}
  OBVIOUS
<1>2. k = [l EXCEPT !.exits = ExitsOf(l.snapshot), !.engine = stay \cup RoutesOf(l.snapshot)]
  BY Zenon DEF pump_ts2021
<1>. HIDE DEF stay
<1>3. PICK x, e : x = ExitsOf(l.snapshot) /\ e = stay \cup RoutesOf(l.snapshot)
  BY Zenon
<1>4. k = [l EXCEPT !.exits = x, !.engine = e]
  BY <1>2, <1>3
<1>5. /\ IsProcess(k) /\ k.key = l.key /\ k.snapshot = l.snapshot /\ k.stream = l.stream /\ k.torn = l.torn
      /\ k.exits = x /\ k.engine = e
  BY <1>4, Zenon DEF IsProcess
<1>6. e = RoutesOf(l.snapshot)
  BY <1>1, <1>3
<1>. QED  BY <1>3, <1>5, <1>6 DEF Routed

Merged(sn, f) == IF ~has_netmap_data(f) THEN sn ELSE IF f.full THEN f.peers ELSE apply_delta(sn, f)

\* Netmap: what the leg was told of a node becomes what the frame says of it, if it speaks of it.
LEMMA NetmapFacts ==
    ASSUME NEW l, IsProcess(l), Routed(l), NEW f,
           NEW k, k = IF has_netmap_data(f) THEN pump_ts2021(apply_netmap(l, f)) ELSE l
    PROVE  /\ IsProcess(k) /\ Routed(k) /\ k.stream = l.stream /\ k.torn = l.torn
           /\ k.key = l.key /\ k.snapshot = Merged(l.snapshot, f)
           /\ \A n : Heard(k.snapshot, n) = IF Speaks(f, n) THEN Says(f, n) ELSE Heard(l.snapshot, n)
<1>1. CASE ~has_netmap_data(f)
  <2>1. \A n : ~Speaks(f, n)
    BY <1>1 DEF has_netmap_data, Speaks
  <2>. QED  BY <1>1, <2>1 DEF Merged
<1>2. CASE has_netmap_data(f)
  <2>1. PICK h : h = apply_netmap(l, f) /\ k = pump_ts2021(h)
    BY <1>2
  <2>2. PICK sn : sn = IF f.full THEN f.peers ELSE apply_delta(l.snapshot, f)
    OBVIOUS
  <2>3. IsProcess(h) /\ h.key = l.key /\ h.stream = l.stream /\ h.torn = l.torn /\ h.snapshot = sn
    <3>1. CASE f.full
      <4>1. PICK x : h = [l EXCEPT !.snapshot = sn, !.todo = x]
        BY <2>1, <2>2, <3>1, Zenon DEF apply_netmap
      <4>. QED  BY <4>1, Zenon DEF IsProcess
    <3>2. CASE ~f.full
      <4>1. h = [l EXCEPT !.snapshot = sn]
        BY <2>1, <2>2, <3>2, Zenon DEF apply_netmap
      <4>. QED  BY <4>1 DEF IsProcess
    <3>. QED  BY <3>1, <3>2
  <2>4. IsProcess(k) /\ Routed(k) /\ k.key = l.key /\ k.snapshot = sn /\ k.stream = l.stream /\ k.torn = l.torn
    BY <2>1, <2>3, PumpFacts
  <2>5. ASSUME NEW n PROVE Heard(sn, n) = IF Speaks(f, n) THEN Says(f, n) ELSE Heard(l.snapshot, n)
    <3>1. CASE f.full
      BY <2>2, <3>1 DEF Heard, Speaks, Says
    <3>2. CASE ~f.full
      <4>1. PICK old : old = l.snapshot
        OBVIOUS
      <4>2. sn = [m \in (DOMAIN old \cup DOMAIN f.peers) \ f.removed |->
                    IF m \in DOMAIN f.peers THEN f.peers[m] ELSE old[m]]
        BY <2>2, <3>2, <4>1 DEF apply_delta
      <4>3. CASE n \in f.removed
        BY <3>2, <4>2, <4>3 DEF Heard, Speaks, Says
      <4>4. CASE n \notin f.removed /\ n \in DOMAIN f.peers
        BY <3>2, <4>2, <4>4 DEF Heard, Speaks, Says
      <4>5. CASE n \notin f.removed /\ n \notin DOMAIN f.peers
        BY <3>2, <4>1, <4>2, <4>5, Zenon DEF Heard, Speaks, Says
      <4>. QED  BY <4>3, <4>4, <4>5
    <3>. QED  BY <3>1, <3>2
  <2>. QED  BY <1>2, <2>2, <2>4, <2>5 DEF Merged
<1>. QED  BY <1>1, <1>2

\* Netmap: a leg reads a frame.
LEMMA NetmapInv ==
    ASSUME Inv, NEW c \in Legs, Netmap(c)
    PROVE  Inv'
<1>1. PICK i, s, l, f, k, t, tt :
        /\ i = leg[c].stream /\ s = streams[i] /\ l = leg[c] /\ f = Head(s.out)
        /\ k = (IF has_netmap_data(f) THEN pump_ts2021(apply_netmap(l, f)) ELSE l)
        /\ t = [s EXCEPT !.out = Tail(s.out)] /\ tt = [streams EXCEPT ![i] = t]
  BY Zenon
<1>2. Alive(c) /\ Inbox(c) # <<>> /\ ~l.torn
  BY <1>1 DEF Netmap, Inbox
<1>3. i \in DOMAIN streams /\ ~s.dead /\ Inbox(c) = s.out
  BY <1>1, <1>2 DEF Alive, Inbox
<1>4. leg' = [leg EXCEPT ![c] = k]
  BY <1>1, <1>3, Zenon DEF Netmap, Set
<1>5. streams' = tt /\ UNCHANGED <<env, nodes, nextId>>
  <2>1. streams' = [streams EXCEPT ![i].out = Tail(@)] /\ UNCHANGED <<env, nodes, nextId>>
    BY <1>1 DEF Netmap
  <2>. QED  BY <1>1, <2>1, Zenon
<1>6. StreamOK(s, DOMAIN nodes, nextId) /\ IsSeq(s.out) /\ s.out # <<>> /\ UpToDate(s, l.snapshot, nodes)
  BY <1>1, <1>2, <1>3, StreamFacts
<1>7. /\ StreamOK(t, DOMAIN nodes, nextId) /\ t.leg = s.leg /\ t.nid = s.nid /\ t.phase = s.phase /\ t.dead = s.dead
      /\ t.queue = s.queue /\ t.lagged = s.lagged /\ t.missed = s.missed /\ t.out = Tail(s.out)
  BY <1>1, <1>6, ReadOK
<1>8. IsProcess(l) /\ Routed(l) /\ Owns(c, i, streams)
  BY <1>1, LegFacts
<1>9. /\ IsProcess(k) /\ Routed(k) /\ k.stream = l.stream /\ k.torn = l.torn
      /\ \A n : Heard(k.snapshot, n) = IF Speaks(f, n) THEN Says(f, n) ELSE Heard(l.snapshot, n)
  BY <1>1, <1>8, NetmapFacts
<1>10. UpToDate(t, k.snapshot, nodes)
  <2>1. ASSUME s.phase \in {"sent", "live"} /\ ~s.lagged, NEW n, n \notin s.missed /\ n # s.nid /\ ~Awaits(s.queue, n)
        PROVE  Leaves(t.out, n, Heard(k.snapshot, n), Held(nodes, n))
    <3>1. Leaves(s.out, n, Heard(l.snapshot, n), Held(nodes, n))
      BY <1>6, <2>1 DEF UpToDate
    <3>2. PICK b, a, h : b = Heard(l.snapshot, n) /\ a = Held(nodes, n) /\ h = Heard(k.snapshot, n)
      OBVIOUS
    <3>3. h = IF Speaks(Head(s.out), n) THEN Says(Head(s.out), n) ELSE b
      BY <1>1, <1>9, <3>2, Zenon
    <3>4. Leaves(Tail(s.out), n, h, a)
      BY <1>6, <3>1, <3>2, <3>3, LeavesTail, Zenon
    <3>. QED  BY <1>7, <3>2, <3>4
  <2>. QED  BY <1>7, <2>1 DEF UpToDate
<1>11. LegOK(c, k, tt, nodes)
  <2>1. DOMAIN tt = DOMAIN streams /\ tt[i] = t /\ k.stream = i
    BY <1>1, <1>3, <1>9, Zenon
  <2>. QED  BY <1>1, <1>3, <1>7, <1>8, <1>9, <1>10, <2>1, Zenon DEF LegOK, Owns
<1>. QED  BY <1>1, <1>3, <1>4, <1>5, <1>7, <1>11, ReadStep, Zenon

\* A frame of a torn stream is swallowed, or the read of one is dropped in the middle.
LEMMA PokeInv ==
    ASSUME Inv, NEW c \in Legs, Poke(c) \/ Swallow(c)
    PROVE  Inv'
<1>1. PICK i, s, l, t, tt : /\ i = leg[c].stream /\ s = streams[i] /\ l = leg[c]
                            /\ t = [s EXCEPT !.out = Tail(s.out)] /\ tt = [streams EXCEPT ![i] = t]
  BY Zenon
<1>2. IsProcess(l) /\ Routed(l) /\ Owns(c, i, streams) /\ DOMAIN leg = Legs /\ LegOK(c, l, streams, nodes)
  BY <1>1, LegFacts
<1>3. UNCHANGED <<env, nodes, nextId>>
  BY DEF Poke, Swallow
<1>4. ASSUME Inbox(c) # <<>>
      PROVE  /\ i \in DOMAIN streams /\ StreamOK(t, DOMAIN nodes, nextId) /\ i # 0 /\ s.leg = c
             /\ t.leg = s.leg /\ t.phase = s.phase /\ t.dead = s.dead
             /\ DOMAIN tt = DOMAIN streams /\ tt[i] = t
  <2>1. Alive(c)
    BY <1>4 DEF Inbox
  <2>2. i \in DOMAIN streams /\ s.out # <<>>
    BY <1>1, <1>4, <2>1 DEF Alive, Inbox
  <2>3. StreamOK(s, DOMAIN nodes, nextId) /\ i # 0
    BY <1>1, <2>2, StreamFacts
  <2>4. StreamOK(t, DOMAIN nodes, nextId) /\ t.leg = s.leg /\ t.phase = s.phase /\ t.dead = s.dead
    BY <1>1, <2>2, <2>3, ReadOK
  <2>. QED  BY <1>1, <1>2, <2>2, <2>3, <2>4 DEF Owns
<1>5. ASSUME Inbox(c) # <<>>, NEW k, IsProcess(k), Routed(k), k.stream = i, k.torn PROVE LegOK(c, k, tt, nodes)
  BY <1>1, <1>2, <1>4, <1>5 DEF LegOK, Owns
<1>6. CASE Swallow(c)
  <2>1. Inbox(c) # <<>> /\ l.torn /\ leg' = leg
    BY <1>1, <1>6 DEF Swallow
  <2>2. streams' = tt
    <3>1. streams' = [streams EXCEPT ![i].out = Tail(@)]
      BY <1>1, <1>6 DEF Swallow
    <3>. QED  BY <1>1, <3>1, Zenon
  <2>3. ASSUME NEW d \in Legs, leg[d].stream = i PROVE d = c /\ (t.dead => t.phase = "panicked")
    <3>1. Owns(d, i, streams)
      BY <2>3, LegFacts
    <3>. QED  BY <1>1, <1>4, <2>1, <3>1 DEF Owns
  <2>4. \A d \in Legs : leg[d].stream = i =>
          (t.dead => t.phase = "panicked") /\ (~leg[d].torn /\ ~t.dead => UpToDate(t, leg[d].snapshot, nodes))
    BY <1>1, <2>1, <2>3
  <2>5. UNCHANGED <<env, nodes, nextId, leg>> /\ streams' = [streams EXCEPT ![i] = t] /\ t.leg = streams[i].leg
    BY <1>1, <1>3, <1>4, <2>1, <2>2
  <2>. QED  BY <1>4, <2>1, <2>4, <2>5, StreamStep, Zenon
<1>7. CASE Poke(c)
  <2>1. PICK mid \in {FALSE} \cup {Inbox(c) # <<>>} :
          /\ leg' = [leg EXCEPT ![c] = [leg[c] EXCEPT !.poke = FALSE, !.todo = "lite", !.torn = @ \/ mid]]
          /\ streams' = IF mid THEN [streams EXCEPT ![leg[c].stream].out = Tail(@)] ELSE streams
    BY <1>7, Zenon DEF Poke, Set
  <2>2. PICK b, k : /\ b = (l.torn \/ mid) /\ k = [l EXCEPT !.poke = FALSE, !.todo = "lite", !.torn = b]
                    /\ leg' = [leg EXCEPT ![c] = k]
    BY <1>1, <2>1, Zenon
  <2>3. /\ IsProcess(k) /\ k.stream = l.stream /\ k.snapshot = l.snapshot /\ k.engine = l.engine /\ k.exits = l.exits
        /\ k.torn = b
    BY <1>2, <2>2, Zenon DEF IsProcess
  <2>4. (mid => b) /\ (~b => ~l.torn)
    BY <2>2, Zenon
  <2>5. CASE mid
    <3>1. streams' = tt
      BY <1>1, <2>1, <2>5, Zenon
    <3>2. Inbox(c) # <<>>
      BY <2>1, <2>5, Zenon
    <3>3. Routed(k) /\ k.torn
      BY <1>2, <2>3, <2>4, <2>5 DEF Routed
    <3>4. LegOK(c, k, tt, nodes)
      BY <1>1, <1>5, <2>3, <3>2, <3>3, Zenon
    <3>. QED  BY <1>1, <1>3, <1>4, <2>2, <3>1, <3>2, <3>4, ReadStep, Zenon
  <2>6. CASE ~mid
    <3>1. streams' = streams
      BY <2>1, <2>6, Zenon
    <3>2. GoesOn(l, k)
      BY <2>3, <2>4 DEF GoesOn
    <3>. QED  BY <1>1, <1>3, <2>2, <3>1, <3>2, LegStep, Zenon
  <2>. QED  BY <2>5, <2>6
<1>. QED  BY <1>6, <1>7

\* A leg without a stream.
LEMMA QuitStep ==
    ASSUME Inv, UNCHANGED <<env, nodes, nextId, streams>>, NEW c \in Legs, NEW k, leg' = [leg EXCEPT ![c] = k],
           IsProcess(k), Routed(k), k.stream = 0
    PROVE  Inv'
<1>1. DOMAIN leg = Legs /\ \A d \in Legs : LegOK(d, leg[d], streams, nodes)
  BY DEF Inv
<1>2. LegOK(c, k, streams, nodes)
  BY DEF LegOK, Owns
<1>3. DOMAIN leg' = Legs /\ \A d \in Legs : LegOK(d, leg'[d], streams, nodes)
  BY <1>1, <1>2
<1>. QED  BY <1>3 DEF Inv

\* StreamFails: the leg gives its stream up and keeps its connection.
LEMMA StreamFailsInv ==
    ASSUME Inv, NEW c \in Legs, StreamFails(c)
    PROVE  Inv'
<1>1. PICK i, s, l, t, tt, k :
        /\ i = leg[c].stream /\ s = streams[i] /\ l = leg[c] /\ t = Cut(s) /\ tt = [streams EXCEPT ![i] = t]
        /\ k = [l EXCEPT !.phase = "registered", !.stream = 0, !.torn = FALSE]
  BY Zenon
<1>2. IsProcess(l) /\ Routed(l)
  BY <1>1, LegFacts
<1>3. IsProcess(k) /\ k.stream = 0 /\ k.snapshot = l.snapshot /\ k.engine = l.engine /\ k.exits = l.exits
  BY <1>1, <1>2, Zenon DEF IsProcess
<1>4. Routed(k)
  BY <1>2, <1>3 DEF Routed
<1>5. UNCHANGED <<env, nodes, nextId>> /\ leg' = [leg EXCEPT ![c] = k]
  BY <1>1, Zenon DEF StreamFails, Set
<1>6. CASE ~Alive(c)
  <2>1. streams' = streams
    BY <1>6 DEF StreamFails
  <2>. QED  BY <1>3, <1>4, <1>5, <2>1, QuitStep, Zenon
<1>7. CASE Alive(c)
  <2>1. i \in DOMAIN streams
    BY <1>1, <1>7 DEF Alive
  <2>2. streams' = tt
    BY <1>1, <1>7, Zenon DEF StreamFails
  <2>3. StreamOK(t, DOMAIN nodes, nextId)
    BY <1>1, <2>1, StreamFacts, CutOK
  <2>4. LegOK(c, k, tt, nodes)
    BY <1>3, <1>4 DEF LegOK, Owns
  <2>. QED  BY <1>1, <1>5, <2>1, <2>2, <2>3, <2>4, ReadStep, Zenon
<1>. QED  BY <1>6, <1>7

\* map_stream: a new stream, or the leg gives up.
LEMMA MapStreamInv ==
    ASSUME Inv, Spare(DOMAIN streams), NEW c \in Legs, MapStream(c)
    PROVE  Inv'
<1>1. PICK i, l : i = (CHOOSE j \in 1..Cardinality(DOMAIN streams) + 1 : j \notin DOMAIN streams) /\ l = leg[c]
  OBVIOUS
<1>2. IsFiniteSet(DOMAIN streams) /\ StreamsOK(streams, DOMAIN nodes, nextId)
  BY DEF Inv, StreamsOK
<1>3. i \in Nat \ {0} /\ i \notin DOMAIN streams
  BY <1>1 DEF Spare
<1>4. UNCHANGED <<env, nodes, nextId>>
  BY DEF MapStream
<1>5. IsProcess(l) /\ Routed(l) /\ DOMAIN leg = Legs
  BY <1>1, LegFacts
<1>6. CASE GiveUp(c, leg[c])
  BY <1>1, <1>4, <1>5, <1>6, GiveUpInv
<1>7. CASE ~GiveUp(c, leg[c])
  <2>1. PICK n, request, s, tt, k :
          /\ s = Stream(c, n, request) /\ tt = Put(streams, i, s) /\ streams' = tt
          /\ k = [l EXCEPT !.phase = "opening", !.stream = i] /\ leg' = [leg EXCEPT ![c] = k]
    <3>1. /\ \E n : streams' = Put(streams, i, Stream(c, n, map_request_json(leg[c].adv)))
          /\ leg' = [leg EXCEPT ![c] = [leg[c] EXCEPT !.phase = "opening", !.stream = i]]
      BY <1>1, <1>7, Zenon DEF MapStream, Set
    <3>. QED  BY <1>1, <3>1, Zenon
  <2>2. DOMAIN tt = DOMAIN streams \cup {i} /\ tt[i] = s /\ \A j \in DOMAIN streams : tt[j] = streams[j]
    BY <1>3, <2>1 DEF Put
  <2>3. IsStream(s) /\ s.leg = c /\ s.phase = "map" /\ s.dead = FALSE /\ s.queue = <<>> /\ s.out = <<>>
    BY <2>1 DEF Stream, IsStream
  <2>4. StreamOK(s, DOMAIN nodes, nextId)
    BY <2>3, EmptySeq DEF StreamOK
  <2>5. IsFiniteSet(DOMAIN streams \cup {i})
    BY <1>2, FiniteAdd
  <2>6. StreamsOK(tt, DOMAIN nodes, nextId)
    BY <1>2, <1>3, <2>2, <2>4, <2>5 DEF StreamsOK
  <2>7. IsProcess(k) /\ k.stream = i /\ k.snapshot = l.snapshot /\ k.engine = l.engine /\ k.exits = l.exits
    BY <1>5, <2>1, Zenon DEF IsProcess
  <2>8. LegOK(c, k, tt, nodes)
    <3>1. Owns(c, i, tt) /\ UpToDate(tt[i], k.snapshot, nodes)
      BY <2>2, <2>3 DEF Owns, UpToDate
    <3>. QED  BY <1>5, <2>7, <3>1 DEF LegOK, Routed
  <2>9. ASSUME NEW d \in Legs PROVE LegOK(d, leg[d], tt, nodes)
    <3>1. LegOK(d, leg[d], streams, nodes) /\ Owns(d, leg[d].stream, streams)
      BY LegFacts
    <3>2. leg[d].stream # 0 => leg[d].stream \in DOMAIN tt /\ tt[leg[d].stream] = streams[leg[d].stream]
      BY <2>2, <3>1 DEF Owns
    <3>. QED  BY <3>1, <3>2, OtherLeg
  <2>10. DOMAIN leg' = Legs /\ \A d \in Legs : LegOK(d, leg'[d], tt, nodes)
    BY <1>5, <2>1, <2>8, <2>9
  <2>. QED  BY <1>4, <2>1, <2>6, <2>10 DEF Inv
<1>. QED  BY <1>6, <1>7

-----------------------------------------------------------------------------
(* The steps of a stream.                                                  *)

\* A whole netmap says of every node what the registry holds.
LEMMA FullSays ==
    ASSUME NEW x, NEW n, n # x, NEW f, f = FullFrame(x)
    PROVE  Speaks(f, n) /\ Says(f, n) = Held(nodes, n)
BY DEF FullFrame, Speaks, Says, Held, View, Gist

\* A delta of a change or a removal.
LEMMA DeltaSays ==
    ASSUME NEW changed, changed \subseteq DOMAIN nodes, NEW removed, removed \cap changed = {},
           NEW n, NEW f, f = DeltaFrame(changed, removed)
    PROVE  /\ Speaks(f, n) <=> n \in changed \cup removed
           /\ n \in changed => Says(f, n) = Held(nodes, n)
           /\ n \in removed => Says(f, n) = {}
BY Zenon DEF DeltaFrame, Speaks, Says, Held, View, Gist

\* A frame is sent.
Sends(s, t, f) ==
    /\ IsStream(t) /\ t.leg = s.leg /\ t.nid = s.nid /\ t.phase = s.phase /\ t.dead = s.dead
    /\ t.queue = s.queue /\ t.lagged = s.lagged /\ t.missed = s.missed /\ IsSeq(t.out) /\ t.out = Append(s.out, f)

\* send_frame appends the frame to what is in flight.
LEMMA SendOK ==
    ASSUME NEW s, IsStream(s), IsSeq(s.out), ~s.dead, NEW f, NEW t, t = Send(s, f)
    PROVE  Sends(s, t, f)
<1>1. PICK o : o = Append(s.out, f)
  BY Zenon
<1>2. t = [s EXCEPT !.out = o]
  BY <1>1, Zenon DEF Send
<1>3. IsSeq(o)
  BY <1>1, AppendSeq, Zenon
<1>. QED  BY <1>1, <1>2, <1>3, Zenon DEF IsStream, Sends

\* Subscribe: from its first frame on, the nodes that changed before are missed.
LEMMA SubscribeInv ==
    ASSUME Inv, NEW i \in DOMAIN streams, Subscribe(i)
    PROVE  Inv'
<1>1. PICK s, t : s = streams[i] /\ t = [s EXCEPT !.phase = "live"]
  BY Zenon
<1>2. streams' = [streams EXCEPT ![i] = t] /\ UNCHANGED <<env, nodes, nextId, leg>> /\ s.phase = "sent" /\ ~s.dead
  BY <1>1, Zenon DEF Subscribe
<1>3. StreamOK(s, DOMAIN nodes, nextId) /\ IsStream(s) /\ s.queue = <<>>
  BY <1>1, <1>2, StreamFacts DEF StreamOK
<1>4. /\ IsStream(t) /\ t.leg = s.leg /\ t.nid = s.nid /\ t.phase = "live" /\ t.dead = s.dead
      /\ t.queue = s.queue /\ t.lagged = s.lagged /\ t.missed = s.missed /\ t.out = s.out
  BY <1>1, <1>3 DEF IsStream
<1>5. Orderly(<<>>, DOMAIN nodes, nextId)
  BY EmptySeq DEF Orderly
<1>6. StreamOK(t, DOMAIN nodes, nextId)
  BY <1>3, <1>4, <1>5 DEF StreamOK
<1>7. ASSUME NEW c \in Legs, leg[c].stream = i, ~leg[c].torn PROVE UpToDate(t, leg[c].snapshot, nodes)
  <2>1. UpToDate(s, leg[c].snapshot, nodes)
    BY <1>1, <1>2, <1>7, StreamFacts
  <2>. QED  BY <1>2, <1>4, <2>1 DEF UpToDate
<1>8. \A c \in Legs : leg[c].stream = i =>
        (t.dead => t.phase = "panicked") /\ (~leg[c].torn /\ ~t.dead => UpToDate(t, leg[c].snapshot, nodes))
  BY <1>2, <1>4, <1>7
<1>9. t.leg = streams[i].leg
  BY <1>1, <1>4
<1>. QED  BY <1>2, <1>6, <1>8, <1>9, StreamStep, Zenon

\* A stream that sends the whole netmap is up to date, whatever it had sent before.
LEMMA FullUpToDate ==
    ASSUME NEW s, IsSeq(s.out), NEW f, f = FullFrame(s.nid), NEW t, t.nid = s.nid, t.out = Append(s.out, f), NEW sn
    PROVE  UpToDate(t, sn, nodes)
<1>1. ASSUME NEW n, n # s.nid PROVE Leaves(t.out, n, Heard(sn, n), Held(nodes, n))
  <2>1. Speaks(f, n) /\ Says(f, n) = Held(nodes, n)
    BY <1>1, FullSays
  <2>2. PICK a, b, o : a = Held(nodes, n) /\ b = Heard(sn, n) /\ o = s.out
    OBVIOUS
  <2>3. Leaves(t.out, n, b, a)
    BY <2>1, <2>2, LeavesAppend, Zenon
  <2>. QED  BY <2>2, <2>3
<1>. QED  BY <1>1 DEF UpToDate

\* A stream's task panics.
LEMMA PanicStep ==
    ASSUME Inv, NEW i \in DOMAIN streams, UNCHANGED <<env, nodes, nextId, leg>>,
           streams' = [streams EXCEPT ![i] = Cut([streams[i] EXCEPT !.phase = "panicked"])]
    PROVE  Inv'
<1>1. PICK s, u, t : s = streams[i] /\ u = [s EXCEPT !.phase = "panicked"] /\ t = Cut(u)
  BY Zenon
<1>2. streams' = [streams EXCEPT ![i] = t]
  BY <1>1, Zenon
<1>3. IsStream(s) /\ StreamOK(s, DOMAIN nodes, nextId)
  BY <1>1, StreamFacts
<1>4. IsStream(u) /\ u.leg = s.leg /\ u.queue = s.queue /\ u.out = s.out /\ u.phase = "panicked"
  BY <1>1, <1>3 DEF IsStream
<1>5. StreamOK(u, DOMAIN nodes, nextId)
  BY <1>3, <1>4 DEF StreamOK
<1>6. StreamOK(t, DOMAIN nodes, nextId) /\ t.leg = u.leg
  BY <1>1, <1>5, CutOK, Zenon
<1>7. t.dead /\ t.phase = "panicked"
  BY <1>1, <1>4 DEF Cut, IsStream
<1>8. t.leg = streams[i].leg
  BY <1>1, <1>4, <1>6
<1>9. \A c \in Legs : leg[c].stream = i =>
        (t.dead => t.phase = "panicked") /\ (~leg[c].torn /\ ~t.dead => UpToDate(t, leg[c].snapshot, nodes))
  BY <1>7
<1>. QED  BY <1>2, <1>6, <1>8, <1>9, StreamStep, Zenon

\* PushFull: a lag is answered with the whole netmap.
LEMMA PushFullInv ==
    ASSUME Inv, NEW i \in DOMAIN streams, PushFull(i)
    PROVE  Inv'
<1>1. UNCHANGED <<env, nodes, nextId, leg>>
  BY DEF PushFull
<1>2. CASE streams[i].nid \notin DOMAIN nodes
  <2>1. streams' = [streams EXCEPT ![i] = Cut([streams[i] EXCEPT !.phase = "panicked"])]
    BY <1>2, Zenon DEF PushFull
  <2>. QED  BY <1>1, <2>1, PanicStep, Zenon
<1>3. CASE streams[i].nid \in DOMAIN nodes
  <2>1. PICK s, f, u, t : /\ s = streams[i] /\ f = FullFrame(s.nid)
                          /\ u = [s EXCEPT !.lagged = FALSE, !.missed = {}] /\ t = Send(u, f)
    BY Zenon
  <2>2. streams' = [streams EXCEPT ![i] = t] /\ s.phase = "live" /\ ~s.dead
    BY <1>3, <2>1, Zenon DEF PushFull
  <2>3. IsStream(s) /\ StreamOK(s, DOMAIN nodes, nextId) /\ IsSeq(s.out)
    BY <2>1, StreamFacts
  <2>4. /\ IsStream(u) /\ u.leg = s.leg /\ u.nid = s.nid /\ u.phase = s.phase /\ u.dead = s.dead
        /\ u.queue = s.queue /\ u.out = s.out
    BY <2>1, <2>3, Zenon DEF IsStream
  <2>5. /\ IsStream(t) /\ t.leg = u.leg /\ t.nid = u.nid /\ t.phase = u.phase /\ t.dead = u.dead
        /\ t.queue = u.queue /\ IsSeq(t.out) /\ t.out = Append(u.out, f)
    <3>1. IsSeq(u.out) /\ ~u.dead
      BY <2>2, <2>3, <2>4
    <3>2. Sends(u, t, f)
      BY <2>1, <2>4, <3>1, SendOK, Zenon
    <3>. QED  BY <3>2 DEF Sends
  <2>6. StreamOK(t, DOMAIN nodes, nextId)
    BY <2>3, <2>4, <2>5 DEF StreamOK
  <2>7. \A sn : UpToDate(t, sn, nodes)
    <3>1. t.nid = s.nid /\ t.out = Append(s.out, f)
      BY <2>4, <2>5
    <3>. QED  BY <2>1, <2>3, <3>1, FullUpToDate
  <2>8. t.leg = streams[i].leg /\ ~t.dead
    BY <2>1, <2>2, <2>4, <2>5
  <2>9. \A c \in Legs : leg[c].stream = i =>
          (t.dead => t.phase = "panicked") /\ (~leg[c].torn /\ ~t.dead => UpToDate(t, leg[c].snapshot, nodes))
    BY <2>7, <2>8
  <2>. QED  BY <1>1, <2>2, <2>6, <2>8, <2>9, StreamStep, Zenon
<1>. QED  BY <1>2, <1>3

\* PushDelta: the event taken is answered with what the registry holds of its node, or a later event is.
LEMMA PushDeltaInv ==
    ASSUME Inv, NEW i \in DOMAIN streams, PushDelta(i)
    PROVE  Inv'
<1>1. PICK s, e, q, changed, removed, f, u :
        /\ s = streams[i] /\ e = Head(s.queue) /\ q = Tail(s.queue) /\ u = [s EXCEPT !.queue = q]
        /\ changed = (IF e.removed THEN {} ELSE {e.nid} \cap DOMAIN nodes)
        /\ removed = (IF e.removed THEN {e.nid} ELSE {}) /\ f = DeltaFrame(changed, removed)
  BY Zenon
<1>2. PICK t : t = (IF ~e.removed /\ e.nid = s.nid THEN u ELSE Send(u, f))
  BY Zenon
<1>3. /\ streams' = [streams EXCEPT ![i] = t] /\ UNCHANGED <<env, nodes, nextId, leg>>
      /\ s.phase = "live" /\ ~s.dead /\ s.queue # <<>>
  BY <1>1, <1>2, Zenon DEF PushDelta
<1>4. /\ IsStream(s) /\ StreamOK(s, DOMAIN nodes, nextId) /\ IsSeq(s.out) /\ IsSeq(s.queue)
      /\ Orderly(s.queue, DOMAIN nodes, nextId)
  BY <1>1, <1>3, StreamFacts DEF StreamOK
<1>5. IsSeq(q) /\ Orderly(q, DOMAIN nodes, nextId)
  BY <1>1, <1>3, <1>4, TailSeq, OrderlyTail, Zenon
<1>6. /\ IsStream(u) /\ u.leg = s.leg /\ u.nid = s.nid /\ u.phase = s.phase /\ u.dead = s.dead
      /\ u.queue = q /\ u.lagged = s.lagged /\ u.missed = s.missed /\ u.out = s.out
  BY <1>1, <1>4, Zenon DEF IsStream
<1>7. ASSUME NEW n, ~Awaits(q, n), n # e.nid PROVE ~Awaits(s.queue, n)
  BY <1>1, <1>3, <1>4, <1>7, AwaitsTail, Zenon
<1>8. CASE ~e.removed /\ e.nid = s.nid
  <2>1. t = u
    BY <1>2, <1>8
  <2>2. StreamOK(t, DOMAIN nodes, nextId)
    BY <1>3, <1>4, <1>5, <1>6, <2>1 DEF StreamOK
  <2>3. ASSUME NEW c \in Legs, leg[c].stream = i, ~leg[c].torn PROVE UpToDate(t, leg[c].snapshot, nodes)
    <3>1. UpToDate(s, leg[c].snapshot, nodes)
      BY <1>1, <1>3, <2>3, StreamFacts
    <3>. QED  BY <1>6, <1>7, <1>8, <2>1, <3>1 DEF UpToDate
  <2>4. \A c \in Legs : leg[c].stream = i =>
          (t.dead => t.phase = "panicked") /\ (~leg[c].torn /\ ~t.dead => UpToDate(t, leg[c].snapshot, nodes))
    BY <1>3, <1>6, <2>1, <2>3
  <2>5. t.leg = streams[i].leg
    BY <1>1, <1>6, <2>1
  <2>. QED  BY <1>3, <2>2, <2>4, <2>5, StreamStep, Zenon
<1>9. CASE ~(~e.removed /\ e.nid = s.nid)
  <2>1. t = Send(u, f)
    BY <1>2, <1>9, Zenon
  <2>2. Sends(u, t, f)
    <3>1. IsSeq(u.out) /\ ~u.dead
      BY <1>3, <1>4, <1>6
    <3>. QED  BY <1>6, <2>1, <3>1, SendOK, Zenon
  <2>3. /\ IsStream(t) /\ t.leg = s.leg /\ t.nid = s.nid /\ t.phase = s.phase /\ t.dead = s.dead
        /\ t.queue = q /\ t.lagged = s.lagged /\ t.missed = s.missed /\ IsSeq(t.out) /\ t.out = Append(s.out, f)
    BY <1>6, <2>2 DEF Sends
  <2>4. StreamOK(t, DOMAIN nodes, nextId)
    BY <1>3, <1>4, <1>5, <2>3 DEF StreamOK
  <2>5. ASSUME NEW n
        PROVE  /\ Speaks(f, n) <=> n \in changed \cup removed
               /\ n \in changed => Says(f, n) = Held(nodes, n)
               /\ n \in removed => Says(f, n) = {}
    <3>1. changed \subseteq DOMAIN nodes /\ removed \cap changed = {}
      BY <1>1
    <3>2. f = DeltaFrame(changed, removed)
      BY <1>1, Zenon
    <3>. QED  BY <3>1, <3>2, DeltaSays
  <2>6. ASSUME NEW n, n = e.nid, ~Awaits(q, n) PROVE Speaks(f, n) /\ Says(f, n) = Held(nodes, n)
    <3>1. /\ Len(s.queue) \in Nat \ {0} /\ DOMAIN s.queue = 1..Len(s.queue) /\ DOMAIN q = 1..(Len(s.queue) - 1)
          /\ e = s.queue[1] /\ \A k \in 1..(Len(s.queue) - 1) : q[k] = s.queue[k + 1]
      BY <1>1, <1>3, <1>4, TailSeq
    <3>2. 1 \in DOMAIN s.queue
      BY <3>1
    <3>3. CASE e.removed
      <4>1. n \notin DOMAIN nodes
        BY <1>4, <2>6, <3>1, <3>2, <3>3 DEF Orderly
      <4>2. Held(nodes, n) = {} /\ n \in removed
        BY <1>1, <2>6, <3>3, <4>1 DEF Held
      <4>. QED  BY <2>5, <4>2
    <3>4. CASE ~e.removed
      <4>1. n \in DOMAIN nodes \/ \E j \in DOMAIN s.queue : j > 1 /\ s.queue[j].nid = n
        BY <1>4, <2>6, <3>1, <3>2, <3>4 DEF Orderly
      <4>2. \A j \in DOMAIN s.queue : j > 1 => j - 1 \in DOMAIN q /\ q[j - 1] = s.queue[j]
        BY <3>1
      <4>3. n \in DOMAIN nodes
        BY <2>6, <4>1, <4>2 DEF Awaits
      <4>4. n \in changed
        BY <1>1, <2>6, <3>4, <4>3
      <4>. QED  BY <2>5, <4>4
    <3>. QED  BY <3>3, <3>4
  <2>7. ASSUME NEW c \in Legs, leg[c].stream = i, ~leg[c].torn PROVE UpToDate(t, leg[c].snapshot, nodes)
    <3>1. UpToDate(s, leg[c].snapshot, nodes)
      BY <1>1, <1>3, <2>7, StreamFacts
    <3>2. ASSUME ~s.lagged, NEW n, n \notin s.missed /\ n # s.nid /\ ~Awaits(q, n)
          PROVE  Leaves(t.out, n, Heard(leg[c].snapshot, n), Held(nodes, n))
      <4>1. PICK a, b, o, p : /\ a = Held(nodes, n) /\ b = Heard(leg[c].snapshot, n) /\ o = s.out /\ p = t.out
        OBVIOUS
      <4>4. p = Append(o, f) /\ IsSeq(o)
        BY <1>4, <2>3, <4>1
      <4>2. CASE n = e.nid
        <5>1. Speaks(f, n) /\ Says(f, n) = a
          BY <2>6, <3>2, <4>1, <4>2
        <5>2. Leaves(p, n, b, a)
          BY <4>4, <5>1, LeavesAppend, Zenon
        <5>. QED  BY <4>1, <5>2
      <4>3. CASE n # e.nid
        <5>1. ~Awaits(s.queue, n)
          BY <1>7, <3>2, <4>3
        <5>2. Leaves(o, n, b, a)
          BY <1>3, <3>1, <3>2, <4>1, <5>1 DEF UpToDate
        <5>3. n \notin changed \cup removed
          BY <1>1, <4>3
        <5>4. ~Speaks(f, n)
          BY <2>5, <5>3
        <5>5. Leaves(p, n, b, a)
          BY <4>4, <5>2, <5>4, LeavesAppend, Zenon
        <5>. QED  BY <4>1, <5>5
      <4>. QED  BY <4>2, <4>3
    <3>. QED  BY <2>3, <3>2 DEF UpToDate
  <2>8. \A c \in Legs : leg[c].stream = i =>
          (t.dead => t.phase = "panicked") /\ (~leg[c].torn /\ ~t.dead => UpToDate(t, leg[c].snapshot, nodes))
    BY <1>3, <2>3, <2>7
  <2>9. t.leg = streams[i].leg
    BY <1>1, <2>3
  <2>. QED  BY <1>3, <2>4, <2>8, <2>9, StreamStep, Zenon
<1>. QED  BY <1>8, <1>9

\* A change of a node and the event for it, whether or not there is one.
LEMMA UpdateFollowed ==
    ASSUME env.cap \in Nat \ {0}, RegistryOK(nodes, nextId), NEW ss, StreamsOK(ss, DOMAIN nodes, nextId),
           NEW x, NEW request, NEW ns2, ns2 = Updated(nodes, x, request),
           NEW tt, tt = UpdateEvent(ss, x, nodes, ns2)
    PROVE  RegistryOK(ns2, nextId) /\ AllFollow(ss, tt, nodes, ns2, nextId)
<1>1. PICK ns, next : ns = nodes /\ next = nextId
  OBVIOUS
<1>2. /\ RegistryOK(ns2, next) /\ DOMAIN ns2 = DOMAIN ns /\ ElseSame(ns, ns2, x)
      /\ x \in DOMAIN ns /\ ns2[x].approved = ns[x].approved => Held(ns2, x) = Held(ns, x)
  BY <1>1, UpdatedFacts
<1>3. \/ x \in DOMAIN ns /\ tt = Change(ss, x)
      \/ tt = ss /\ Held(ns2, x) = Held(ns, x)
  <2>1. CASE x \notin DOMAIN ns
    <3>1. Held(ns2, x) = Held(ns, x)
      BY <1>2, <2>1 DEF Held
    <3>. QED  BY <1>1, <2>1, <3>1 DEF UpdateEvent
  <2>2. CASE x \in DOMAIN ns /\ ns2[x].approved = ns[x].approved
    BY <1>1, <1>2, <2>2 DEF UpdateEvent
  <2>3. CASE x \in DOMAIN ns /\ ns2[x].approved # ns[x].approved
    BY <1>1, <2>3, Zenon DEF UpdateEvent, Change
  <2>. QED  BY <2>1, <2>2, <2>3
<1>4. SameIds(ns, ns2) /\ RegistryOK(ns, next) /\ StreamsOK(ss, DOMAIN ns, next)
  BY <1>1, <1>2 DEF SameIds
<1>5. AllFollow(ss, tt, ns, ns2, next)
  BY <1>2, <1>3, <1>4, AnnounceOK, Zenon
<1>. QED  BY <1>1, <1>2, <1>5

\* The same for mark_online.
LEMMA MarkFollowed ==
    ASSUME env.cap \in Nat \ {0}, RegistryOK(nodes, nextId), NEW ss, StreamsOK(ss, DOMAIN nodes, nextId),
           NEW x, NEW online, NEW ns2, ns2 = Marked(nodes, x, online),
           NEW tt, tt = MarkEvent(ss, x, online)
    PROVE  /\ RegistryOK(ns2, nextId) /\ AllFollow(ss, tt, nodes, ns2, nextId)
           /\ DOMAIN ns2 = DOMAIN nodes /\ \A n : Held(ns2, n) = Held(nodes, n)
<1>1. PICK ns, next : ns = nodes /\ next = nextId
  OBVIOUS
<1>2. RegistryOK(ns2, next) /\ DOMAIN ns2 = DOMAIN ns /\ \A n : Held(ns2, n) = Held(ns, n)
  BY <1>1, MarkedFacts
<1>3. \/ x \in DOMAIN ns /\ tt = Change(ss, x)
      \/ tt = ss /\ Held(ns2, x) = Held(ns, x)
  BY <1>1, <1>2, Zenon DEF MarkEvent, Change
<1>4. SameIds(ns, ns2) /\ RegistryOK(ns, next) /\ StreamsOK(ss, DOMAIN ns, next) /\ ElseSame(ns, ns2, x)
  BY <1>1, <1>2 DEF SameIds, ElseSame
<1>5. AllFollow(ss, tt, ns, ns2, next)
  BY <1>2, <1>3, <1>4, AnnounceOK, Zenon
<1>. QED  BY <1>1, <1>2, <1>5

\* map_endpoints_update.
LEMMA LiteInv ==
    ASSUME Inv, NEW c \in Legs, Lite(c)
    PROVE  Inv'
<1>1. PICK l, k : l = leg[c] /\ k = [l EXCEPT !.todo = "read"]
  BY Zenon
<1>2. leg' = [leg EXCEPT ![c] = k] /\ UNCHANGED <<env, nextId>>
  BY <1>1, Zenon DEF Lite, Set
<1>3. IsProcess(l)
  BY <1>1, LegFacts
<1>4. GoesOn(l, k)
  BY <1>1, <1>3 DEF IsProcess, GoesOn
<1>5. CASE ~post_json(c)
  <2>1. UNCHANGED <<nodes, streams>>
    BY <1>5, Zenon DEF Lite
  <2>. QED  BY <1>1, <1>2, <1>4, <2>1, LegStep, Zenon
<1>6. CASE post_json(c)
  <2>1. PICK n, request, ns2, tt : /\ ns2 = Updated(nodes, n, request) /\ tt = UpdateEvent(streams, n, nodes, ns2)
                                   /\ nodes' = ns2 /\ streams' = tt
    BY <1>6, Zenon DEF Lite
  <2>2. env.cap \in Nat \ {0} /\ RegistryOK(nodes, nextId) /\ StreamsOK(streams, DOMAIN nodes, nextId)
    BY DEF Inv
  <2>3. RegistryOK(ns2, nextId) /\ AllFollow(streams, tt, nodes, ns2, nextId)
    BY <2>1, <2>2, UpdateFollowed, Zenon
  <2>4. RegistryOK(nodes', nextId') /\ AllFollow(streams, streams', nodes, nodes', nextId')
    BY <1>2, <2>1, <2>3, Zenon
  <2>5. DOMAIN leg = Legs /\ \A d \in Legs : LegOK(d, leg[d], streams, nodes)
    BY DEF Inv
  <2>6. LegOK(c, k, streams, nodes)
    BY <1>1, <1>4, <2>5, LegKept
  <2>7. DOMAIN leg' = Legs /\ \A d \in Legs : LegOK(d, leg'[d], streams, nodes)
    BY <1>2, <2>5, <2>6
  <2>. QED  BY <1>2, <2>4, <2>7, RegistryStep
<1>. QED  BY <1>5, <1>6

\* The entry of a node changes, and one stream takes a step of its own.
LEMMA MarkStep ==
    ASSUME Inv, UNCHANGED <<env, leg>>, RegistryOK(nodes', nextId'), StreamsOK(streams', DOMAIN nodes', nextId'),
           NEW tt, AllFollow(streams, tt, nodes, nodes', nextId'),
           NEW i, \A j \in DOMAIN streams : j # i => j \in DOMAIN streams' /\ streams'[j] = tt[j],
           \A c \in Legs : leg[c].stream = i => LegOK(c, leg[c], streams', nodes')
    PROVE  Inv'
<1>1. PICK uu, ns2 : uu = streams' /\ ns2 = nodes'
  OBVIOUS
<1>2. ASSUME NEW c \in Legs, leg[c].stream # i PROVE LegOK(c, leg[c], uu, ns2)
  <2>1. /\ LegOK(c, leg[c], streams, nodes) /\ IsProcess(leg[c]) /\ Routed(leg[c])
        /\ Owns(c, leg[c].stream, streams)
    BY LegFacts
  <2>2. \A j \in DOMAIN streams : Follows(streams[j], tt[j], nodes, ns2)
    BY <1>1 DEF AllFollow
  <2>3. leg[c].stream # 0 =>
          leg[c].stream \in DOMAIN uu /\ Follows(streams[leg[c].stream], uu[leg[c].stream], nodes, ns2)
    BY <1>1, <1>2, <2>1, <2>2 DEF Owns
  <2>. QED  BY <2>1, <2>3, LegFollows
<1>3. \A c \in Legs : LegOK(c, leg'[c], streams', nodes')
  BY <1>1, <1>2
<1>. QED  BY <1>3 DEF Inv

\* Apply: a MapRequest takes effect.
LEMMA ApplyInv ==
    ASSUME Inv, NEW i \in DOMAIN streams, Apply(i)
    PROVE  Inv'
<1>1. PICK s, ns2, u : s = streams[i] /\ ns2 = Updated(nodes, s.nid, s.request) /\ u = [s EXCEPT !.phase = "poll"]
  BY Zenon
<1>2. s.phase = "map" /\ nodes' = ns2 /\ UNCHANGED <<env, nextId>>
  BY <1>1, Zenon DEF Apply
<1>3. leg' = IF s.dead THEN leg ELSE [leg EXCEPT ![s.leg].phase = "holding"]
  BY <1>1, Zenon DEF Apply
<1>4. PICK ss : /\ ss = [streams EXCEPT ![i] = u] \/ (s.dead /\ ss = Drop(streams, i))
                /\ streams' = UpdateEvent(ss, s.nid, nodes, ns2)
  <2>1. PICK ss \in {[streams EXCEPT ![i].phase = "poll"]} \cup (IF s.dead THEN {Drop(streams, i)} ELSE {}) :
          streams' = UpdateEvent(ss, s.nid, nodes, ns2)
    BY <1>1, Zenon DEF Apply
  <2>2. ss = [streams EXCEPT ![i].phase = "poll"] \/ (s.dead /\ ss = Drop(streams, i))
    BY <2>1, Zenon
  <2>3. [streams EXCEPT ![i].phase = "poll"] = [streams EXCEPT ![i] = u]
    BY <1>1, Zenon
  <2>. QED  BY <2>1, <2>2, <2>3, Zenon
<1>5. env.cap \in Nat \ {0} /\ RegistryOK(nodes, nextId) /\ StreamsOK(streams, DOMAIN nodes, nextId) /\ DOMAIN leg = Legs
  BY DEF Inv
<1>6. IsStream(s) /\ StreamOK(s, DOMAIN nodes, nextId) /\ i # 0 /\ s.leg \in Legs
  BY <1>1, StreamFacts DEF StreamOK
<1>7. IsStream(u) /\ u.phase = "poll" /\ u.leg = s.leg /\ u.dead = s.dead /\ u.queue = s.queue /\ u.out = s.out
  BY <1>1, <1>6 DEF IsStream
<1>8. StreamOK(u, DOMAIN nodes, nextId)
  BY <1>2, <1>6, <1>7 DEF StreamOK
<1>9. ASSUME ss = [streams EXCEPT ![i] = u]
      PROVE  DOMAIN ss = DOMAIN streams /\ ss[i] = u /\ \A j \in DOMAIN streams : j # i => ss[j] = streams[j]
  BY <1>9
<1>10. ASSUME ss = Drop(streams, i)
       PROVE  DOMAIN ss = DOMAIN streams \ {i} /\ \A j \in DOMAIN ss : ss[j] = streams[j]
  BY <1>10 DEF Drop
<1>11. StreamsOK(ss, DOMAIN nodes, nextId)
  <2>1. CASE ss = [streams EXCEPT ![i] = u]
    BY <1>5, <1>8, <1>9, <2>1 DEF StreamsOK
  <2>2. CASE ss = Drop(streams, i)
    <3>1. IsFiniteSet(DOMAIN streams \ {i})
      BY <1>5, FiniteSubset DEF StreamsOK
    <3>. QED  BY <1>5, <1>10, <2>2, <3>1 DEF StreamsOK
  <2>. QED  BY <1>4, <2>1, <2>2
<1>12. ASSUME NEW c \in Legs PROVE LegOK(c, leg[c], ss, nodes)
  <2>1. LegOK(c, leg[c], streams, nodes) /\ IsProcess(leg[c]) /\ Routed(leg[c]) /\ Owns(c, leg[c].stream, streams)
    BY LegFacts
  <2>2. CASE leg[c].stream = i
    <3>1. ~s.dead /\ s.leg = c
      BY <1>1, <1>2, <1>6, <2>1, <2>2 DEF Owns
    <3>2. DOMAIN ss = DOMAIN streams /\ ss[i] = u
      BY <1>4, <1>9, <3>1
    <3>3. Owns(c, i, ss) /\ UpToDate(ss[i], leg[c].snapshot, nodes)
      BY <1>7, <3>1, <3>2 DEF Owns, UpToDate
    <3>. QED  BY <2>1, <2>2, <3>3 DEF LegOK
  <2>3. CASE leg[c].stream # i
    <3>1. leg[c].stream # 0 => leg[c].stream \in DOMAIN ss /\ ss[leg[c].stream] = streams[leg[c].stream]
      BY <1>4, <1>9, <1>10, <2>1, <2>3 DEF Owns
    <3>. QED  BY <2>1, <3>1, OtherLeg
  <2>. QED  BY <2>2, <2>3
<1>13. DOMAIN leg' = Legs /\ \A c \in Legs : LegOK(c, leg'[c], ss, nodes)
  <2>1. CASE s.dead
    BY <1>3, <1>5, <1>12, <2>1
  <2>2. CASE ~s.dead
    <3>1. PICK d, l, k : d = s.leg /\ l = leg[d] /\ k = [l EXCEPT !.phase = "holding"]
      BY Zenon
    <3>2. leg' = [leg EXCEPT ![d] = k] /\ d \in Legs
      BY <1>3, <1>6, <2>2, <3>1, Zenon
    <3>3. IsProcess(l) /\ LegOK(d, l, ss, nodes)
      BY <1>12, <3>1, <3>2, LegFacts
    <3>4. GoesOn(l, k)
      BY <3>1, <3>3 DEF IsProcess, GoesOn
    <3>5. LegOK(d, k, ss, nodes)
      BY <3>3, <3>4, LegKept
    <3>. QED  BY <1>5, <1>12, <3>2, <3>5
  <2>. QED  BY <2>1, <2>2
<1>14. PICK x, r, tt : x = s.nid /\ r = s.request /\ tt = UpdateEvent(ss, x, nodes, ns2) /\ streams' = tt
  BY <1>4
<1>15. ns2 = Updated(nodes, x, r)
  BY <1>1, <1>14
<1>16. RegistryOK(ns2, nextId) /\ AllFollow(ss, tt, nodes, ns2, nextId)
  BY <1>5, <1>11, <1>14, <1>15, UpdateFollowed, Zenon
<1>17. RegistryOK(nodes', nextId') /\ AllFollow(ss, streams', nodes, nodes', nextId')
  BY <1>2, <1>14, <1>16, Zenon
<1>. QED  BY <1>2, <1>13, <1>17, RegistryStep

\* FirstFrame: the node is online and the stream sends the whole netmap, or the task panics.
LEMMA FirstFrameInv ==
    ASSUME Inv, NEW i \in DOMAIN streams, FirstFrame(i)
    PROVE  Inv'
<1>1. UNCHANGED <<env, nextId, leg>> /\ streams[i].phase = "poll"
  BY DEF FirstFrame
<1>2. CASE streams[i].nid \notin DOMAIN nodes
  <2>1. streams' = [streams EXCEPT ![i] = Cut([streams[i] EXCEPT !.phase = "panicked"])] /\ nodes' = nodes
    BY <1>2, Zenon DEF FirstFrame
  <2>. QED  BY <1>1, <2>1, PanicStep, Zenon
<1>3. CASE streams[i].nid \in DOMAIN nodes
  <2>1. PICK s, x, f, u, t, ns2, tt, uu :
          /\ s = streams[i] /\ x = s.nid /\ f = FullFrame(x) /\ u = [s EXCEPT !.phase = "sent"] /\ t = Send(u, f)
          /\ ns2 = Marked(nodes, x, TRUE) /\ tt = MarkEvent(streams, x, TRUE) /\ uu = [tt EXCEPT ![i] = t]
    BY Zenon
  <2>2. nodes' = ns2 /\ streams' = uu
    BY <1>3, <2>1, Zenon DEF FirstFrame
  <2>3. env.cap \in Nat \ {0} /\ RegistryOK(nodes, nextId) /\ StreamsOK(streams, DOMAIN nodes, nextId)
    BY DEF Inv
  <2>4. /\ RegistryOK(ns2, nextId) /\ AllFollow(streams, tt, nodes, ns2, nextId)
        /\ DOMAIN ns2 = DOMAIN nodes /\ \A n : Held(ns2, n) = Held(nodes, n)
    BY <2>1, <2>3, MarkFollowed, Zenon
  <2>5. IsStream(s) /\ StreamOK(s, DOMAIN nodes, nextId) /\ IsSeq(s.out) /\ i # 0 /\ s.queue = <<>>
    BY <1>1, <2>1, StreamFacts DEF StreamOK
  <2>6. /\ IsStream(u) /\ u.leg = s.leg /\ u.nid = s.nid /\ u.phase = "sent" /\ u.dead = s.dead
        /\ u.queue = s.queue /\ u.out = s.out
    BY <2>1, <2>5 DEF IsStream
  <2>7. ~s.dead => Sends(u, t, f)
    <3>1. IsSeq(u.out)
      BY <2>5, <2>6
    <3>. QED  BY <2>1, <2>6, <3>1, SendOK, Zenon
  <2>8. s.dead => t = u
    BY <2>1, <2>6 DEF Send
  <2>9. IsStream(t) /\ t.leg = s.leg /\ t.nid = s.nid /\ t.phase = "sent" /\ t.dead = s.dead /\ t.queue = s.queue /\ IsSeq(t.out)
    BY <2>5, <2>6, <2>7, <2>8 DEF Sends
  <2>10. StreamOK(t, DOMAIN ns2, nextId)
    BY <2>5, <2>9 DEF StreamOK
  <2>11. StreamsOK(tt, DOMAIN ns2, nextId) /\ DOMAIN tt = DOMAIN streams
    BY <2>4 DEF AllFollow
  <2>12. DOMAIN uu = DOMAIN streams /\ uu[i] = t /\ \A j \in DOMAIN streams : j # i => uu[j] = tt[j]
    BY <2>1, <2>11, Zenon
  <2>13. StreamsOK(uu, DOMAIN ns2, nextId)
    BY <2>10, <2>11, <2>12 DEF StreamsOK
  <2>14. ASSUME ~s.dead, NEW sn PROVE UpToDate(t, sn, ns2)
    <3>1. t.nid = s.nid /\ t.out = Append(s.out, f) /\ f = FullFrame(s.nid)
      BY <2>1, <2>6, <2>7, <2>14 DEF Sends
    <3>2. UpToDate(t, sn, nodes)
      BY <2>5, <3>1, FullUpToDate
    <3>. QED  BY <2>4, <3>2 DEF UpToDate
  <2>15. ASSUME NEW c \in Legs, leg[c].stream = i PROVE LegOK(c, leg[c], uu, ns2)
    <3>1. IsProcess(leg[c]) /\ Routed(leg[c]) /\ Owns(c, i, streams)
      BY <2>15, LegFacts
    <3>2. ~s.dead /\ s.leg = c
      BY <1>1, <2>1, <2>5, <3>1 DEF Owns
    <3>3. Owns(c, i, uu)
      BY <2>9, <2>12, <3>2 DEF Owns
    <3>. QED  BY <2>12, <2>14, <2>15, <3>1, <3>2, <3>3 DEF LegOK
  <2>16. /\ RegistryOK(nodes', nextId') /\ StreamsOK(streams', DOMAIN nodes', nextId')
         /\ AllFollow(streams, tt, nodes, nodes', nextId')
    BY <1>1, <2>2, <2>4, <2>13
  <2>17. /\ \A j \in DOMAIN streams : j # i => j \in DOMAIN streams' /\ streams'[j] = tt[j]
         /\ \A c \in Legs : leg[c].stream = i => LegOK(c, leg[c], streams', nodes')
    BY <2>2, <2>12, <2>15
  <2>. QED  BY <1>1, <2>16, <2>17, MarkStep
<1>. QED  BY <1>2, <1>3

\* EndStream: a stream that no leg reads ends, and its node is offline.
LEMMA EndStreamInv ==
    ASSUME Inv, NEW i \in DOMAIN streams, EndStream(i)
    PROVE  Inv'
<1>1. PICK x, ns2, tt, uu : /\ x = streams[i].nid /\ ns2 = Marked(nodes, x, FALSE)
                            /\ tt = MarkEvent(streams, x, FALSE) /\ uu = Drop(tt, i)
  BY Zenon
<1>2. /\ nodes' = ns2 /\ streams' = uu /\ UNCHANGED <<env, nextId, leg>>
      /\ streams[i].phase \in {"sent", "live"} /\ streams[i].dead
  BY <1>1, Zenon DEF EndStream
<1>3. env.cap \in Nat \ {0} /\ RegistryOK(nodes, nextId) /\ StreamsOK(streams, DOMAIN nodes, nextId)
  BY DEF Inv
<1>4. RegistryOK(ns2, nextId) /\ AllFollow(streams, tt, nodes, ns2, nextId)
  BY <1>1, <1>3, MarkFollowed, Zenon
<1>5. StreamsOK(tt, DOMAIN ns2, nextId) /\ DOMAIN tt = DOMAIN streams
  BY <1>4 DEF AllFollow
<1>6. DOMAIN uu = DOMAIN streams \ {i} /\ \A j \in DOMAIN uu : uu[j] = tt[j]
  BY <1>1, <1>5, Zenon DEF Drop
<1>7. StreamsOK(uu, DOMAIN ns2, nextId)
  <2>1. IsFiniteSet(DOMAIN streams \ {i})
    BY <1>3, FiniteSubset DEF StreamsOK
  <2>. QED  BY <1>5, <1>6, <2>1 DEF StreamsOK
<1>8. ASSUME NEW c \in Legs, leg[c].stream = i PROVE FALSE
  <2>1. Owns(c, i, streams) /\ i # 0
    BY <1>8, LegFacts, StreamFacts
  <2>. QED  BY <1>2, <2>1 DEF Owns
<1>9. /\ RegistryOK(nodes', nextId') /\ StreamsOK(streams', DOMAIN nodes', nextId')
      /\ AllFollow(streams, tt, nodes, nodes', nextId')
  BY <1>2, <1>4, <1>7
<1>10. /\ \A j \in DOMAIN streams : j # i => j \in DOMAIN streams' /\ streams'[j] = tt[j]
       /\ \A c \in Legs : leg[c].stream = i => LegOK(c, leg[c], streams', nodes')
  BY <1>2, <1>6, <1>8
<1>. QED  BY <1>2, <1>9, <1>10, MarkStep

-----------------------------------------------------------------------------
(* All steps.                                                              *)

\* A step of the server, of a leg or a fault.
LEMMA StepInv ==
    ASSUME Inv, Spare(DOMAIN streams), [Next]_vars
    PROVE  Inv'
<1>1. CASE UNCHANGED vars
  BY <1>1 DEF vars, Inv
<1>2. ASSUME NEW i \in DOMAIN streams,
             Apply(i) \/ FirstFrame(i) \/ Subscribe(i) \/ PushDelta(i) \/ PushFull(i) \/ EndStream(i)
      PROVE  Inv'
  BY <1>2, ApplyInv, FirstFrameInv, SubscribeInv, PushDeltaInv, PushFullInv, EndStreamInv
<1>3. ASSUME NEW d \in derps, EndDerp(d) PROVE Inv'
  BY <1>3 DEF EndDerp, Inv
<1>4. ASSUME NEW c \in Legs, \/ fetch_control_key(c) \/ Connect(c) \/ Establish(c) \/ EstablishFails(c)
                             \/ MapStream(c) \/ MapFails(c) \/ Netmap(c) \/ StreamFails(c)
                             \/ Poke(c) \/ Lite(c) \/ ConnectDerp(c) \/ DerpError(c) \/ DerpLost(c)
      PROVE  Inv'
  BY <1>4, ConnectInv, EstablishInv, StartOverInv, MapStreamInv, NetmapInv, StreamFailsInv, PokeInv, LiteInv, DerpInv
<1>5. ASSUME NEW c \in Legs, SetMeshRoutes(c) \/ Break(c) \/ RestartLeg(c) \/ evict(c) \/ Swallow(c) PROVE Inv'
  BY <1>5, DerpInv, BreakInv, EvictInv, PokeInv
<1>6. CASE Wipe
  BY <1>6, WipeInv
<1>. QED  BY <1>1, <1>2, <1>3, <1>4, <1>5, <1>6, Zenon DEF Next, Program, Faulty

-----------------------------------------------------------------------------
(* The beginning.                                                          *)

\* A settled leg was told what the registry holds.
LEMMA HoldingOK ==
    ASSUME NEW q, NEW k \in DOMAIN q, NEW l, l = Holding(q, k),
           NEW ns, ns = [j \in DOMAIN q |-> Entry(q[j], <<q[j], 1>>)]
    PROVE  /\ IsProcess(l) /\ Routed(l) /\ l.stream = k /\ l.key = <<q[k], 1>>
           /\ \A n : n # k => Heard(l.snapshot, n) = Held(ns, n)
           /\ DOMAIN l.snapshot = DOMAIN q \ {k} /\ \A j \in DOMAIN l.snapshot : l.snapshot[j].key = <<q[j], 1>>
<1>1. PICK p, d, sn, h :
        /\ p = Process(q[k], 1) /\ d = <<<<q[k], 1>>, 1>>
        /\ sn = [j \in DOMAIN q \ {k} |-> [key |-> <<q[j], 1>>, routes |-> Static[q[j]] \cap Whitelist, endpoints |-> j < k]]
        /\ h = [p EXCEPT !.phase = "holding", !.stream = k, !.derp = d, !.preferred = TRUE, !.snapshot = sn]
  BY Zenon
<1>2. l = pump_ts2021(h)
  BY <1>1, Zenon DEF Holding
<1>3. IsProcess(p)
  BY <1>1, ProcessFacts
<1>4. IsProcess(h) /\ h.key = p.key /\ h.stream = k /\ h.snapshot = sn
  BY <1>1, <1>3, Zenon DEF IsProcess
<1>5. IsProcess(l) /\ Routed(l) /\ l.key = p.key /\ l.stream = k /\ l.snapshot = sn
  BY <1>2, <1>4, PumpFacts
<1>6. ASSUME NEW n, n # k PROVE Heard(sn, n) = Held(ns, n)
  BY <1>1, <1>6, Zenon DEF Heard, Held, Gist, Entry
<1>7. DOMAIN sn = DOMAIN q \ {k} /\ \A j \in DOMAIN sn : sn[j].key = <<q[j], 1>>
  BY <1>1
<1>8. p.key = <<q[k], 1>>
  BY <1>1 DEF Process
<1>. QED  BY <1>5, <1>6, <1>7, <1>8

\* The initial states.
LEMMA InitInv ==
    ASSUME Init, Lists(Numbered(env.settled), env.settled)
    PROVE  Inv
<1>1. env \in Env
  BY TailnetAssumption DEF Init
<1>2. env.cap \in Nat \ {0} /\ env.settled \subseteq Legs
  BY <1>1 DEF Env
<1>. DEFINE S == env.settled
            q == Numbered(S)
<1>4. /\ IsFiniteSet(DOMAIN q) /\ Len(q) \in Nat /\ DOMAIN q = 1..Len(q)
      /\ (\A k \in DOMAIN q : q[k] \in S) /\ \A c \in S : \E k \in DOMAIN q : q[k] = c
  BY Zenon DEF Lists
<1>5. /\ nodes = [k \in DOMAIN q |-> Entry(q[k], <<q[k], 1>>)] /\ nextId = Len(q) + 1
      /\ streams = [k \in DOMAIN q |-> [Stream(q[k], k, map_request_json(Static[q[k]])) EXCEPT !.phase = "live"]]
      /\ leg = [c \in Legs |-> IF c \in S THEN Holding(q, CHOOSE k \in DOMAIN q : q[k] = c)
                               ELSE IF c \in env.runs THEN Process(c, 1)
                               ELSE [Process(c, 1) EXCEPT !.phase = "off"]]
  BY Zenon DEF Init
<1>3. \A k \in DOMAIN q : q[k] \in Legs
  BY <1>2, <1>4
<1>. HIDE DEF S, q
<1>6. RegistryOK(nodes, nextId)
  <2>1. ASSUME NEW k \in DOMAIN q PROVE k \in Nat /\ k < nextId /\ IsEntry(nodes[k])
    <3>1. k \in Nat /\ k < nextId
      BY <1>4, <1>5
    <3>2. nodes[k] = Entry(q[k], <<q[k], 1>>)
      BY <1>5
    <3>3. IsEntry(Entry(q[k], <<q[k], 1>>))
      BY DEF Entry, IsEntry
    <3>. QED  BY <3>1, <3>2, <3>3
  <2>2. nextId \in Nat /\ DOMAIN nodes = DOMAIN q
    BY <1>4, <1>5
  <2>. QED  BY <2>1, <2>2 DEF RegistryOK
<1>7. DOMAIN streams = DOMAIN q
  BY <1>5
<1>8. ASSUME NEW k \in DOMAIN q
      PROVE  /\ StreamOK(streams[k], DOMAIN nodes, nextId) /\ streams[k].leg = q[k] /\ streams[k].nid = k
             /\ streams[k].phase = "live" /\ ~streams[k].dead /\ streams[k].out = <<>>
  <2>1. PICK r, u, s : r = map_request_json(Static[q[k]]) /\ u = Stream(q[k], k, r) /\ s = [u EXCEPT !.phase = "live"]
    BY Zenon
  <2>2. streams[k] = s
    BY <1>5, <2>1, Zenon
  <2>3. IsStream(u) /\ u.leg = q[k] /\ u.nid = k /\ u.dead = FALSE /\ u.queue = <<>> /\ u.out = <<>>
    BY <2>1 DEF Stream, IsStream
  <2>4. IsStream(s) /\ s.leg = q[k] /\ s.nid = k /\ s.dead = FALSE /\ s.queue = <<>> /\ s.out = <<>> /\ s.phase = "live"
    BY <2>1, <2>3 DEF IsStream
  <2>5. Orderly(<<>>, DOMAIN nodes, nextId) /\ q[k] \in Legs
    BY <1>3, EmptySeq DEF Orderly
  <2>6. StreamOK(s, DOMAIN nodes, nextId)
    BY <2>4, <2>5, EmptySeq DEF StreamOK
  <2>7. ~s.dead
    BY <2>4
  <2>. QED  BY <2>2, <2>4, <2>6, <2>7, Zenon
<1>9. StreamsOK(streams, DOMAIN nodes, nextId)
  <2>1. \A k \in DOMAIN q : k \in Nat \ {0}
    BY <1>4
  <2>. QED  BY <1>4, <1>7, <1>8, <2>1 DEF StreamsOK
<1>10. ASSUME NEW c \in Legs PROVE LegOK(c, leg[c], streams, nodes)
  <2>1. CASE c \in S
    <3>1. PICK k : k = (CHOOSE j \in DOMAIN q : q[j] = c)
      OBVIOUS
    <3>2. k \in DOMAIN q /\ q[k] = c
      BY <1>4, <2>1, <3>1
    <3>3. PICK l : l = Holding(q, k) /\ leg[c] = l
      BY <1>5, <2>1, <3>1, Zenon
    <3>4. /\ IsProcess(l) /\ Routed(l) /\ l.stream = k
          /\ \A n : n # k => Heard(l.snapshot, n) = Held(nodes, n)
      BY <1>5, <3>2, <3>3, HoldingOK
    <3>5. Owns(c, k, streams)
      BY <1>7, <1>8, <3>2 DEF Owns
    <3>6. UpToDate(streams[k], l.snapshot, nodes)
      <4>1. streams[k].nid = k /\ streams[k].out = <<>>
        BY <1>8, <3>2
      <4>2. \A n : n # k => Leaves(<<>>, n, Heard(l.snapshot, n), Held(nodes, n))
        BY <3>4, EmptySeq DEF Leaves
      <4>. QED  BY <4>1, <4>2 DEF UpToDate
    <3>. QED  BY <3>3, <3>4, <3>5, <3>6 DEF LegOK
  <2>2. CASE c \notin S
    <3>1. PICK l, k : /\ l = Process(c, 1) /\ leg[c] = k
                      /\ k = l \/ k = [l EXCEPT !.phase = "off"]
      BY <1>5, <2>2, Zenon
    <3>2. IsProcess(l) /\ Routed(l) /\ l.stream = 0
      BY <3>1, ProcessFacts
    <3>3. IsProcess(k) /\ k.stream = 0 /\ k.snapshot = l.snapshot /\ k.engine = l.engine /\ k.exits = l.exits
      BY <3>1, <3>2 DEF IsProcess
    <3>. QED  BY <3>1, <3>2, <3>3 DEF LegOK, Owns, Routed
  <2>. QED  BY <2>1, <2>2
<1>11. DOMAIN leg = Legs
  BY <1>5
<1>. QED  BY <1>2, <1>6, <1>9, <1>10, <1>11 DEF Inv

-----------------------------------------------------------------------------
(* What the invariant says.                                                *)

\* The invariant says what CaughtUp says.
LEMMA InvCaughtUp == Inv => CaughtUp
<1>. SUFFICES ASSUME Inv, NEW c \in Legs
              PROVE  /\ leg[c].engine = RoutesOf(leg[c].snapshot) /\ leg[c].exits = ExitsOf(leg[c].snapshot)
                     /\ Undisturbed(c) =>
                          \A n \in PeersOf(c) :
                            \/ Pending(streams[leg[c].stream], n)
                            \/ {Gist(v) : v \in Told(c, n)} = {Gist(v) : v \in Registered(n)}
  BY DEF CaughtUp
<1>1. Routed(leg[c])
  BY LegFacts
<1>2. ASSUME Undisturbed(c), NEW n, ~Pending(streams[leg[c].stream], n)
      PROVE  {Gist(v) : v \in Told(c, n)} = {Gist(v) : v \in Registered(n)}
  <2>1. PICK i, s : i = leg[c].stream /\ s = streams[i]
    OBVIOUS
  <2>2. i \in DOMAIN streams /\ ~s.dead /\ ~leg[c].torn
    BY <1>2, <2>1 DEF Undisturbed, Alive
  <2>3. UpToDate(s, leg[c].snapshot, nodes)
    BY <2>1, <2>2, StreamFacts
  <2>4. /\ s.phase \in {"sent", "live"} /\ ~s.lagged /\ n \notin s.missed /\ n # s.nid /\ ~Awaits(s.queue, n)
        /\ \A k \in DOMAIN s.out : ~Speaks(s.out[k], n)
    <3>1. ~Pending(s, n)
      BY <1>2, <2>1, Zenon
    <3>. QED  BY <3>1, Zenon DEF Pending, Awaits, Speaks
  <2>5. Heard(leg[c].snapshot, n) = Held(nodes, n)
    BY <2>3, <2>4 DEF UpToDate, Leaves
  <2>6. {Gist(v) : v \in Told(c, n)} = Heard(leg[c].snapshot, n)
    BY DEF Told, Heard
  <2>7. {Gist(v) : v \in Registered(n)} = Held(nodes, n)
    <3>1. PICK v : v = View(n)
      OBVIOUS
    <3>2. n \in DOMAIN nodes => Gist(v) = [key |-> nodes[n].key, routes |-> nodes[n].approved]
      BY <3>1 DEF View, Gist
    <3>. QED  BY <3>1, <3>2 DEF Registered, Held
  <2>. QED  BY <2>5, <2>6, <2>7, Zenon
<1>. QED  BY <1>1, <1>2, Zenon DEF Routed

=============================================================================
