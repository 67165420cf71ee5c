---------------------------- MODULE TailnetProofs ----------------------------
(***************************************************************************)
(* Proofs about the tailnet: a leg that reads an undisturbed map stream    *)
(* was told what the registry holds, and while the registry forgets nobody *)
(* a leg keeps the tunnels to the peers it has met.                        *)
(***************************************************************************)
EXTENDS TailnetStepProofs, TLAPS

(* Every leaf that names no prover is tried by the SMT translation, by it   *)
(* once more, and by Zenon.                                                *)
USE SMTT(10), Z3T(10), Zenon

-----------------------------------------------------------------------------
(* A step that reads no frame keeps tunnels.                               *)

\* Every leg reads a stream of its own after the step.
Owned == \A c \in Legs : Owns(c, leg'[c].stream, streams')

\* A step that reads no frame.
LEMMA KeptStep ==
    ASSUME Inv, Owned, InOrder,
           Onward(nodes, Keys(leg), nodes', Keys(leg')), RegistryKept(nodes', Keys(leg')),
           Inherited(streams, streams', nodes'), \A c \in Legs : Carries(leg[c], leg'[c], streams')
    PROVE  InOrder'
<1>1. PICK ns2, ky2, tt, lg, ky : ns2 = nodes' /\ ky2 = Keys(leg') /\ tt = streams' /\ lg = leg' /\ ky = Keys(leg)
  OBVIOUS
<1>2. /\ Onward(nodes, ky, ns2, ky2) /\ RegistryKept(ns2, ky2) /\ Inherited(streams, tt, ns2)
      /\ \A c \in Legs : Carries(leg[c], lg[c], tt)
  BY <1>1
<1>3. \A i \in DOMAIN streams : StreamKept(streams[i], nodes, ky) /\ IsSeq(streams[i].out)
  BY <1>1, StreamFacts DEF InOrder, Kept
<1>4. \A j \in DOMAIN tt : StreamKept(tt[j], ns2, ky2)
  BY <1>2, <1>3, StreamsKept
<1>5. ASSUME NEW c \in Legs PROVE LegLinked(c, lg[c], tt, ns2, ky2)
  <2>1. LegLinked(c, leg[c], streams, nodes, ky) /\ Owns(c, leg[c].stream, streams)
    BY <1>1, LegFacts DEF InOrder, Kept
  <2>2. Owns(c, lg[c].stream, tt)
    BY <1>1 DEF Owned
  <2>3. Carries(leg[c], lg[c], tt)
    BY <1>2
  <2>. QED  BY <1>2, <1>3, <2>1, <2>2, <2>3, LegCarried
<1>. QED  BY <1>1, <1>2, <1>4, <1>5 DEF InOrder, Kept

-----------------------------------------------------------------------------
(* Steps that leave keys alone.                                            *)

SameKeys(ns, ns2) ==
    DOMAIN ns2 = DOMAIN ns /\ \A n \in DOMAIN ns : ns2[n].machine = ns[n].machine /\ ns2[n].key = ns[n].key

\* The registry goes on with the same keys.
LEMMA SameOn ==
    ASSUME NEW ns, NEW ky, RegistryKept(ns, ky), NEW ns2, SameKeys(ns, ns2)
    PROVE  RegistryKept(ns2, ky) /\ Onward(ns, ky, ns2, ky)
<1>1. ASSUME NEW n \in DOMAIN ns, NEW key, Seen(n, key, ns, ky) PROVE Seen(n, key, ns2, ky)
  BY <1>1 DEF SameKeys, Seen
<1>2. Onward(ns, ky, ns2, ky)
  BY <1>1 DEF SameKeys, Onward
<1>3. ASSUME NEW n \in DOMAIN ns2 PROVE ns2[n].machine \in Legs /\ Seen(n, ns2[n].key, ns2, ky)
  BY <1>1 DEF SameKeys, RegistryKept
<1>4. \A m, n \in DOMAIN ns2 : ns2[m].machine = ns2[n].machine => m = n
  BY DEF SameKeys, RegistryKept
<1>. QED  BY <1>2, <1>3, <1>4 DEF RegistryKept

\* A frame stays as fresh.
LEMMA SameFresh ==
    ASSUME NEW ns, NEW ns2, SameKeys(ns, ns2), NEW f, NEW x, Fresh(f, ns, x)
    PROVE  Fresh(f, ns2, x)
BY DEF SameKeys, Fresh

Moved(l, k, tt) == k.key = l.key /\ k.snapshot = l.snapshot /\ Carries(l, k, tt)
AllMoved == \A c \in Legs : Moved(leg[c], leg'[c], streams')

\* The others stay.
LEMMA OneMoves ==
    ASSUME Inv, NEW c \in Legs, NEW k, leg' = [leg EXCEPT ![c] = k], NEW l, l = leg[c], Moved(l, k, streams')
    PROVE  AllMoved
<1>1. DOMAIN leg = Legs
  BY DEF Inv
<1>2. ASSUME NEW d \in Legs, d # c PROVE Moved(leg[d], leg'[d], streams')
  <2>1. leg'[d] = leg[d]
    BY <1>1, <1>2
  <2>. QED  BY <2>1 DEF Moved, Carries
<1>3. leg'[c] = k
  BY <1>1
<1>. QED  BY <1>2, <1>3 DEF AllMoved

\* No leg moves.
LEMMA NoneMoves == ASSUME leg' = leg PROVE AllMoved
BY DEF AllMoved, Moved, Carries

\* What a leg was told by way of present keys is in sn2 if it was in sn.
Retains(sn, sn2, ns, ky) ==
    \A n \in DOMAIN sn : sn[n].key = ky[ns[n].machine] => n \in DOMAIN sn2 /\ sn2[n].key = sn[n].key

Retained(c) == leg'[c].key # leg[c].key \/ Retains(leg[c].snapshot, leg'[c].snapshot, nodes, Keys(leg))
Steady == InOrder' /\ \A c \in Legs : Retained(c)

\* A leg that keeps its snapshot.
LEMMA SameRetained == ASSUME NEW c \in Legs, leg'[c].snapshot = leg[c].snapshot PROVE Retained(c)
BY DEF Retained, Retains

\* A step that changes no key.
LEMMA QuietStep ==
    ASSUME Inv, Owned, InOrder, SameKeys(nodes, nodes'), AllMoved, Inherited(streams, streams', nodes')
    PROVE  Steady
<1>1. Keys(leg') = Keys(leg)
  BY DEF AllMoved, Moved, Keys
<1>2. PICK ky, ns2 : ky = Keys(leg) /\ ns2 = nodes'
  OBVIOUS
<1>3. RegistryKept(ns2, ky) /\ Onward(nodes, ky, ns2, ky)
  BY <1>2, SameOn DEF InOrder, Kept
<1>4. \A c \in Legs : Carries(leg[c], leg'[c], streams')
  BY DEF AllMoved, Moved
<1>5. InOrder'
  BY <1>1, <1>2, <1>3, <1>4, KeptStep
<1>6. \A c \in Legs : Retained(c)
  BY SameRetained DEF AllMoved, Moved
<1>. QED  BY <1>5, <1>6 DEF Steady

\* A stream is told events, none of which removes a node.
Noted(s, t) == t.leg = s.leg /\ t.nid = s.nid /\ t.out = s.out /\ (NoRemovals(s.queue) => NoRemovals(t.queue))
AllNoted(ss, tt) == DOMAIN tt = DOMAIN ss /\ \A i \in DOMAIN ss : Noted(ss[i], tt[i])

\* An event more.
LEMMA AppendNoRemovals ==
    ASSUME NEW q, IsSeq(q), NoRemovals(q), NEW e, ~e.removed, NEW p, p = Append(q, e)
    PROVE  NoRemovals(p)
<1>1. /\ Len(q) \in Nat /\ DOMAIN q = 1..Len(q) /\ DOMAIN p = 1..(Len(q) + 1)
      /\ p[Len(q) + 1] = e /\ \A k \in 1..Len(q) : p[k] = q[k]
  BY AppendSeq
<1>2. ASSUME NEW k \in DOMAIN p PROVE (k \in DOMAIN q /\ p[k] = q[k]) \/ p[k] = e
  BY <1>1
<1>. QED  BY <1>2 DEF NoRemovals

\* An event less.
LEMMA TailNoRemovals ==
    ASSUME NEW q, IsSeq(q), q # <<>>, NoRemovals(q), NEW p, p = Tail(q)
    PROVE  NoRemovals(p) /\ ~Head(q).removed
<1>1. /\ Len(q) \in Nat \ {0} /\ DOMAIN q = 1..Len(q) /\ DOMAIN p = 1..(Len(q) - 1)
      /\ Head(q) = q[1] /\ \A k \in 1..(Len(q) - 1) : p[k] = q[k + 1]
  BY TailSeq
<1>2. 1 \in DOMAIN q /\ \A k \in DOMAIN p : k + 1 \in DOMAIN q /\ p[k] = q[k + 1]
  BY <1>1
<1>. QED  BY <1>1, <1>2 DEF NoRemovals

\* A stream hears of a change.
LEMMA NotifyNoted ==
    ASSUME env.cap \in Nat \ {0}, NEW s, IsStream(s), IsSeq(s.queue), NEW e, ~e.removed, NEW t, t = Notify(s, e)
    PROVE  Noted(s, t)
<1>0. PICK o : o = s.queue /\ IsSeq(o)
  OBVIOUS
<1>1. CASE s.phase = "live" /\ Len(s.queue) < env.cap
  <2>1. t = [s EXCEPT !.queue = Append(s.queue, e)]
    BY <1>1, NotifyCases, Zenon
  <2>2. PICK q : q = Append(o, e) /\ t = [s EXCEPT !.queue = q]
    BY <1>0, <2>1, Zenon
  <2>3. t.leg = s.leg /\ t.nid = s.nid /\ t.out = s.out /\ t.queue = q
    BY <2>2 DEF IsStream
  <2>4. NoRemovals(o) => NoRemovals(q)
    BY <1>0, <2>2, AppendNoRemovals, Zenon
  <2>. QED  BY <1>0, <2>3, <2>4 DEF Noted
<1>2. CASE s.phase = "live" /\ ~(Len(s.queue) < env.cap)
  <2>1. t = [s EXCEPT !.queue = Append(Tail(s.queue), e), !.lagged = TRUE]
    BY <1>2, NotifyCases, Zenon
  <2>2. PICK p, q : p = Tail(o) /\ q = Append(p, e) /\ t = [s EXCEPT !.queue = q, !.lagged = TRUE]
    BY <1>0, <2>1, Zenon
  <2>3. t.leg = s.leg /\ t.nid = s.nid /\ t.out = s.out /\ t.queue = q
    BY <2>2 DEF IsStream
  <2>4. o # <<>>
    BY <1>0, <1>2
  <2>5. IsSeq(p)
    BY <1>0, <2>2, <2>4, TailSeq, Zenon
  <2>6. NoRemovals(o) => NoRemovals(p)
    BY <1>0, <2>2, <2>4, TailNoRemovals, Zenon
  <2>7. NoRemovals(p) => NoRemovals(q)
    BY <2>2, <2>5, AppendNoRemovals, Zenon
  <2>. QED  BY <1>0, <2>3, <2>6, <2>7 DEF Noted
<1>3. CASE s.phase = "sent"
  <2>1. t = [s EXCEPT !.missed = s.missed \cup {e.nid}]
    BY <1>3, NotifyCases, Zenon
  <2>2. t.leg = s.leg /\ t.nid = s.nid /\ t.out = s.out /\ t.queue = s.queue
    BY <2>1 DEF IsStream
  <2>. QED  BY <2>2 DEF Noted
<1>4. CASE s.phase \notin {"sent", "live"}
  <2>1. t = s
    BY <1>4, NotifyCases, Zenon
  <2>. QED  BY <2>1 DEF Noted
<1>. QED  BY <1>1, <1>2, <1>3, <1>4

\* All hear of it.
LEMMA ChangeNoted ==
    ASSUME env.cap \in Nat \ {0}, NEW ss, NEW ids, NEW next, StreamsOK(ss, ids, next), NEW x,
           NEW tt, tt = Change(ss, x) \/ tt = ss
    PROVE  AllNoted(ss, tt)
<1>1. CASE tt = Change(ss, x)
  <2>1. PICK e : e = [nid |-> x, removed |-> FALSE] /\ tt = [i \in DOMAIN ss |-> Notify(ss[i], e)]
    BY <1>1, Zenon DEF Change, Publish
  <2>2. tt = [i \in DOMAIN ss |-> Notify(ss[i], e)] /\ ~e.removed
    BY <2>1
  <2>3. ASSUME NEW i \in DOMAIN ss PROVE Noted(ss[i], tt[i])
    <3>1. PICK s, t : s = ss[i] /\ t = tt[i]
      OBVIOUS
    <3>2. IsStream(s) /\ IsSeq(s.queue)
      BY <3>1 DEF StreamsOK, StreamOK
    <3>3. t = Notify(s, e)
      BY <2>2, <3>1, Zenon
    <3>4. Noted(s, t)
      BY <2>2, <3>2, <3>3, NotifyNoted, Zenon
    <3>. QED  BY <3>1, <3>4
  <2>4. DOMAIN tt = DOMAIN ss
    BY <2>2
  <2>. QED  BY <2>3, <2>4 DEF AllNoted
<1>2. CASE tt = ss
  BY <1>2 DEF AllNoted, Noted
<1>. QED  BY <1>1, <1>2

\* apply_map_update and mark_online: streams and keys.
LEMMA UpdateNoted ==
    ASSUME env.cap \in Nat \ {0}, NEW ns, NEW next, RegistryOK(ns, next), NEW ss, NEW ids, StreamsOK(ss, ids, next),
           NEW x, NEW request, NEW ns2, ns2 = Updated(ns, x, request), NEW tt, tt = UpdateEvent(ss, x, ns, ns2)
    PROVE  SameKeys(ns, ns2) /\ AllNoted(ss, tt)
<1>1. tt = Change(ss, x) \/ tt = ss
  BY Zenon DEF UpdateEvent, Change
<1>2. AllNoted(ss, tt)
  BY <1>1, ChangeNoted
<1>3. CASE x \in DOMAIN ns
  <2>1. PICK e, g : e = ns[x] /\ g = Announced(e, request)
    OBVIOUS
  <2>2. ns2 = [ns EXCEPT ![x] = g]
    BY <1>3, <2>1, Zenon DEF Updated
  <2>3. IsEntry(e)
    BY <1>3, <2>1 DEF RegistryOK
  <2>4. PICK a, b, r : g = [e EXCEPT !.endpoints = a, !.online = TRUE, !.announced = r, !.approved = b]
    BY <2>1, Zenon DEF Announced
  <2>5. g.machine = e.machine /\ g.key = e.key
    BY <2>3, <2>4 DEF IsEntry
  <2>. QED  BY <1>2, <1>3, <2>1, <2>2, <2>5 DEF SameKeys
<1>4. CASE x \notin DOMAIN ns
  <2>1. ns2 = ns
    BY <1>4 DEF Updated
  <2>. QED  BY <1>2, <2>1 DEF SameKeys
<1>. QED  BY <1>3, <1>4

\* set_online keeps the keys, and queues no removal.
LEMMA MarkNoted ==
    ASSUME env.cap \in Nat \ {0}, NEW next, RegistryOK(nodes, next), NEW ss, NEW ids, StreamsOK(ss, ids, next),
           NEW x, NEW online, NEW ns2, ns2 = Marked(nodes, x, online), NEW tt, tt = MarkEvent(ss, x, online)
    PROVE  SameKeys(nodes, ns2) /\ AllNoted(ss, tt)
<1>1. tt = Change(ss, x) \/ tt = ss
  BY Zenon DEF MarkEvent, Change
<1>2. AllNoted(ss, tt)
  BY <1>1, ChangeNoted
<1>3. CASE x \in DOMAIN nodes
  <2>1. PICK e, g : e = nodes[x] /\ g = [e EXCEPT !.online = online]
    BY Zenon
  <2>2. ns2 = [nodes EXCEPT ![x] = g]
    BY <1>3, <2>1, Zenon DEF Marked
  <2>3. IsEntry(e)
    BY <1>3, <2>1 DEF RegistryOK
  <2>4. g.machine = e.machine /\ g.key = e.key
    BY <2>1, <2>3 DEF IsEntry
  <2>. QED  BY <1>2, <1>3, <2>1, <2>2, <2>4 DEF SameKeys
<1>4. CASE x \notin DOMAIN nodes
  <2>1. ns2 = nodes
    BY <1>4 DEF Marked
  <2>. QED  BY <1>2, <2>1 DEF SameKeys
<1>. QED  BY <1>3, <1>4

\* Streams that only hear of changes, one that takes a step, and those of a leg that are cut.
LEMMA NotedInherited ==
    ASSUME NEW ss, NEW tt, AllNoted(ss, tt), NEW ns
    PROVE  Inherited(ss, tt, ns)
BY DEF AllNoted, Noted, Inherited, Heir, OutStep

\* Streams that stay as they are.
LEMMA SameInherited == ASSUME NEW ss, NEW ns PROVE Inherited(ss, ss, ns)
BY DEF Inherited, Heir, OutStep

\* One stream goes on, the others stay.
LEMMA OneInherited ==
    ASSUME NEW ss, NEW i \in DOMAIN ss, NEW s, s = ss[i], NEW ns, NEW t, Heir(s, t, ns), NEW tt, tt = [ss EXCEPT ![i] = t]
    PROVE  Inherited(ss, tt, ns)
<1>1. DOMAIN tt = DOMAIN ss /\ tt[i] = t /\ \A j \in DOMAIN ss : j # i => tt[j] = ss[j]
  OBVIOUS
<1>2. ASSUME NEW j \in DOMAIN ss, j # i PROVE Heir(ss[j], tt[j], ns)
  BY <1>1, <1>2 DEF Heir, OutStep
<1>. QED  BY <1>1, <1>2 DEF Inherited

\* A stream whose connection ended sends nothing more.
LEMMA CutHeir ==
    ASSUME NEW s, IsStream(s), NEW t, t = Cut(s), NEW ns
    PROVE  Heir(s, t, ns)
<1>1. t.leg = s.leg /\ t.nid = s.nid /\ t.queue = s.queue /\ t.out = <<>>
  BY DEF Cut, IsStream
<1>. QED  BY <1>1 DEF Heir, OutStep

\* The streams of a connection end with it.
LEMMA CutInherited ==
    ASSUME Inv, NEW c, NEW tt, tt = CutStreams(c), NEW ns
    PROVE  Inherited(streams, tt, ns)
<1>1. DOMAIN tt = DOMAIN streams
  BY DEF CutStreams
<1>2. ASSUME NEW j \in DOMAIN streams PROVE Heir(streams[j], tt[j], ns)
  <2>1. PICK s : s = streams[j] /\ IsStream(s)
    BY StreamFacts
  <2>2. Heir(s, s, ns)
    BY DEF Heir, OutStep
  <2>4. Heir(s, Cut(s), ns)
    BY <2>1, CutHeir
  <2>3. tt[j] = s \/ tt[j] = Cut(s)
    BY <2>1, Zenon DEF CutStreams
  <2>. QED  BY <2>1, <2>2, <2>3, <2>4
<1>. QED  BY <1>1, <1>2 DEF Inherited

\* The steps of a leg that leave streams and registry alone.
LEMMA LegOnward ==
    ASSUME Inv, Owned, InOrder, UNCHANGED <<nodes, streams>>, AllMoved
    PROVE  Steady
<1>1. SameKeys(nodes, nodes') /\ Inherited(streams, streams', nodes')
  BY SameInherited DEF SameKeys
<1>. QED  BY <1>1, QuietStep

\* fetch_control_key and connect touch no tunnel.
LEMMA ConnectOnward ==
    ASSUME Inv, Owned, InOrder, NEW c \in Legs, fetch_control_key(c) \/ Connect(c)
    PROVE  Steady
<1>1. UNCHANGED <<nodes, streams>>
  BY Zenon DEF fetch_control_key, Connect
<1>2. PICK l, p, n, k : l = leg[c] /\ k = [l EXCEPT !.phase = p, !.control = n] /\ leg' = [leg EXCEPT ![c] = k]
  <2>1. CASE fetch_control_key(c)
    <3>1. \E n : leg' = [leg EXCEPT ![c] = [leg[c] EXCEPT !.phase = "keyed", !.control = n]]
      BY <2>1, Zenon DEF fetch_control_key, Set
    <3>. QED  BY <3>1, Zenon
  <2>2. CASE Connect(c)
    <3>1. \E p : leg' = [leg EXCEPT ![c] = [leg[c] EXCEPT !.phase = p, !.control = 0]]
      BY <2>2, Zenon DEF Connect, Set
    <3>. QED  BY <3>1, Zenon
  <2>. QED  BY <2>1, <2>2, Zenon
<1>3. IsProcess(l)
  BY <1>2, LegFacts
<1>4. k.key = l.key /\ k.snapshot = l.snapshot /\ k.stream = l.stream
  BY <1>2, <1>3 DEF IsProcess
<1>5. Moved(l, k, streams')
  BY <1>4 DEF Moved, Carries
<1>6. AllMoved
  BY <1>2, <1>5, OneMoves, Zenon
<1>. QED  BY <1>1, <1>6, LegOnward

\* A leg keeps its key, its snapshot and its stream.
Stays(l, k) == k.key = l.key /\ k.snapshot = l.snapshot /\ k.stream = l.stream

\* DERP connections and route changes of a leg touch no tunnel.
LEMMA DerpOnward ==
    ASSUME Inv, Owned, InOrder, NEW c \in Legs, ConnectDerp(c) \/ DerpError(c) \/ SetMeshRoutes(c)
    PROVE  Steady
<1>1. UNCHANGED <<nodes, streams>>
  BY Zenon DEF ConnectDerp, DerpError, SetMeshRoutes
<1>2. PICK l : l = leg[c] /\ IsProcess(l)
  BY LegFacts
<1>3. PICK k : leg' = [leg EXCEPT ![c] = k] /\ Stays(l, k)
  <2>1. CASE ConnectDerp(c)
    <3>1. \/ \E d : leg' = [leg EXCEPT ![c] = [l EXCEPT !.derp = d, !.preferred = TRUE, !.todo = "lite"]]
          \/ leg' = [leg EXCEPT ![c] = [l EXCEPT !.todo = "lite"]]
      BY <1>2, <2>1, Zenon DEF ConnectDerp, Set
    <3>2. CASE leg' = [leg EXCEPT ![c] = [l EXCEPT !.todo = "lite"]]
      <4>1. PICK k : k = [l EXCEPT !.todo = "lite"] /\ leg' = [leg EXCEPT ![c] = k]
        BY <3>2, Zenon
      <4>2. Stays(l, k)
        BY <1>2, <4>1 DEF IsProcess, Stays
      <4>. QED  BY <4>1, <4>2, Zenon
    <3>3. CASE \E d : leg' = [leg EXCEPT ![c] = [l EXCEPT !.derp = d, !.preferred = TRUE, !.todo = "lite"]]
      <4>1. PICK d, k : k = [l EXCEPT !.derp = d, !.preferred = TRUE, !.todo = "lite"] /\ leg' = [leg EXCEPT ![c] = k]
        BY <3>3, Zenon
      <4>2. Stays(l, k)
        BY <1>2, <4>1 DEF IsProcess, Stays
      <4>. QED  BY <4>1, <4>2, Zenon
    <3>. QED  BY <3>1, <3>2, <3>3, Zenon
  <2>2. CASE DerpError(c)
    <3>1. PICK k : k = [l EXCEPT !.derp = <<>>, !.lost = TRUE] /\ leg' = [leg EXCEPT ![c] = k]
      BY <1>2, <2>2, Zenon DEF DerpError, Set
    <3>2. Stays(l, k)
      BY <1>2, <3>1 DEF IsProcess, Stays
    <3>. QED  BY <3>1, <3>2, Zenon
  <2>3. CASE SetMeshRoutes(c)
    <3>1. PICK r, k : k = [l EXCEPT !.adv = r, !.poke = TRUE] /\ leg' = [leg EXCEPT ![c] = k]
      BY <1>2, <2>3, Zenon DEF SetMeshRoutes, Set
    <3>2. Stays(l, k)
      BY <1>2, <3>1 DEF IsProcess, Stays
    <3>. QED  BY <3>1, <3>2, Zenon
  <2>. QED  BY <2>1, <2>2, <2>3
<1>4. Moved(l, k, streams')
  BY <1>3 DEF Moved, Carries, Stays
<1>5. AllMoved
  BY <1>2, <1>3, <1>4, OneMoves, Zenon
<1>. QED  BY <1>1, <1>5, LegOnward

\* A leg gives its connection up.
LEMMA CutOnward ==
    ASSUME Inv, Owned, InOrder, nodes' = nodes, NEW c \in Legs, streams' = CutStreams(c),
           NEW k, leg' = [leg EXCEPT ![c] = k], k.key = leg[c].key, k.snapshot = leg[c].snapshot, k.stream = 0
    PROVE  Steady
<1>1. SameKeys(nodes, nodes') /\ Inherited(streams, streams', nodes')
  BY CutInherited DEF SameKeys
<1>2. PICK l : l = leg[c]
  OBVIOUS
<1>3. Moved(l, k, streams')
  BY <1>2 DEF Moved, Carries
<1>4. AllMoved
  BY <1>2, <1>3, OneMoves, Zenon
<1>. QED  BY <1>1, <1>4, QuietStep

\* A leg that gives its connection up keeps its tunnels until the next netmap.
LEMMA GiveUpOnward ==
    ASSUME Inv, Owned, InOrder, nodes' = nodes, NEW c \in Legs, NEW l, IsProcess(l), l.key = leg[c].key,
           l.snapshot = leg[c].snapshot, GiveUp(c, l)
    PROVE  Steady
<1>1. PICK k : /\ k = [l EXCEPT !.phase = "down", !.broken = FALSE, !.control = 0, !.stream = 0, !.torn = FALSE, !.todo = "read"]
               /\ leg' = [leg EXCEPT ![c] = k]
  BY Zenon DEF GiveUp, Set
<1>2. k.key = l.key /\ k.snapshot = l.snapshot /\ k.stream = 0
  BY <1>1 DEF IsProcess
<1>. QED  BY <1>1, <1>2, CutOnward, Zenon DEF GiveUp

\* Every failure of a connection is such a step.
LEMMA StartOverOnward ==
    ASSUME Inv, Owned, InOrder, NEW c \in Legs, EstablishFails(c) \/ MapFails(c) \/ DerpLost(c) \/ Break(c)
    PROVE  Steady
<1>1. IsProcess(leg[c]) /\ nodes' = nodes
  BY LegFacts DEF EstablishFails, MapFails, DerpLost, Break
<1>2. CASE EstablishFails(c) \/ MapFails(c)
  BY <1>1, <1>2, GiveUpOnward DEF EstablishFails, MapFails
<1>3. CASE DerpLost(c)
  <2>1. PICK l, k : l = leg[c] /\ k = [l EXCEPT !.preferred = FALSE, !.lost = FALSE] /\ GiveUp(c, k)
    BY <1>3, Zenon DEF DerpLost
  <2>2. IsProcess(k) /\ k.key = l.key /\ k.snapshot = l.snapshot
    BY <1>1, <2>1, Zenon DEF IsProcess
  <2>. QED  BY <1>1, <2>1, <2>2, GiveUpOnward, Zenon
<1>4. CASE Break(c)
  <2>1. PICK l, k : l = leg[c] /\ k = [l EXCEPT !.broken = TRUE, !.stream = 0] /\ leg' = [leg EXCEPT ![c] = k]
    BY <1>4, Zenon DEF Break, Set
  <2>2. k.key = l.key /\ k.snapshot = l.snapshot /\ k.stream = 0
    BY <1>1, <2>1 DEF IsProcess
  <2>. QED  BY <1>1, <1>4, <2>1, <2>2, CutOnward, Zenon DEF Break
<1>. QED  BY <1>2, <1>3, <1>4

-----------------------------------------------------------------------------
(* Steps that change a key: a process starts anew, a machine registers.    *)

\* A new key is nobody's yet.
LEMMA NewKey ==
    ASSUME NEW ns, NEW ky, RegistryKept(ns, ky), NEW c \in Legs, NEW ky2, ky2[c] = <<c, ky[c][2] + 1>>,
           \A d \in Legs : d # c => ky2[d] = ky[d]
    PROVE  RegistryKept(ns, ky2) /\ Onward(ns, ky, ns, ky2)
<1>1. \A d \in Legs : ky[d] = <<d, ky[d][2]>> /\ ky[d][2] \in Nat
  BY DEF RegistryKept
<1>2. \A d \in Legs : ky2[d] = <<d, ky2[d][2]>> /\ ky2[d][2] \in Nat
  <2>1. ky2[c][2] = ky[c][2] + 1
    OBVIOUS
  <2>. QED  BY <1>1, <2>1
<1>3. ASSUME NEW n \in DOMAIN ns, NEW key, Seen(n, key, ns, ky)
      PROVE  Seen(n, key, ns, ky2) /\ (key = ky2[ns[n].machine] => key = ky[ns[n].machine])
  <2>1. PICK d \in Legs : d = ns[n].machine
    BY DEF RegistryKept
  <2>2. key = <<d, key[2]>> /\ key[2] \in Nat /\ key[2] <= ky[d][2] /\ (key = ky[d] => ns[n].key = key)
    BY <1>3, <2>1 DEF Seen
  <2>3. CASE d # c
    BY <2>1, <2>2, <2>3 DEF Seen
  <2>4. CASE d = c
    <3>1. ky2[d][2] = ky[d][2] + 1 /\ ky[d][2] \in Nat
      BY <1>1, <2>4
    <3>2. key # ky2[d] /\ key[2] <= ky2[d][2]
      BY <2>2, <3>1
    <3>. QED  BY <2>1, <2>2, <3>2 DEF Seen
  <2>. QED  BY <2>3, <2>4
<1>4. Onward(ns, ky, ns, ky2)
  BY <1>3 DEF Onward
<1>5. RegistryKept(ns, ky2)
  BY <1>2, <1>3 DEF RegistryKept
<1>. QED  BY <1>4, <1>5

\* RestartLeg
LEMMA RestartOnward ==
    ASSUME Inv, Owned, InOrder, NEW c \in Legs, RestartLeg(c)
    PROVE  Steady
<1>1. PICK k, m : m = leg[c].key[2] + 1 /\ k = Process(c, m) /\ leg' = [leg EXCEPT ![c] = k]
  BY Zenon DEF RestartLeg, Set
<1>2. k.key = <<c, m>> /\ k.snapshot = <<>> /\ k.stream = 0
  BY <1>1 DEF Process
<1>3. DOMAIN leg = Legs
  BY DEF Inv
<1>4. leg'[c] = k /\ \A d \in Legs : d # c => leg'[d] = leg[d]
  BY <1>1, <1>3
<1>5. PICK ky, ky2 : ky = Keys(leg) /\ ky2 = Keys(leg')
  OBVIOUS
<1>6. ky2[c] = <<c, ky[c][2] + 1>> /\ \A d \in Legs : d # c => ky2[d] = ky[d]
  <2>1. ky[c] = leg[c].key /\ ky2[c] = k.key
    BY <1>4, <1>5 DEF Keys
  <2>2. \A d \in Legs : d # c => ky2[d] = ky[d]
    BY <1>4, <1>5 DEF Keys
  <2>. QED  BY <1>1, <1>2, <2>1, <2>2
<1>7. RegistryKept(nodes, ky2) /\ Onward(nodes, ky, nodes, ky2)
  <2>1. RegistryKept(nodes, ky)
    BY <1>5 DEF InOrder, Kept
  <2>. QED  BY <1>6, <2>1, NewKey
<1>8. nodes' = nodes /\ streams' = CutStreams(c)
  BY Zenon DEF RestartLeg
<1>9. Inherited(streams, streams', nodes')
  BY <1>8, CutInherited
<1>10. \A d \in Legs : Carries(leg[d], leg'[d], streams')
  BY <1>2, <1>4 DEF Carries
<1>11. InOrder'
  BY <1>5, <1>7, <1>8, <1>9, <1>10, KeptStep
<1>12. leg'[c].key # leg[c].key
  <2>1. leg[c].key[2] \in Nat
    BY DEF InOrder, Kept, RegistryKept, Keys
  <2>2. leg'[c].key[2] = m
    BY <1>2, <1>4
  <2>. QED  BY <1>1, <2>1, <2>2
<1>13. \A d \in Legs : Retained(d)
  BY <1>4, <1>12, SameRetained DEF Retained
<1>. QED  BY <1>11, <1>13 DEF Steady

\* The machine that registers has one entry, with its present key.
LEMMA RegisterOn ==
    ASSUME NEW ns, NEW ky, RegistryKept(ns, ky), NEW c \in Legs, NEW n,
           n \in DOMAIN ns => ns[n].machine = c, n \notin DOMAIN ns => \A m \in DOMAIN ns : ns[m].machine # c,
           NEW e, e.machine = c, e.key = ky[c], NEW ns2, ns2 = Put(ns, n, e)
    PROVE  RegistryKept(ns2, ky) /\ Onward(ns, ky, ns2, ky)
<1>1. DOMAIN ns2 = DOMAIN ns \cup {n} /\ ns2[n] = e /\ \A m \in DOMAIN ns : m # n => ns2[m] = ns[m]
  BY DEF Put
<1>2. \A m \in DOMAIN ns : ns2[m].machine = ns[m].machine
  BY <1>1
<1>3. ASSUME NEW m \in DOMAIN ns, NEW key, Seen(m, key, ns, ky) PROVE Seen(m, key, ns2, ky)
  <2>1. key = ky[ns2[m].machine] => ns2[m].key = key
    BY <1>1, <1>2, <1>3 DEF Seen
  <2>. QED  BY <1>1, <1>2, <1>3, <2>1 DEF Seen
<1>4. Onward(ns, ky, ns2, ky)
  BY <1>1, <1>2, <1>3 DEF Onward
<1>5. ky[c] = <<c, ky[c][2]>> /\ ky[c][2] \in Nat
  BY DEF RegistryKept
<1>6. Seen(n, ns2[n].key, ns2, ky)
  <2>1. ns2[n].key = ky[c] /\ ns2[n].machine = c /\ n \in DOMAIN ns2
    BY <1>1
  <2>. QED  BY <1>5, <2>1 DEF Seen
<1>7. ASSUME NEW m \in DOMAIN ns2 PROVE ns2[m].machine \in Legs /\ Seen(m, ns2[m].key, ns2, ky)
  <2>1. CASE m = n
    BY <1>1, <1>6, <2>1
  <2>2. CASE m # n
    <3>1. m \in DOMAIN ns /\ ns2[m] = ns[m] /\ ns[m].machine \in Legs /\ Seen(m, ns[m].key, ns, ky)
      BY <1>1, <2>2 DEF RegistryKept
    <3>. QED  BY <1>3, <3>1
  <2>. QED  BY <2>1, <2>2
<1>8. \A l, m \in DOMAIN ns2 : ns2[l].machine = ns2[m].machine => l = m
  BY <1>1, <1>2 DEF RegistryKept
<1>9. \A d \in Legs : ky[d] = <<d, ky[d][2]>> /\ ky[d][2] \in Nat
  BY DEF RegistryKept
<1>10. RegistryKept(ns2, ky)
  BY <1>7, <1>8, <1>9 DEF RegistryKept
<1>. QED  BY <1>4, <1>10

\* Establish
LEMMA EstablishOnward ==
    ASSUME Inv, Owned, InOrder, NEW c \in Legs, Establish(c)
    PROVE  Steady
<1>1. PICK l, k : l = leg[c] /\ k = [l EXCEPT !.phase = "registered"] /\ leg' = [leg EXCEPT ![c] = k]
  BY Zenon DEF Establish, Set
<1>2. k.key = l.key /\ k.snapshot = l.snapshot /\ k.stream = l.stream
  <2>1. IsProcess(l)
    BY <1>1, LegFacts
  <2>. QED  BY <1>1, <2>1 DEF IsProcess
<1>3. AllMoved
  <2>1. Moved(l, k, streams')
    BY <1>2 DEF Moved, Carries
  <2>. QED  BY <1>1, <2>1, OneMoves, Zenon
<1>4. Keys(leg') = Keys(leg) /\ \A d \in Legs : Carries(leg[d], leg'[d], streams')
  BY <1>3 DEF AllMoved, Moved, Keys
<1>5. register(c, l.key)
  BY <1>1, Zenon DEF Establish, handle_register
<1>6. PICK n, e, ns2 : /\ n \in (IF NodesOf(c) = {} THEN {nextId} ELSE NodesOf(c))
                       /\ e.machine = c /\ e.key = l.key /\ ns2 = Put(nodes, n, e) /\ nodes' = ns2
                       /\ streams' = Change(streams, n)
  <2>1. PICK n : /\ n \in (IF NodesOf(c) = {} THEN {nextId} ELSE NodesOf(c))
                 /\ nodes' = Put(nodes, n, [machine |-> c, key |-> l.key, announced |-> {}, approved |-> {},
                                            endpoints |-> n \in DOMAIN nodes /\ nodes[n].endpoints, online |-> TRUE])
                 /\ streams' = Change(streams, n)
    BY <1>5, Zenon DEF register, Change
  <2>2. PICK b, e : /\ e = [machine |-> c, key |-> l.key, announced |-> {}, approved |-> {}, endpoints |-> b, online |-> TRUE]
                    /\ nodes' = Put(nodes, n, e)
    BY <2>1, Zenon
  <2>3. e.machine = c /\ e.key = l.key
    BY <2>2
  <2>. QED  BY <2>1, <2>2, <2>3, Zenon
<1>7. RegistryOK(nodes, nextId) /\ StreamsOK(streams, DOMAIN nodes, nextId) /\ env.cap \in Nat \ {0}
  BY DEF Inv
<1>8. /\ n \in DOMAIN nodes => nodes[n].machine = c
      /\ n \notin DOMAIN nodes => \A m \in DOMAIN nodes : nodes[m].machine # c
  <2>1. nextId \notin DOMAIN nodes
    BY <1>7 DEF RegistryOK
  <2>. QED  BY <1>6, <2>1 DEF NodesOf
<1>9. PICK ky : ky = Keys(leg) /\ RegistryKept(nodes, ky) /\ ky[c] = l.key
  BY <1>1 DEF InOrder, Kept, Keys
<1>10. RegistryKept(ns2, ky) /\ Onward(nodes, ky, ns2, ky)
  BY <1>6, <1>8, <1>9, RegisterOn
<1>11. Inherited(streams, streams', nodes')
  <2>1. AllNoted(streams, streams')
    BY <1>6, <1>7, ChangeNoted
  <2>. QED  BY <2>1, NotedInherited
<1>12. InOrder'
  BY <1>4, <1>6, <1>9, <1>10, <1>11, KeptStep
<1>13. \A d \in Legs : Retained(d)
  BY <1>3, SameRetained DEF AllMoved, Moved
<1>. QED  BY <1>12, <1>13 DEF Steady

-----------------------------------------------------------------------------
(* Steps of a leg and its stream.                                          *)

\* One stream takes a step.
LEMMA HeirOnward ==
    ASSUME Inv, Owned, InOrder, nodes' = nodes, AllMoved, NEW i \in DOMAIN streams, NEW s, s = streams[i],
           NEW t, Heir(s, t, nodes), streams' = [streams EXCEPT ![i] = t]
    PROVE  Steady
<1>1. PICK tt : tt = [streams EXCEPT ![i] = t] /\ streams' = tt
  OBVIOUS
<1>2. Inherited(streams, tt, nodes)
  BY <1>1, OneInherited, Zenon
<1>3. SameKeys(nodes, nodes') /\ Inherited(streams, streams', nodes')
  BY <1>1, <1>2 DEF SameKeys
<1>. QED  BY <1>3, QuietStep

\* A leg reads a frame, or loses it.
LEMMA TailHeir ==
    ASSUME NEW s, IsStream(s), s.out # <<>>, NEW t, t = [s EXCEPT !.out = Tail(s.out)], NEW ns
    PROVE  Heir(s, t, ns) /\ t.leg = s.leg /\ t.nid = s.nid /\ t.queue = s.queue /\ t.out = Tail(s.out)
<1>1. PICK o : o = Tail(s.out) /\ t = [s EXCEPT !.out = o]
  BY Zenon
<1>2. t.leg = s.leg /\ t.nid = s.nid /\ t.queue = s.queue /\ t.out = o
  BY <1>1 DEF IsStream
<1>. QED  BY <1>1, <1>2 DEF Heir, OutStep

\* StreamFails
LEMMA StreamFailsOnward ==
    ASSUME Inv, Owned, InOrder, NEW c \in Legs, StreamFails(c)
    PROVE  Steady
<1>1. PICK i, s, l, t, k :
        /\ i = leg[c].stream /\ s = streams[i] /\ l = leg[c] /\ t = Cut(s)
        /\ k = [l EXCEPT !.phase = "registered", !.stream = 0, !.torn = FALSE]
  BY Zenon
<1>2. IsProcess(l)
  BY <1>1, LegFacts
<1>3. k.key = l.key /\ k.snapshot = l.snapshot /\ k.stream = 0
  BY <1>1, <1>2 DEF IsProcess
<1>4. nodes' = nodes /\ leg' = [leg EXCEPT ![c] = k]
  BY <1>1, Zenon DEF StreamFails, Set
<1>5. AllMoved
  <2>1. Moved(l, k, streams')
    BY <1>3 DEF Moved, Carries
  <2>. QED  BY <1>1, <1>4, <2>1, OneMoves, Zenon
<1>6. CASE ~Alive(c)
  <2>1. streams' = streams
    BY <1>6 DEF StreamFails
  <2>. QED  BY <1>4, <1>5, <2>1, LegOnward
<1>7. CASE Alive(c)
  <2>1. i \in DOMAIN streams
    BY <1>1, <1>7 DEF Alive
  <2>2. streams' = [streams EXCEPT ![i] = t]
    BY <1>1, <1>7, Zenon DEF StreamFails
  <2>3. Heir(s, t, nodes)
    BY <1>1, <2>1, StreamFacts, CutHeir
  <2>. QED  BY <1>1, <1>4, <1>5, <2>1, <2>2, <2>3, HeirOnward, Zenon
<1>. QED  BY <1>6, <1>7

\* Poke and Swallow
LEMMA PokeOnward ==
    ASSUME Inv, Owned, InOrder, NEW c \in Legs, Poke(c) \/ Swallow(c)
    PROVE  Steady
<1>1. PICK i, s, l, t : /\ i = leg[c].stream /\ s = streams[i] /\ l = leg[c]
                        /\ t = [s EXCEPT !.out = Tail(s.out)]
  BY Zenon
<1>2. IsProcess(l) /\ nodes' = nodes
  BY <1>1, LegFacts DEF Poke, Swallow
<1>3. ASSUME Inbox(c) # <<>> PROVE i \in DOMAIN streams /\ Heir(s, t, nodes)
  <2>1. Alive(c)
    BY <1>3 DEF Inbox
  <2>2. i \in DOMAIN streams /\ s.out # <<>>
    BY <1>1, <1>3, <2>1 DEF Alive, Inbox
  <2>3. IsStream(s)
    BY <1>1, <2>2, StreamFacts
  <2>. QED  BY <1>1, <2>2, <2>3, TailHeir, Zenon
<1>4. CASE Swallow(c)
  <2>1. Inbox(c) # <<>> /\ AllMoved
    BY <1>4, NoneMoves DEF Swallow
  <2>2. streams' = [streams EXCEPT ![i] = t]
    <3>1. streams' = [streams EXCEPT ![i].out = Tail(@)]
      BY <1>1, <1>4 DEF Swallow
    <3>. QED  BY <1>1, <3>1, Zenon
  <2>. QED  BY <1>1, <1>2, <1>3, <2>1, <2>2, HeirOnward, Zenon
<1>5. CASE Poke(c)
  <2>1. PICK mid \in {FALSE} \cup {Inbox(c) # <<>>} :
          /\ leg' = [leg EXCEPT ![c] = [leg[c] EXCEPT !.poke = FALSE, !.todo = "lite", !.torn = @ \/ mid]]
          /\ streams' = IF mid THEN [streams EXCEPT ![leg[c].stream].out = Tail(@)] ELSE streams
    BY <1>5, Zenon DEF Poke, Set
  <2>2. PICK b, k : k = [l EXCEPT !.poke = FALSE, !.todo = "lite", !.torn = b] /\ leg' = [leg EXCEPT ![c] = k]
    BY <1>1, <2>1, Zenon
  <2>3. k.key = l.key /\ k.snapshot = l.snapshot /\ k.stream = l.stream
    BY <1>2, <2>2 DEF IsProcess
  <2>4. AllMoved
    <3>1. Moved(l, k, streams')
      BY <2>3 DEF Moved, Carries
    <3>. QED  BY <1>1, <2>2, <3>1, OneMoves, Zenon
  <2>5. CASE mid
    <3>1. streams' = [streams EXCEPT ![i] = t] /\ Inbox(c) # <<>>
      BY <1>1, <2>1, <2>5, Zenon
    <3>. QED  BY <1>1, <1>2, <1>3, <2>4, <3>1, HeirOnward, Zenon
  <2>6. CASE ~mid
    <3>1. streams' = streams
      BY <2>1, <2>6, Zenon
    <3>. QED  BY <1>2, <2>4, <3>1, LegOnward
  <2>. QED  BY <2>5, <2>6
<1>. QED  BY <1>4, <1>5

\* map_stream
LEMMA MapStreamOnward ==
    ASSUME Inv, Spare(DOMAIN streams), Owned, InOrder, NEW c \in Legs, MapStream(c)
    PROVE  Steady
<1>1. PICK i, l : i = (CHOOSE j \in 1..Cardinality(DOMAIN streams) + 1 : j \notin DOMAIN streams) /\ l = leg[c]
  OBVIOUS
<1>2. i \notin DOMAIN streams
  BY <1>1, Zenon DEF Spare
<1>3. nodes' = nodes /\ IsProcess(l)
  BY <1>1, LegFacts DEF MapStream
<1>4. CASE GiveUp(c, leg[c])
  BY <1>1, <1>3, <1>4, GiveUpOnward
<1>5. CASE ~GiveUp(c, leg[c])
  <2>1. PICK n, request, s, tt, k :
          /\ n \in NodeByKey(l.key) /\ s = Stream(c, n, request) /\ tt = Put(streams, i, s) /\ streams' = tt
          /\ k = [l EXCEPT !.phase = "opening", !.stream = i] /\ leg' = [leg EXCEPT ![c] = k]
    <3>1. /\ \E n \in NodeByKey(leg[c].key) : streams' = Put(streams, i, Stream(c, n, map_request_json(leg[c].adv)))
          /\ leg' = [leg EXCEPT ![c] = [leg[c] EXCEPT !.phase = "opening", !.stream = i]]
      BY <1>1, <1>5, Zenon DEF MapStream, Set
    <3>. QED  BY <1>1, <3>1, Zenon
  <2>2. DOMAIN tt = DOMAIN streams \cup {i} /\ tt[i] = s /\ \A j \in DOMAIN streams : tt[j] = streams[j]
    BY <1>2, <2>1 DEF Put
  <2>3. s.leg = c /\ s.nid = n /\ s.queue = <<>> /\ s.out = <<>>
    BY <2>1 DEF Stream
  <2>4. n \in DOMAIN nodes /\ nodes[n].machine = c
    <3>1. n \in DOMAIN nodes /\ nodes[n].key = l.key
      BY <2>1 DEF NodeByKey
    <3>2. PICK ky : RegistryKept(nodes, ky) /\ ky[c] = l.key
      BY <1>1 DEF InOrder, Kept, Keys
    <3>3. l.key = <<c, l.key[2]>> /\ l.key = <<nodes[n].machine, l.key[2]>>
      BY <3>1, <3>2 DEF RegistryKept, Seen
    <3>. QED  BY <3>1, <3>3
  <2>5. Opened(s, nodes)
    BY <2>3, <2>4 DEF Opened
  <2>6. Inherited(streams, tt, nodes)
    BY <2>2, <2>5 DEF Inherited, Heir, OutStep
  <2>7. SameKeys(nodes, nodes') /\ Inherited(streams, streams', nodes')
    BY <1>3, <2>1, <2>6 DEF SameKeys
  <2>8. k.key = l.key /\ k.snapshot = l.snapshot /\ k.stream = i
    BY <1>3, <2>1 DEF IsProcess
  <2>9. AllMoved
    <3>1. Moved(l, k, tt)
      BY <2>2, <2>3, <2>8 DEF Moved, Carries
    <3>. QED  BY <1>1, <2>1, <3>1, OneMoves, Zenon
  <2>. QED  BY <2>7, <2>9, QuietStep
<1>. QED  BY <1>4, <1>5

\* map_endpoints_update
LEMMA LiteOnward ==
    ASSUME Inv, Owned, InOrder, NEW c \in Legs, Lite(c)
    PROVE  Steady
<1>1. PICK l, k : l = leg[c] /\ k = [l EXCEPT !.todo = "read"]
  BY Zenon
<1>2. leg' = [leg EXCEPT ![c] = k]
  BY <1>1, Zenon DEF Lite, Set
<1>3. IsProcess(l)
  BY <1>1, LegFacts
<1>4. k.key = l.key /\ k.snapshot = l.snapshot /\ k.stream = l.stream
  BY <1>1, <1>3 DEF IsProcess
<1>5. AllMoved
  <2>1. Moved(l, k, streams')
    BY <1>4 DEF Moved, Carries
  <2>. QED  BY <1>1, <1>2, <2>1, OneMoves, Zenon
<1>6. CASE ~post_json(c)
  <2>1. UNCHANGED <<nodes, streams>>
    BY <1>6, Zenon DEF Lite
  <2>. QED  BY <1>5, <2>1, LegOnward
<1>7. CASE post_json(c)
  <2>1. PICK n, request, ns2, tt : /\ ns2 = Updated(nodes, n, request) /\ tt = UpdateEvent(streams, n, nodes, ns2)
                                   /\ nodes' = ns2 /\ streams' = tt
    BY <1>7, Zenon DEF Lite
  <2>2. PICK ns, ss, next : /\ ns = nodes /\ ss = streams /\ next = nextId /\ env.cap \in Nat \ {0}
                            /\ RegistryOK(ns, next) /\ StreamsOK(ss, DOMAIN ns, next)
    BY DEF Inv
  <2>3. SameKeys(ns, ns2) /\ AllNoted(ss, tt)
    BY <2>1, <2>2, UpdateNoted, Zenon
  <2>4. Inherited(ss, tt, ns2)
    BY <2>3, NotedInherited
  <2>5. SameKeys(nodes, nodes') /\ Inherited(streams, streams', nodes')
    BY <2>1, <2>2, <2>3, <2>4
  <2>. QED  BY <1>5, <2>5, QuietStep
<1>. QED  BY <1>6, <1>7

-----------------------------------------------------------------------------
(* Steps of a stream's task.                                               *)

\* What is sent is what the registry holds.
LEMMA FullFresh == ASSUME NEW x, NEW f, f = FullFrame(x) PROVE Fresh(f, nodes, x)
BY DEF FullFrame, Fresh, View

\* A delta of changed nodes shows them as the registry holds them.
LEMMA DeltaFresh ==
    ASSUME NEW x, NEW changed, changed \subseteq DOMAIN nodes, x \notin changed, NEW f, f = DeltaFrame(changed, {})
    PROVE  Fresh(f, nodes, x)
BY DEF DeltaFrame, Fresh, View

\* A stream sends it.
LEMMA SendHeir ==
    ASSUME NEW s, NEW u, IsStream(u), IsSeq(u.out), ~u.dead, u.leg = s.leg, u.nid = s.nid, u.out = s.out,
           NoRemovals(s.queue) => NoRemovals(u.queue), NEW ns, NEW f, Fresh(f, ns, s.nid), NEW t, t = Send(u, f)
    PROVE  Heir(s, t, ns)
<1>1. Sends(u, t, f)
  BY SendOK
<1>2. t.leg = s.leg /\ t.nid = s.nid /\ t.queue = u.queue /\ t.out = Append(s.out, f)
  BY <1>1 DEF Sends
<1>3. OutStep(s.out, t.out, ns, s.nid)
  BY <1>2 DEF OutStep
<1>. QED  BY <1>2, <1>3 DEF Heir

\* A step of one stream alone.
LEMMA TaskOnward ==
    ASSUME Inv, Owned, InOrder, UNCHANGED <<nodes, leg>>, NEW i \in DOMAIN streams, NEW s, s = streams[i],
           NEW t, Heir(s, t, nodes), streams' = [streams EXCEPT ![i] = t]
    PROVE  Steady
<1>1. AllMoved
  BY NoneMoves
<1>. QED  BY <1>1, HeirOnward, Zenon

\* A stream's task panics.
LEMMA PanicOnward ==
    ASSUME Inv, Owned, InOrder, NEW i \in DOMAIN streams, UNCHANGED <<nodes, leg>>,
           streams' = [streams EXCEPT ![i] = Cut([streams[i] EXCEPT !.phase = "panicked"])]
    PROVE  Steady
<1>1. PICK s, u, t : s = streams[i] /\ u = [s EXCEPT !.phase = "panicked"] /\ t = Cut(u)
  BY Zenon
<1>2. streams' = [streams EXCEPT ![i] = t]
  BY <1>1, Zenon
<1>3. IsStream(s)
  BY <1>1, StreamFacts
<1>4. IsStream(u) /\ u.leg = s.leg /\ u.nid = s.nid /\ u.queue = s.queue
  BY <1>1, <1>3 DEF IsStream
<1>5. t.leg = u.leg /\ t.nid = u.nid /\ t.queue = u.queue /\ t.out = <<>>
  BY <1>1, <1>4 DEF Cut, IsStream
<1>6. Heir(s, t, nodes)
  BY <1>4, <1>5 DEF Heir, OutStep
<1>. QED  BY <1>1, <1>2, <1>6, TaskOnward, Zenon

\* Subscribe
LEMMA SubscribeOnward ==
    ASSUME Inv, Owned, InOrder, NEW i \in DOMAIN streams, Subscribe(i)
    PROVE  Steady
<1>1. PICK s, t : s = streams[i] /\ t = [s EXCEPT !.phase = "live"]
  BY Zenon
<1>2. streams' = [streams EXCEPT ![i] = t] /\ UNCHANGED <<nodes, leg>>
  BY <1>1, Zenon DEF Subscribe
<1>3. IsStream(s)
  BY <1>1, StreamFacts
<1>4. t.leg = s.leg /\ t.nid = s.nid /\ t.queue = s.queue /\ t.out = s.out
  BY <1>1, <1>3 DEF IsStream
<1>5. Heir(s, t, nodes)
  BY <1>4 DEF Heir, OutStep
<1>. QED  BY <1>1, <1>2, <1>5, TaskOnward, Zenon

\* PushFull
LEMMA PushFullOnward ==
    ASSUME Inv, Owned, InOrder, NEW i \in DOMAIN streams, PushFull(i)
    PROVE  Steady
<1>1. UNCHANGED <<nodes, leg>>
  BY DEF PushFull
<1>2. CASE streams[i].nid \notin DOMAIN nodes
  <2>1. streams' = [streams EXCEPT ![i] = Cut([streams[i] EXCEPT !.phase = "panicked"])]
    BY <1>2, Zenon DEF PushFull
  <2>. QED  BY <1>1, <2>1, PanicOnward, Zenon
<1>3. CASE streams[i].nid \in DOMAIN nodes
  <2>1. PICK s, x, f, u, t : /\ s = streams[i] /\ x = s.nid /\ f = FullFrame(x)
                             /\ u = [s EXCEPT !.lagged = FALSE, !.missed = {}] /\ t = Send(u, f)
    BY Zenon
  <2>2. streams' = [streams EXCEPT ![i] = t] /\ ~s.dead
    BY <1>3, <2>1, Zenon DEF PushFull
  <2>3. IsStream(s) /\ IsSeq(s.out)
    BY <2>1, StreamFacts
  <2>4. /\ IsStream(u) /\ u.leg = s.leg /\ u.nid = s.nid /\ u.dead = s.dead
        /\ u.queue = s.queue /\ u.out = s.out
    BY <2>1, <2>3, Zenon DEF IsStream
  <2>5. Fresh(f, nodes, s.nid)
    BY <2>1, FullFresh
  <2>6. Heir(s, t, nodes)
    <3>1. IsSeq(u.out) /\ ~u.dead
      BY <2>2, <2>3, <2>4
    <3>. QED  BY <2>1, <2>4, <2>5, <3>1, SendHeir, Zenon
  <2>. QED  BY <1>1, <2>1, <2>2, <2>6, TaskOnward, Zenon
<1>. QED  BY <1>2, <1>3

\* PushDelta
LEMMA PushDeltaOnward ==
    ASSUME Inv, Owned, InOrder, NEW i \in DOMAIN streams, PushDelta(i)
    PROVE  Steady
<1>1. PICK s, e, q, u : s = streams[i] /\ e = Head(s.queue) /\ q = Tail(s.queue) /\ u = [s EXCEPT !.queue = q]
  BY Zenon
<1>2. UNCHANGED <<nodes, leg>> /\ ~s.dead /\ s.queue # <<>>
  BY <1>1, Zenon DEF PushDelta
<1>3. IsStream(s) /\ IsSeq(s.out) /\ IsSeq(s.queue)
  BY <1>1, StreamFacts DEF StreamOK
<1>4. NoRemovals(s.queue)
  BY <1>1 DEF InOrder, Kept, StreamKept
<1>5. NoRemovals(q) /\ ~e.removed
  BY <1>1, <1>2, <1>3, <1>4, TailNoRemovals, Zenon
<1>6. IsStream(u) /\ u.leg = s.leg /\ u.nid = s.nid /\ u.dead = s.dead /\ u.queue = q /\ u.out = s.out
  BY <1>1, <1>3, Zenon DEF IsStream
<1>7. CASE e.nid = s.nid
  <2>1. streams' = [streams EXCEPT ![i] = u]
    BY <1>1, <1>5, <1>7, Zenon DEF PushDelta
  <2>2. Heir(s, u, nodes)
    BY <1>5, <1>6 DEF Heir, OutStep
  <2>. QED  BY <1>1, <1>2, <2>1, <2>2, TaskOnward, Zenon
<1>8. CASE e.nid # s.nid
  <2>1. PICK changed, f, t : changed = {e.nid} \cap DOMAIN nodes /\ f = DeltaFrame(changed, {}) /\ t = Send(u, f)
    BY Zenon
  <2>2. streams' = [streams EXCEPT ![i] = t]
    BY <1>1, <1>5, <1>8, <2>1, Zenon DEF PushDelta
  <2>3. changed \subseteq DOMAIN nodes /\ s.nid \notin changed
    BY <1>8, <2>1
  <2>4. Fresh(f, nodes, s.nid)
    BY <2>1, <2>3, DeltaFresh
  <2>5. Heir(s, t, nodes)
    <3>1. IsSeq(u.out) /\ ~u.dead /\ NoRemovals(u.queue)
      BY <1>2, <1>3, <1>5, <1>6
    <3>. QED  BY <1>6, <2>1, <2>4, <3>1, SendHeir, Zenon
  <2>. QED  BY <1>1, <1>2, <2>2, <2>5, TaskOnward, Zenon
<1>. QED  BY <1>7, <1>8

\* A stream takes a step and hears of a change.
LEMMA HeirNoted ==
    ASSUME NEW s, NEW u, NEW ns, Heir(s, u, ns), NEW t, Noted(u, t)
    PROVE  Heir(s, t, ns)
BY DEF Heir, Noted

\* Streams that go on and then are told an event.
LEMMA StepNoted ==
    ASSUME NEW ss, NEW uu, NEW ns, \A j \in DOMAIN uu : j \in DOMAIN ss /\ Heir(ss[j], uu[j], ns),
           NEW tt, AllNoted(uu, tt)
    PROVE  Inherited(ss, tt, ns)
BY HeirNoted DEF AllNoted, Inherited

\* Apply
LEMMA ApplyOnward ==
    ASSUME Inv, Owned, InOrder, NEW i \in DOMAIN streams, Apply(i)
    PROVE  Steady
<1>1. PICK s, x, r, ns2, u : /\ s = streams[i] /\ x = s.nid /\ r = s.request /\ ns2 = Updated(nodes, x, r)
                             /\ u = [s EXCEPT !.phase = "poll"]
  BY Zenon
<1>2. nodes' = ns2 /\ s.phase = "map"
  BY <1>1, Zenon DEF Apply
<1>3. PICK uu, tt : /\ uu = [streams EXCEPT ![i] = u] \/ uu = Drop(streams, i)
                    /\ tt = UpdateEvent(uu, x, nodes, ns2) /\ streams' = tt
  <2>1. PICK uu \in {[streams EXCEPT ![i].phase = "poll"]} \cup (IF s.dead THEN {Drop(streams, i)} ELSE {}) :
          streams' = UpdateEvent(uu, x, nodes, ns2)
    BY <1>1, Zenon DEF Apply
  <2>2. uu = [streams EXCEPT ![i].phase = "poll"] \/ uu = Drop(streams, i)
    BY <2>1, Zenon
  <2>3. [streams EXCEPT ![i].phase = "poll"] = [streams EXCEPT ![i] = u]
    BY <1>1, Zenon
  <2>. QED  BY <2>1, <2>2, <2>3, Zenon
<1>4. IsStream(s) /\ StreamOK(s, DOMAIN nodes, nextId) /\ s.leg \in Legs
  BY <1>1, StreamFacts DEF StreamOK
<1>5. IsStream(u) /\ u.phase = "poll" /\ u.leg = s.leg /\ u.nid = s.nid /\ u.queue = s.queue /\ u.out = s.out
  BY <1>1, <1>4 DEF IsStream
<1>6. StreamOK(u, DOMAIN nodes, nextId) /\ Heir(s, u, ns2)
  BY <1>2, <1>4, <1>5 DEF StreamOK, Heir, OutStep
<1>7. PICK ns, ss, next : /\ ns = nodes /\ ss = streams /\ next = nextId /\ env.cap \in Nat \ {0}
                          /\ RegistryOK(ns, next) /\ StreamsOK(ss, DOMAIN ns, next)
  BY DEF Inv
<1>8. \A j \in DOMAIN uu : j \in DOMAIN ss /\ ((j = i /\ uu[j] = u) \/ uu[j] = ss[j])
  <2>1. CASE uu = [streams EXCEPT ![i] = u]
    BY <1>7, <2>1
  <2>2. CASE uu = Drop(streams, i)
    BY <1>7, <2>2 DEF Drop
  <2>. QED  BY <1>3, <2>1, <2>2
<1>9. StreamsOK(uu, DOMAIN ns, next)
  <2>1. IsFiniteSet(DOMAIN ss) /\ DOMAIN uu \subseteq DOMAIN ss
    BY <1>7, <1>8 DEF StreamsOK
  <2>2. IsFiniteSet(DOMAIN uu)
    BY <2>1, FiniteSubset
  <2>. QED  BY <1>6, <1>7, <1>8, <2>2 DEF StreamsOK
<1>10. SameKeys(ns, ns2) /\ AllNoted(uu, tt)
  <2>1. ns2 = Updated(ns, x, r) /\ tt = UpdateEvent(uu, x, ns, ns2)
    BY <1>1, <1>3, <1>7, Zenon
  <2>. QED  BY <1>7, <1>9, <2>1, UpdateNoted, Zenon
<1>11. \A j \in DOMAIN uu : j \in DOMAIN ss /\ Heir(ss[j], uu[j], ns2)
  <2>1. \A h : Heir(h, h, ns2)
    BY DEF Heir, OutStep
  <2>. QED  BY <1>1, <1>6, <1>7, <1>8, <2>1
<1>12. Inherited(ss, tt, ns2)
  BY <1>10, <1>11, StepNoted
<1>13. AllMoved
  <2>1. CASE s.dead
    <3>1. leg' = leg
      BY <1>1, <2>1, Zenon DEF Apply
    <3>. QED  BY <3>1, NoneMoves
  <2>2. CASE ~s.dead
    <3>1. PICK d, l, k : d = s.leg /\ l = leg[d] /\ k = [l EXCEPT !.phase = "holding"]
      BY Zenon
    <3>2. leg' = [leg EXCEPT ![d] = k] /\ d \in Legs
      BY <1>1, <1>4, <2>2, <3>1, Zenon DEF Apply
    <3>3. IsProcess(l)
      BY <3>1, <3>2, LegFacts
    <3>4. k.key = l.key /\ k.snapshot = l.snapshot /\ k.stream = l.stream
      BY <3>1, <3>3 DEF IsProcess
    <3>5. Moved(l, k, streams')
      BY <3>4 DEF Moved, Carries
    <3>. QED  BY <3>1, <3>2, <3>5, OneMoves, Zenon
  <2>. QED  BY <2>1, <2>2
<1>14. SameKeys(nodes, nodes') /\ Inherited(streams, streams', nodes')
  BY <1>2, <1>3, <1>7, <1>10, <1>12
<1>. QED  BY <1>13, <1>14, QuietStep

\* FirstFrame
LEMMA FirstFrameOnward ==
    ASSUME Inv, Owned, InOrder, NEW i \in DOMAIN streams, FirstFrame(i)
    PROVE  Steady
<1>1. leg' = leg
  BY DEF FirstFrame
<1>2. CASE streams[i].nid \notin DOMAIN nodes
  <2>1. streams' = [streams EXCEPT ![i] = Cut([streams[i] EXCEPT !.phase = "panicked"])] /\ nodes' = nodes
    BY <1>2, Zenon DEF FirstFrame
  <2>. QED  BY <1>1, <2>1, PanicOnward, Zenon
<1>3. CASE streams[i].nid \in DOMAIN nodes
  <2>1. PICK s, x, f, u, t, ns2, tt, uu :
          /\ s = streams[i] /\ x = s.nid /\ f = FullFrame(x) /\ u = [s EXCEPT !.phase = "sent"] /\ t = Send(u, f)
          /\ ns2 = Marked(nodes, x, TRUE) /\ tt = MarkEvent(streams, x, TRUE) /\ uu = [tt EXCEPT ![i] = t]
    BY Zenon
  <2>2. nodes' = ns2 /\ streams' = uu
    BY <1>3, <2>1, Zenon DEF FirstFrame
  <2>3. PICK ss, next : /\ ss = streams /\ next = nextId /\ env.cap \in Nat \ {0}
                        /\ RegistryOK(nodes, next) /\ StreamsOK(ss, DOMAIN nodes, next)
    BY DEF Inv
  <2>4. SameKeys(nodes, ns2) /\ AllNoted(ss, tt)
    <3>1. tt = MarkEvent(ss, x, TRUE) /\ ns2 = Marked(nodes, x, TRUE)
      BY <2>1, <2>3, Zenon
    <3>. QED  BY <2>3, <3>1, MarkNoted, Zenon
  <2>5. IsStream(s) /\ IsSeq(s.out)
    BY <2>1, StreamFacts
  <2>6. /\ IsStream(u) /\ u.leg = s.leg /\ u.nid = s.nid /\ u.dead = s.dead
        /\ u.queue = s.queue /\ u.out = s.out
    BY <2>1, <2>5 DEF IsStream
  <2>7. Fresh(f, ns2, s.nid)
    <3>1. Fresh(f, nodes, x)
      BY <2>1, FullFresh
    <3>2. Fresh(f, ns2, x)
      BY <2>4, <3>1, SameFresh
    <3>. QED  BY <2>1, <3>2, Zenon
  <2>8. Heir(s, t, ns2)
    <3>1. CASE s.dead
      <4>1. t = u
        BY <2>1, <2>6, <3>1 DEF Send
      <4>. QED  BY <2>6, <4>1 DEF Heir, OutStep
    <3>2. CASE ~s.dead
      <4>1. IsSeq(u.out) /\ ~u.dead
        BY <2>5, <2>6, <3>2
      <4>. QED  BY <2>1, <2>6, <2>7, <4>1, SendHeir, Zenon
    <3>. QED  BY <3>1, <3>2
  <2>9. DOMAIN uu = DOMAIN ss /\ uu[i] = t /\ \A j \in DOMAIN ss : j # i => uu[j] = tt[j]
    BY <2>1, <2>3, <2>4, Zenon DEF AllNoted
  <2>10. ASSUME NEW j \in DOMAIN uu PROVE j \in DOMAIN ss /\ Heir(ss[j], uu[j], ns2)
    <3>1. CASE j = i
      BY <2>1, <2>3, <2>8, <2>9, <3>1, Zenon
    <3>2. CASE j # i
      <4>1. j \in DOMAIN ss /\ uu[j] = tt[j] /\ Noted(ss[j], tt[j])
        BY <2>4, <2>9, <3>2 DEF AllNoted
      <4>. QED  BY <4>1 DEF Noted, Heir, OutStep
    <3>. QED  BY <3>1, <3>2
  <2>11. Inherited(ss, uu, ns2)
    BY <2>10 DEF Inherited
  <2>12. SameKeys(nodes, nodes') /\ Inherited(streams, streams', nodes') /\ AllMoved
    BY <1>1, <2>2, <2>3, <2>4, <2>11, NoneMoves
  <2>. QED  BY <2>12, QuietStep
<1>. QED  BY <1>2, <1>3

\* EndStream
LEMMA EndStreamOnward ==
    ASSUME Inv, Owned, InOrder, NEW i \in DOMAIN streams, EndStream(i)
    PROVE  Steady
<1>1. PICK x, ns2, tt, uu : /\ x = streams[i].nid /\ ns2 = Marked(nodes, x, FALSE)
                            /\ tt = MarkEvent(streams, x, FALSE) /\ uu = Drop(tt, i)
  BY Zenon
<1>2. nodes' = ns2 /\ streams' = uu /\ leg' = leg
  BY <1>1, Zenon DEF EndStream
<1>3. PICK ss, next : /\ ss = streams /\ next = nextId /\ env.cap \in Nat \ {0}
                      /\ RegistryOK(nodes, next) /\ StreamsOK(ss, DOMAIN nodes, next)
  BY DEF Inv
<1>4. SameKeys(nodes, ns2) /\ AllNoted(ss, tt)
  <2>1. tt = MarkEvent(ss, x, FALSE) /\ ns2 = Marked(nodes, x, FALSE)
    BY <1>1, <1>3, Zenon
  <2>. QED  BY <1>3, <2>1, MarkNoted, Zenon
<1>5. \A j \in DOMAIN uu : j \in DOMAIN tt /\ uu[j] = tt[j]
  BY <1>1, Zenon DEF Drop
<1>6. Inherited(ss, tt, ns2)
  BY <1>4, NotedInherited
<1>7. Inherited(ss, uu, ns2)
  BY <1>5, <1>6 DEF Inherited
<1>8. SameKeys(nodes, nodes') /\ Inherited(streams, streams', nodes') /\ AllMoved
  BY <1>2, <1>3, <1>4, <1>7, NoneMoves
<1>. QED  BY <1>8, QuietStep

-----------------------------------------------------------------------------
(* Netmap: a leg reads a frame, and keeps the present keys it was told.    *)

\* The snapshot after a frame.
LEMMA MergedCases ==
    ASSUME NEW sn, NEW f, f.removed = {}, NEW sn2, sn2 = Merged(sn, f)
    PROVE  /\ \A n \in DOMAIN sn2 :
                (n \in DOMAIN f.peers /\ sn2[n] = f.peers[n]) \/ (n \in DOMAIN sn /\ sn2[n] = sn[n])
           /\ \A n \in DOMAIN sn : f.full \/ n \in DOMAIN sn2
           /\ \A n \in DOMAIN f.peers : n \in DOMAIN sn2
           /\ \A n \in DOMAIN sn2 : n \in DOMAIN f.peers => sn2[n] = f.peers[n]
<1>1. CASE ~has_netmap_data(f)
  <2>1. sn2 = sn /\ DOMAIN f.peers = {}
    BY <1>1 DEF Merged, has_netmap_data
  <2>. QED  BY <2>1
<1>2. CASE has_netmap_data(f) /\ f.full
  <2>1. sn2 = f.peers
    BY <1>2 DEF Merged
  <2>. QED  BY <1>2, <2>1
<1>3. CASE has_netmap_data(f) /\ ~f.full
  <2>1. sn2 = [n \in DOMAIN sn \cup DOMAIN f.peers |-> IF n \in DOMAIN f.peers THEN f.peers[n] ELSE sn[n]]
    <3>1. (DOMAIN sn \cup DOMAIN f.peers) \ f.removed = DOMAIN sn \cup DOMAIN f.peers
      OBVIOUS
    <3>2. sn2 = apply_delta(sn, f)
      BY <1>3 DEF Merged
    <3>. QED  BY <3>1, <3>2, Zenon DEF apply_delta
  <2>. QED  BY <2>1
<1>. QED  BY <1>1, <1>2, <1>3

\* It is confirmed by the frames that follow, and what was present in the old one is in it.
LEMMA MergedKept ==
    ASSUME NEW ns, NEW ky, NEW c, NEW sn, Views(sn, c, ns, ky), NEW out, IsSeq(out), out # <<>>,
           OutKept(out, c, ns, ky), Linked(sn, out, ns, ky),
           NEW f, f = Head(out), NEW sn2, sn2 = Merged(sn, f), NEW o, o = Tail(out)
    PROVE  Views(sn2, c, ns, ky) /\ Linked(sn2, o, ns, ky) /\ Retains(sn, sn2, ns, ky)
<1>1. /\ Len(out) \in Nat \ {0} /\ DOMAIN out = 1..Len(out) /\ DOMAIN o = 1..(Len(out) - 1)
      /\ f = out[1] /\ \A k \in 1..(Len(out) - 1) : o[k] = out[k + 1]
  BY TailSeq
<1>2. 1 \in DOMAIN out /\ \A k \in DOMAIN o : k + 1 \in DOMAIN out /\ 1 < k + 1 /\ o[k] = out[k + 1]
  BY <1>1
<1>3. f.removed = {} /\ Views(f.peers, c, ns, ky) /\ Confirms(f, sn, ns, ky)
  BY <1>1, <1>2 DEF OutKept, Linked
<1>4. /\ \A n \in DOMAIN sn2 : (n \in DOMAIN f.peers /\ sn2[n] = f.peers[n]) \/ (n \in DOMAIN sn /\ sn2[n] = sn[n])
      /\ \A n \in DOMAIN sn : f.full \/ n \in DOMAIN sn2
      /\ \A n \in DOMAIN f.peers : n \in DOMAIN sn2
      /\ \A n \in DOMAIN sn2 : n \in DOMAIN f.peers => sn2[n] = f.peers[n]
  BY <1>3, MergedCases
<1>5. Views(sn2, c, ns, ky)
  BY <1>3, <1>4 DEF Views
<1>6. ASSUME NEW k \in DOMAIN o PROVE Confirms(o[k], sn2, ns, ky)
  <2>1. Confirms(o[k], f.peers, ns, ky) /\ Confirms(o[k], sn, ns, ky)
    BY <1>1, <1>2 DEF OutKept, Linked
  <2>. QED  BY <1>4, <2>1 DEF Confirms
<1>7. ASSUME NEW n \in DOMAIN sn, sn[n].key = ky[ns[n].machine] PROVE n \in DOMAIN sn2 /\ sn2[n].key = sn[n].key
  <2>1. (f.full => n \in DOMAIN f.peers) /\ (n \in DOMAIN f.peers => f.peers[n].key = sn[n].key)
    BY <1>3, <1>7 DEF Confirms
  <2>. QED  BY <1>4, <2>1
<1>. QED  BY <1>5, <1>6, <1>7 DEF Linked, Retains

\* Netmap
LEMMA NetmapOnward ==
    ASSUME Inv, Owned, InOrder, NEW c \in Legs, Netmap(c)
    PROVE  Steady
<1>1. PICK i, s, l, f, k, t, tt :
        /\ i = leg[c].stream /\ s = streams[i] /\ l = leg[c] /\ f = Head(s.out)
        /\ k = (IF has_netmap_data(f) THEN pump_ts2021(apply_netmap(l, f)) ELSE l)
        /\ t = [s EXCEPT !.out = Tail(s.out)] /\ tt = [streams EXCEPT ![i] = t]
  BY Zenon
<1>2. Alive(c) /\ Inbox(c) # <<>>
  BY DEF Netmap, Inbox
<1>3. i \in DOMAIN streams /\ Inbox(c) = s.out /\ s.out # <<>>
  BY <1>1, <1>2 DEF Alive, Inbox
<1>4. leg' = [leg EXCEPT ![c] = k]
  BY <1>1, <1>3, Zenon DEF Netmap, Set
<1>5. streams' = tt /\ nodes' = nodes
  <2>1. streams' = [streams EXCEPT ![i].out = Tail(@)] /\ nodes' = nodes
    BY <1>1 DEF Netmap
  <2>. QED  BY <1>1, <2>1, Zenon
<1>6. IsProcess(l) /\ Routed(l) /\ Owns(c, i, streams) /\ DOMAIN leg = Legs
  BY <1>1, LegFacts
<1>7. k.stream = i /\ k.key = l.key /\ k.snapshot = Merged(l.snapshot, f)
  BY <1>1, <1>6, NetmapFacts
<1>8. leg'[c] = k /\ \A d \in Legs : d # c => leg'[d] = leg[d]
  BY <1>4, <1>6
<1>9. PICK ky : ky = Keys(leg) /\ Keys(leg') = ky
  <2>1. \A d \in Legs : leg'[d].key = leg[d].key
    BY <1>1, <1>7, <1>8, Zenon
  <2>. QED  BY <2>1, Zenon DEF Keys
<1>10. /\ RegistryKept(nodes, ky) /\ \A j \in DOMAIN streams : StreamKept(streams[j], nodes, ky)
       /\ \A d \in Legs : LegLinked(d, leg[d], streams, nodes, ky)
  BY <1>9 DEF InOrder, Kept
<1>11. Onward(nodes, ky, nodes, ky)
  BY <1>10, SameOn DEF SameKeys
<1>12. \A j \in DOMAIN streams : StreamKept(streams[j], nodes, ky) /\ IsSeq(streams[j].out)
  BY <1>10, StreamFacts
<1>13. IsStream(s) /\ IsSeq(s.out) /\ StreamKept(s, nodes, ky) /\ i # 0 /\ s.leg = c
  BY <1>1, <1>3, <1>6, <1>12, StreamFacts DEF Owns
<1>14. Heir(s, t, nodes) /\ t.out = Tail(s.out)
  BY <1>1, <1>3, <1>13, TailHeir
<1>15. Inherited(streams, tt, nodes)
  BY <1>1, <1>3, <1>14, OneInherited, Zenon
<1>16. \A j \in DOMAIN tt : StreamKept(tt[j], nodes, ky)
  BY <1>10, <1>11, <1>12, <1>15, StreamsKept
<1>17. ASSUME NEW d \in Legs, d # c PROVE LegLinked(d, leg[d], tt, nodes, ky)
  <2>1. LegLinked(d, leg[d], streams, nodes, ky) /\ Owns(d, leg[d].stream, streams)
    BY <1>10, LegFacts
  <2>2. Owns(d, leg[d].stream, tt) /\ Carries(leg[d], leg[d], tt)
    BY <1>5, <1>8, <1>17 DEF Owned, Carries
  <2>. QED  BY <1>10, <1>11, <1>12, <1>15, <2>1, <2>2, LegCarried
<1>18. PICK sn, sn2, out, o : sn = l.snapshot /\ sn2 = k.snapshot /\ out = s.out /\ o = t.out
  OBVIOUS
<1>19. Views(sn2, c, nodes, ky) /\ Linked(sn2, o, nodes, ky) /\ Retains(sn, sn2, nodes, ky)
  <2>1. Views(sn, c, nodes, ky) /\ Linked(sn, out, nodes, ky)
    BY <1>1, <1>10, <1>13, <1>18 DEF LegLinked
  <2>2. OutKept(out, c, nodes, ky) /\ IsSeq(out) /\ out # <<>>
    BY <1>3, <1>13, <1>18 DEF StreamKept
  <2>3. f = Head(out) /\ sn2 = Merged(sn, f) /\ o = Tail(out)
    BY <1>1, <1>7, <1>14, <1>18, Zenon
  <2>. QED  BY <2>1, <2>2, <2>3, MergedKept, Zenon
<1>20. LegLinked(c, k, tt, nodes, ky)
  <2>1. tt[i] = t
    BY <1>1, <1>3
  <2>. QED  BY <1>7, <1>18, <1>19, <2>1 DEF LegLinked
<1>21. InOrder'
  BY <1>5, <1>8, <1>9, <1>10, <1>16, <1>17, <1>20 DEF InOrder, Kept
<1>22. Retained(c)
  BY <1>1, <1>8, <1>9, <1>18, <1>19, Zenon DEF Retained
<1>23. \A d \in Legs : Retained(d)
  BY <1>8, <1>22, SameRetained
<1>. QED  BY <1>21, <1>23 DEF Steady

-----------------------------------------------------------------------------
(* All steps, and the beginning.                                           *)

\* Faults are counted.
LEMMA FaultCounted ==
    ASSUME NEW f \in Faults, Use(f), used \in [Faults -> Nat]
    PROVE  used' \in [Faults -> Nat] /\ used'[f] # 0 /\ \A g \in Faults : used'[g] = 0 => used[g] = 0
<1>1. used' = [used EXCEPT ![f] = used[f] + 1]
  BY DEF Use
<1>2. used[f] \in Nat /\ used[f] + 1 \in Nat /\ used[f] + 1 # 0
  OBVIOUS
<1>. QED  BY <1>1, <1>2

\* Every step counts its faults, and counts are never taken back.
LEMMA FaultsCounted ==
    ASSUME [Next]_vars, used \in [Faults -> Nat]
    PROVE  /\ used' \in [Faults -> Nat]
           /\ \A g \in Faults : used'[g] = 0 => used[g] = 0
           /\ (Wipe => used'["wipe"] # 0) /\ \A c \in Legs : evict(c) => used'["evict"] # 0
<1>1. used' = used \/ \E f \in Faults : Use(f)
  <2>1. CASE UNCHANGED vars
    BY <2>1 DEF vars
  <2>2. ASSUME NEW i \in DOMAIN streams,
               Apply(i) \/ FirstFrame(i) \/ Subscribe(i) \/ PushDelta(i) \/ PushFull(i) \/ EndStream(i)
        PROVE  used' = used
    BY <2>2, Zenon DEF Apply, FirstFrame, Subscribe, PushDelta, PushFull, EndStream
  <2>3. ASSUME NEW d \in derps, EndDerp(d) PROVE used' = used
    BY <2>3, Zenon DEF EndDerp
  <2>4. ASSUME NEW c \in Legs, \/ fetch_control_key(c) \/ Connect(c) \/ Establish(c) \/ EstablishFails(c)
                               \/ MapStream(c) \/ MapFails(c) \/ Netmap(c) \/ StreamFails(c)
                               \/ Poke(c) \/ Lite(c) \/ DerpLost(c) \/ Swallow(c)
        PROVE  used' = used
    BY <2>4, Zenon DEF fetch_control_key, Connect, Establish, EstablishFails, MapStream, MapFails, Netmap, StreamFails,
                       Poke, Lite, DerpLost, Swallow
  <2>5. "break" \in Faults /\ "derp" \in Faults /\ "refuse" \in Faults /\ "wipe" \in Faults /\ "restart" \in Faults
        /\ "poke" \in Faults /\ "evict" \in Faults
    BY DEF Faults
  <2>6. ASSUME NEW c \in Legs, \/ ConnectDerp(c) \/ DerpError(c) \/ SetMeshRoutes(c) \/ Break(c) \/ RestartLeg(c)
                               \/ evict(c)
        PROVE  used' = used \/ \E f \in Faults : Use(f)
    BY <2>5, <2>6, Zenon DEF ConnectDerp, DerpError, SetMeshRoutes, Break, RestartLeg, evict
  <2>7. CASE Wipe
    BY <2>5, <2>7, Zenon DEF Wipe
  <2>. QED  BY <2>1, <2>2, <2>3, <2>4, <2>6, <2>7, Zenon DEF Next, Program, Faulty
<1>2. used' \in [Faults -> Nat] /\ \A g \in Faults : used'[g] = 0 => used[g] = 0
  BY <1>1, FaultCounted
<1>3. Wipe => used'["wipe"] # 0
  <2>1. "wipe" \in Faults
    BY DEF Faults
  <2>. QED  BY <2>1, FaultCounted, Zenon DEF Wipe
<1>4. ASSUME NEW c \in Legs, evict(c) PROVE used'["evict"] # 0
  <2>1. "evict" \in Faults
    BY DEF Faults
  <2>. QED  BY <1>4, <2>1, FaultCounted DEF evict
<1>. QED  BY <1>2, <1>3, <1>4

\* A step in which the server forgets nothing.
LEMMA StepSteady ==
    ASSUME Inv, Inv', Spare(DOMAIN streams), InOrder, [Next]_vars, ~Wipe, \A c \in Legs : ~evict(c)
    PROVE  Steady
<1>1. Owned
  BY DEF Owned, Inv, LegOK
<1>2. CASE UNCHANGED vars
  <2>1. UNCHANGED <<nodes, streams>> /\ leg' = leg
    BY <1>2 DEF vars
  <2>. QED  BY <1>1, <2>1, NoneMoves, LegOnward
<1>3. ASSUME NEW i \in DOMAIN streams,
             Apply(i) \/ FirstFrame(i) \/ Subscribe(i) \/ PushDelta(i) \/ PushFull(i) \/ EndStream(i)
      PROVE  Steady
  BY <1>1, <1>3, ApplyOnward, FirstFrameOnward, SubscribeOnward, PushDeltaOnward, PushFullOnward, EndStreamOnward
<1>4. ASSUME NEW d \in derps, EndDerp(d) PROVE Steady
  <2>1. UNCHANGED <<nodes, streams>> /\ leg' = leg
    BY <1>4 DEF EndDerp
  <2>. QED  BY <1>1, <2>1, NoneMoves, LegOnward
<1>5. ASSUME NEW c \in Legs, \/ fetch_control_key(c) \/ Connect(c) \/ Establish(c) \/ EstablishFails(c)
                             \/ MapStream(c) \/ MapFails(c) \/ Netmap(c) \/ StreamFails(c)
                             \/ Poke(c) \/ Lite(c) \/ ConnectDerp(c) \/ DerpError(c) \/ DerpLost(c)
      PROVE  Steady
  BY <1>1, <1>5, ConnectOnward, EstablishOnward, StartOverOnward, MapStreamOnward, NetmapOnward, StreamFailsOnward,
     PokeOnward, LiteOnward, DerpOnward
<1>6. ASSUME NEW c \in Legs, SetMeshRoutes(c) \/ Break(c) \/ RestartLeg(c) \/ Swallow(c) PROVE Steady
  BY <1>1, <1>6, DerpOnward, StartOverOnward, RestartOnward, PokeOnward
<1>. QED  BY <1>2, <1>3, <1>4, <1>5, <1>6, Zenon DEF Next, Program, Faulty

\* The invariant of the keys.
LEMMA StepKept ==
    ASSUME Inv, Inv', Spare(DOMAIN streams), InvKept, [Next]_vars
    PROVE  InvKept'
<1>1. used \in [Faults -> Nat] /\ (used["wipe"] = 0 /\ used["evict"] = 0 => InOrder)
  BY DEF InvKept, InOrder
<1>2. /\ used' \in [Faults -> Nat]
      /\ \A g \in Faults : used'[g] = 0 => used[g] = 0
      /\ (Wipe => used'["wipe"] # 0) /\ \A c \in Legs : evict(c) => used'["evict"] # 0
  BY <1>1, FaultsCounted
<1>3. ASSUME used'["wipe"] = 0, used'["evict"] = 0 PROVE InOrder'
  <2>1. used["wipe"] = 0 /\ used["evict"] = 0
    BY <1>2, <1>3 DEF Faults
  <2>2. Steady
    BY <1>1, <1>2, <1>3, <2>1, StepSteady
  <2>. QED  BY <2>2 DEF Steady
<1>. QED  BY <1>2, <1>3 DEF InvKept, InOrder

\* The initial states.
LEMMA InitKept ==
    ASSUME Init, Lists(Numbered(env.settled), env.settled)
    PROVE  InvKept
<1>1. env \in Env
  BY TailnetAssumption DEF Init
<1>2. env.settled \subseteq Legs
  BY <1>1 DEF Env
<1>. DEFINE S == env.settled
            q == Numbered(S)
<1>3. /\ (\A k \in DOMAIN q : q[k] \in S) /\ (\A c \in S : \E k \in DOMAIN q : q[k] = c)
      /\ \A j, k \in DOMAIN q : q[j] = q[k] => j = k
  BY Zenon DEF Lists
<1>4. /\ nodes = [k \in DOMAIN q |-> Entry(q[k], <<q[k], 1>>)]
      /\ streams = [k \in DOMAIN q |-> [Stream(q[k], k, map_request_json(Static[q[k]])) EXCEPT !.phase = "live"]]
      /\ leg = [c \in Legs |-> IF c \in S THEN Holding(q, CHOOSE k \in DOMAIN q : q[k] = c)
                               ELSE IF c \in env.runs THEN Process(c, 1)
                               ELSE [Process(c, 1) EXCEPT !.phase = "off"]]
      /\ used = [f \in Faults |-> 0]
  BY Zenon DEF Init
<1>5. \A k \in DOMAIN q : q[k] \in Legs
  BY <1>2, <1>3
<1>. HIDE DEF S, q
<1>6. /\ DOMAIN nodes = DOMAIN q
      /\ \A k \in DOMAIN q : nodes[k].machine = q[k] /\ nodes[k].key = <<q[k], 1>>
  BY <1>4 DEF Entry
<1>7. DOMAIN streams = DOMAIN q
  BY <1>4
<1>8. ASSUME NEW k \in DOMAIN q
      PROVE  streams[k].leg = q[k] /\ streams[k].nid = k /\ streams[k].queue = <<>> /\ streams[k].out = <<>>
  <2>1. PICK r, u, s : r = map_request_json(Static[q[k]]) /\ u = Stream(q[k], k, r) /\ s = [u EXCEPT !.phase = "live"]
    BY Zenon
  <2>2. streams[k] = s
    BY <1>4, <2>1, Zenon
  <2>3. IsStream(u) /\ u.leg = q[k] /\ u.nid = k /\ u.queue = <<>> /\ u.out = <<>>
    BY <2>1 DEF Stream, IsStream
  <2>4. s.leg = q[k] /\ s.nid = k /\ s.queue = <<>> /\ s.out = <<>>
    BY <2>1, <2>3 DEF IsStream
  <2>. QED  BY <2>2, <2>4, Zenon
<1>9. ASSUME NEW c \in S, c \in Legs
      PROVE  \E k \in DOMAIN q :
               /\ q[k] = c /\ leg[c].key = <<c, 1>> /\ leg[c].stream = k
               /\ DOMAIN leg[c].snapshot = DOMAIN q \ {k}
               /\ \A j \in DOMAIN leg[c].snapshot : leg[c].snapshot[j].key = <<q[j], 1>>
  <2>1. PICK k : k = (CHOOSE j \in DOMAIN q : q[j] = c)
    OBVIOUS
  <2>2. k \in DOMAIN q /\ q[k] = c
    BY <1>3, <2>1
  <2>3. PICK l : l = Holding(q, k) /\ leg[c] = l
    BY <1>4, <1>9, <2>1, Zenon
  <2>4. /\ l.stream = k /\ l.key = <<q[k], 1>> /\ DOMAIN l.snapshot = DOMAIN q \ {k}
        /\ \A j \in DOMAIN l.snapshot : l.snapshot[j].key = <<q[j], 1>>
    BY <1>4, <2>2, <2>3, HoldingOK
  <2>. QED  BY <2>2, <2>3, <2>4
<1>10. ASSUME NEW c \in Legs, c \notin S
       PROVE  leg[c].key = <<c, 1>> /\ leg[c].stream = 0 /\ leg[c].snapshot = <<>>
  <2>1. PICK l, k : /\ l = Process(c, 1) /\ leg[c] = k
                    /\ k = l \/ k = [l EXCEPT !.phase = "off"]
    BY <1>4, <1>10, Zenon
  <2>2. IsProcess(l)
    BY <2>1, ProcessFacts
  <2>3. l.key = <<c, 1>> /\ l.stream = 0 /\ l.snapshot = <<>>
    BY <2>1 DEF Process
  <2>4. k.key = l.key /\ k.stream = l.stream /\ k.snapshot = l.snapshot
    BY <2>1, <2>2 DEF IsProcess
  <2>. QED  BY <2>1, <2>3, <2>4
<1>11. PICK ky : ky = Keys(leg) /\ \A c \in Legs : ky[c] = <<c, 1>>
  <2>1. \A c \in Legs : leg[c].key = <<c, 1>>
    BY <1>9, <1>10
  <2>2. PICK ky : ky = Keys(leg)
    OBVIOUS
  <2>3. \A c \in Legs : ky[c] = <<c, 1>>
    BY <2>1, <2>2 DEF Keys
  <2>. QED  BY <2>2, <2>3, Zenon
<1>12. ASSUME NEW k \in DOMAIN q PROVE Seen(k, <<q[k], 1>>, nodes, ky)
  BY <1>5, <1>6, <1>11 DEF Seen
<1>13. RegistryKept(nodes, ky)
  <2>1. \A c \in Legs : ky[c] = <<c, ky[c][2]>> /\ ky[c][2] \in Nat
    BY <1>11
  <2>2. \A n \in DOMAIN nodes : nodes[n].machine \in Legs /\ Seen(n, nodes[n].key, nodes, ky)
    BY <1>5, <1>6, <1>12
  <2>3. \A m, n \in DOMAIN nodes : nodes[m].machine = nodes[n].machine => m = n
    BY <1>3, <1>6
  <2>. QED  BY <2>1, <2>2, <2>3 DEF RegistryKept
<1>14. ASSUME NEW k \in DOMAIN streams PROVE StreamKept(streams[k], nodes, ky)
  <2>1. /\ streams[k].leg = q[k] /\ streams[k].nid = k /\ streams[k].queue = <<>> /\ streams[k].out = <<>>
        /\ k \in DOMAIN nodes /\ nodes[k].machine = q[k]
    BY <1>6, <1>7, <1>8
  <2>. QED  BY <2>1, NothingSeen DEF StreamKept
<1>15. ASSUME NEW c \in Legs PROVE LegLinked(c, leg[c], streams, nodes, ky)
  <2>1. CASE c \in S
    <3>1. PICK k \in DOMAIN q :
            /\ q[k] = c /\ leg[c].stream = k /\ DOMAIN leg[c].snapshot = DOMAIN q \ {k}
            /\ \A j \in DOMAIN leg[c].snapshot : leg[c].snapshot[j].key = <<q[j], 1>>
      BY <1>9, <2>1
    <3>2. Views(leg[c].snapshot, c, nodes, ky)
      <4>1. ASSUME NEW j \in DOMAIN leg[c].snapshot
            PROVE  Seen(j, leg[c].snapshot[j].key, nodes, ky) /\ nodes[j].machine # c
        <5>1. j \in DOMAIN q /\ j # k /\ leg[c].snapshot[j].key = <<q[j], 1>>
          BY <3>1
        <5>2. nodes[j].machine = q[j] /\ q[j] # q[k]
          BY <1>3, <1>6, <5>1
        <5>. QED  BY <1>12, <3>1, <5>1, <5>2
      <4>. QED  BY <4>1 DEF Views
    <3>3. streams[k].out = <<>>
      BY <1>8
    <3>. QED  BY <3>1, <3>2, <3>3, NothingLinked DEF LegLinked
  <2>2. CASE c \notin S
    BY <1>10, <2>2, NothingSeen DEF LegLinked
  <2>. QED  BY <2>1, <2>2
<1>16. Kept(nodes, streams, leg)
  BY <1>11, <1>13, <1>14, <1>15 DEF Kept
<1>17. used \in [Faults -> Nat]
  BY <1>4
<1>. QED  BY <1>16, <1>17 DEF InvKept

\* A key that goes was not present, or the leg is a new process.
LEMMA OnlyStale ==
    ASSUME Inv, Inv', Spare(DOMAIN streams), InvKept, [Next]_vars, NEW c \in Legs, NEW key \in Tunnels(c) \ Tunnels(c)'
    PROVE  \/ leg[c].key # leg'[c].key \/ leg[key[1]].key # key
           \/ used["wipe"] > 0 \/ used["evict"] > 0
<1>. SUFFICES ASSUME leg[c].key = leg'[c].key, leg[key[1]].key = key, used["wipe"] = 0, used["evict"] = 0
              PROVE  FALSE
  BY DEF InvKept, Faults
<1>1. InOrder /\ used \in [Faults -> Nat]
  BY DEF InvKept, InOrder
<1>2. PICK n \in DOMAIN leg[c].snapshot : key = leg[c].snapshot[n].key
  BY DEF Tunnels
<1>3. RegistryKept(nodes, Keys(leg)) /\ Seen(n, key, nodes, Keys(leg))
  BY <1>1, <1>2 DEF InOrder, Kept, LegLinked, Views
<1>4. nodes[n].machine \in Legs /\ key[1] = nodes[n].machine
  BY <1>3 DEF RegistryKept, Seen
<1>5. key = Keys(leg)[nodes[n].machine]
  BY <1>4 DEF Keys
<1>6. CASE Wipe
  <2>1. PICK l, b, d, t, k : /\ l = leg[c] /\ k = [l EXCEPT !.broken = b, !.stream = 0, !.derp = d, !.lost = t]
                             /\ leg'[c] = k
    BY <1>6, Zenon DEF Wipe
  <2>2. k.snapshot = l.snapshot
    BY <2>1, LegFacts DEF IsProcess
  <2>. QED  BY <2>1, <2>2 DEF Tunnels
<1>7. CASE \E d \in Legs : evict(d)
  <2>1. leg' = leg
    BY <1>7 DEF evict
  <2>. QED  BY <2>1 DEF Tunnels
<1>8. CASE ~Wipe /\ \A d \in Legs : ~evict(d)
  <2>1. Steady
    BY <1>1, <1>8, StepSteady
  <2>2. Retains(leg[c].snapshot, leg'[c].snapshot, nodes, Keys(leg))
    BY <2>1 DEF Steady, Retained
  <2>3. n \in DOMAIN leg'[c].snapshot /\ leg'[c].snapshot[n].key = key
    BY <1>2, <1>5, <2>2, Zenon DEF Retains
  <2>. QED  BY <2>3 DEF Tunnels
<1>. QED  BY <1>6, <1>7, <1>8

-----------------------------------------------------------------------------
(* Results.  Only here do finite sets have to be counted.                  *)

INSTANCE FiniteSetTheorems

\* There is a stream id left.
LEMMA FreshId ==
    ASSUME NEW D, IsFiniteSet(D)
    PROVE  Spare(D)
<1>1. PICK n \in Nat : n = Cardinality(D)
  BY FS_CardinalityType
<1>2. IsFiniteSet(1..(n + 1)) /\ Cardinality(1..(n + 1)) = n + 1
  <2>1. 1 \in Int /\ n + 1 \in Int
    OBVIOUS
  <2>2. Cardinality(1..(n + 1)) = IF 1 > n + 1 THEN 0 ELSE (n + 1) - 1 + 1
    BY <2>1, FS_Interval
  <2>. QED  BY <2>1, <2>2, FS_Interval
<1>3. SUFFICES ASSUME 1..(n + 1) \subseteq D PROVE FALSE
  BY <1>1 DEF Spare
<1>4. Cardinality(1..(n + 1)) <= Cardinality(D)
  BY <1>3, FS_Subset
<1>. QED  BY <1>1, <1>2, <1>4

\* The legs that are settled have numbers.
LEMMA NumberedOK ==
    ASSUME NEW S, IsFiniteSet(S), NEW q, q = Numbered(S)
    PROVE  Lists(q, S)
<1>1. PICK n \in Nat : n = Cardinality(S) /\ ExistsBijection(1..n, S)
  BY FS_CardinalityType
<1>2. \E f \in [1..n -> S] : \A c \in S : \E k \in DOMAIN f : f[k] = c
  BY <1>1, Zenon DEF ExistsBijection, Bijection, Surjection
<1>3. q \in [1..n -> S] /\ \A c \in S : \E k \in DOMAIN q : q[k] = c
  BY <1>1, <1>2, Zenon DEF Numbered
<1>4. DOMAIN q = 1..n /\ Len(q) = n
  BY <1>1, <1>3
<1>5. IsFiniteSet(1..n)
  BY <1>1, FS_Interval
<1>6. q \in Injection(1..n, S)
  <2>1. Cardinality(1..n) = n
    <3>1. 1 \in Int /\ n \in Int
      BY <1>1
    <3>2. Cardinality(1..n) = IF 1 > n THEN 0 ELSE n - 1 + 1
      BY <3>1, FS_Interval
    <3>. QED  BY <1>1, <3>2
  <2>2. q \in Surjection(1..n, S)
    BY <1>3, <1>4, Zenon DEF Surjection
  <2>. QED  BY <1>1, <1>5, <2>1, <2>2, FS_SurjSameCardinalityImpliesInj
<1>7. \A j, k \in DOMAIN q : q[j] = q[k] => j = k
  BY <1>4, <1>6, Zenon DEF Injection, IsInjective
<1>. QED  BY <1>1, <1>3, <1>4, <1>5, <1>7 DEF Lists

\* They are a finite set, and so are the streams.
LEMMA Counted ==
    /\ Init => Lists(Numbered(env.settled), env.settled)
    /\ Inv => Spare(DOMAIN streams)
<1>1. ASSUME Init PROVE Lists(Numbered(env.settled), env.settled)
  <2>1. env.settled \in SUBSET Legs
    BY <1>1, TailnetAssumption DEF Init, Env
  <2>2. IsFiniteSet(env.settled)
    BY <2>1, TailnetAssumption, FiniteSubset
  <2>. QED  BY <2>2, NumberedOK
<1>2. ASSUME Inv PROVE Spare(DOMAIN streams)
  <2>1. IsFiniteSet(DOMAIN streams)
    BY <1>2 DEF Inv, StreamsOK
  <2>. QED  BY <2>1, FreshId
<1>. QED  BY <1>1, <1>2

\* The invariant holds in every reachable state.
LEMMA Invariance == Spec => []Inv
<1>1. Init => Inv
  BY Counted, InitInv
<1>2. Inv /\ [Next]_vars => Inv'
  BY Counted, StepInv
<1>. QED  BY <1>1, <1>2, PTL DEF Spec

\* CaughtUp: a leg routes by what it was told, and a leg that reads an undisturbed stream was told what the registry
\* holds of every peer about which nothing is under way, for any number of legs, routes, faults and queue lengths:
\* serve_long_poll's deltas and its answer to a lag lose nothing.
THEOREM LegsCatchUp == Spec => []CaughtUp
BY Invariance, InvCaughtUp, PTL

\* In every reachable state.
LEMMA KeptInvariance == Spec => []InvKept
<1>1. Init => InvKept
  BY Counted, InitKept
<1>2. Inv /\ Inv' /\ InvKept /\ [Next]_vars => InvKept'
  BY Counted, StepKept
<1>. QED  BY <1>1, <1>2, Invariance, PTL DEF Spec

\* TunnelsKept: as long as the server forgets no node, a leg tears a tunnel down only when its peer, or the leg itself,
\* has started anew.  Reconnections, lag, whole netmaps and deltas in any order leave the session of a present key
\* alone (merge_sessions), for any number of legs and streams.
THEOREM TunnelsStay == Spec => TunnelsKept
<1>1. Inv /\ Inv' /\ InvKept /\ [Next]_vars =>
        [\A c \in Legs : \A key \in Tunnels(c) \ Tunnels(c)' :
           \/ leg[c].key # leg'[c].key \/ leg[key[1]].key # key
           \/ used["wipe"] > 0 \/ used["evict"] > 0]_vars
  BY Counted, OnlyStale
<1>. QED  BY <1>1, Invariance, KeptInvariance, PTL DEF Spec, TunnelsKept

=============================================================================
