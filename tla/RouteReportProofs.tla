--------------------------- MODULE RouteReportProofs ---------------------------
(***************************************************************************)
(* Proofs about RouteReport: no phantom routes in the calm, and a cursor   *)
(* that stands at the current version stands for the current routes.       *)
(***************************************************************************)
EXTENDS RouteReport, FiniteSetTheorems, TLAPS

(* Every leaf that names no prover is tried by the SMT translation, by it   *)
(* once more, and by Zenon.                                                *)
USE SMTT(10), Z3T(10), Zenon

SyncMessage == [announced : SUBSET Prefixes, withdrawn : SUBSET Prefixes]
PushMessage == [alive : SUBSET Nodes, full : BOOLEAN, entries : SUBSET Keys, lease : Int]

\* What the proofs need of a route map; D: a damped key has no entry.
MapOK(M, t) ==
    /\ M.entries \subseteq Keys /\ M.damped \in [Keys -> Int] /\ M.version \in Nat
    /\ \A k \in Keys : M.damped[k] > t => k \notin M.entries

TypeOK ==
    /\ env \in Environment /\ now \in Nat
    /\ via \in [Nodes -> [Prefixes -> Seq(Peers)]]
    /\ pending \in [Nodes -> [Prefixes -> Peers \cup {"none", "withdraw"}]]
    /\ reported \in [Nodes -> [Prefixes -> Peers \cup {"none"}]]
    /\ link \in [Nodes -> {"down", "joining", "up"}]
    /\ syncs \in [Nodes -> Seq(SyncMessage)] /\ pushes \in [Nodes -> Seq(PushMessage)]
    /\ dyn \in [Nodes -> SUBSET Keys]
    /\ lease \in [Nodes -> Int] /\ seen \in [Nodes -> Int] /\ pushed \in [Nodes -> Int]
    /\ members \subseteq Nodes /\ offline \subseteq Nodes
    /\ MapOK(map, now)

\* A connection that is not up carries no answers, and one that is not registered has no
\* lease.
Unregistered ==
    \A n \in Nodes : /\ link[n] # "up" => pushes[n] = <<>>
                     /\ link[n] = "joining" => lease[n] = -1

Renewal(n) == \E i \in DOMAIN pushes[n] : pushes[n][i].lease = now + LeaseExpiry

\* A lease is at most a unit of time behind, and one that is behind while the coordinator
\* has just heard of the node has its renewal on the wire.
Renewed(n) ==
    /\ seen[n] \in {-1, now - 1, now}
    /\ \A i \in DOMAIN pushes[n] : pushes[n][i].lease \in {-1, now + LeaseExpiry}
    /\ link[n] # "down" =>
         \/ lease[n] \in {-1, now + LeaseExpiry}
         \/ lease[n] = now - 1 + LeaseExpiry /\ (seen[n] = now => Renewal(n))

\* With heartbeats answered in time nobody goes offline and no lease runs out.
LeaseKept ==
    "lease" \notin env.faults => offline = {} /\ \A n \in Nodes : Renewed(n)

\* A withdrawal of p is on its way and no announcement follows it, or nothing of p is left.
Retracted(n, p) ==
    \/ \E i \in DOMAIN syncs[n] : /\ p \in syncs[n][i].withdrawn
                                 /\ \A j \in DOMAIN syncs[n] : j > i => p \notin syncs[n][j].announced
    \/ /\ <<p, n>> \notin map.entries
       /\ \A j \in DOMAIN syncs[n] : p \notin syncs[n][j].announced

\* A prefix without a supplier is being withdrawn, in the reporter or on its way.
Retracting(n, p) ==
    via[n][p] = <<>> => /\ pending[n][p] \in {"none", "withdraw"}
                        /\ pending[n][p] = "none" => Retracted(n, p)

PhantomInv ==
    Calm => members = Nodes /\ \A n \in Nodes : link[n] = "up" /\ \A p \in Prefixes : Retracting(n, p)

\* The routes that node n should have.
Current(n) == {k \in map.entries : k[2] # n}

\* An answer that replaces the routes by the current ones, and one that keeps them.
Refreshes(m, n, current) == m.full /\ {k \in m.entries : k[2] # n} = current
Keeps(m, current) == ~m.full /\ \A k \in current : k[2] \in m.alive

\* What is on the wire to n, on top of what n has, makes the current routes.
OnCourse(n) ==
    \/ \E i \in DOMAIN pushes[n] :
          /\ Refreshes(pushes[n][i], n, Current(n))
          /\ \A j \in DOMAIN pushes[n] : j > i => Keeps(pushes[n][j], Current(n))
    \/ dyn[n] = Current(n) /\ \A j \in DOMAIN pushes[n] : Keeps(pushes[n][j], Current(n))

\* A cursor is only kept for a registered connection, and one that stands at the current
\* version stands for the current routes.
Cursor(n) ==
    /\ link[n] # "up" => pushed[n] = -1
    /\ pushed[n] <= map.version
    /\ n \in members /\ pushed[n] = map.version => OnCourse(n)

\* The connections of the nodes do not break on their own.
Steady == env.faults \subseteq {"coordinator", "revoke"}

CursorInv == Steady => (\A k \in map.entries : k[2] \in members) /\ \A n \in Nodes : Cursor(n)

Inv == TypeOK /\ Unregistered /\ LeaseKept /\ PhantomInv /\ CursorInv
-----------------------------------------------------------------------------
(* Induction over data: the gates of the coordinator run over the prefixes *)
(* of a report one after the other.                                        *)

\* A set of naturals that holds 0 and every successor of a member holds all up to N.
LEMMA UpTo ==
    ASSUME NEW N \in Nat, NEW S, 0 \in S, \A i \in 1..N : i - 1 \in S => i \in S
    PROVE  0..N \subseteq S
<1>. DEFINE Less == {x \in Nat \X Nat : x[1] < x[2]}
            Bad == (0..N) \ S
<1>1. IsWellFoundedOn(Less, Nat)
  BY NatLessThanWellFounded DEF OpToRel
<1>2. SUFFICES ASSUME Bad # {} PROVE FALSE
  OBVIOUS
<1>3. PICK m \in Bad : \A k \in Bad : <<k, m>> \notin Less
  <2>1. Bad \subseteq Nat
    OBVIOUS
  <2>. HIDE DEF Less, Bad
  <2>. QED  BY <1>1, <1>2, <2>1, WFMin, Zenon
<1>4. m \in 1..N /\ m - 1 \in Nat
  OBVIOUS
<1>5. m - 1 \in Bad
  BY <1>4
<1>6. <<m - 1, m>> \in Less
  BY <1>4
<1>. QED  BY <1>3, <1>5, <1>6

\* The two loops of apply_sync.
AnnounceLoop(M, n, sync, t) ==
    LET A[i \in 0..NumPrefixes] ==
            IF i = 0 THEN M
            ELSE IF i \in sync.announced THEN Announced(A[i - 1], <<i, n>>, t) ELSE A[i - 1]
    IN A
WithdrawLoop(M, n, sync, t) ==
    LET W[i \in 0..NumPrefixes] ==
            IF i = 0 THEN M
            ELSE IF i \in sync.withdrawn THEN Withdrawn(W[i - 1], <<i, n>>, t) ELSE W[i - 1]
    IN W

\* The loop over the announcements has the value its recursion says.
LEMMA AnnounceLoops ==
    ASSUME NEW b, NEW n, NEW sync, NEW t
    PROVE  LET R == AnnounceLoop(b, n, sync, t) IN
           /\ R[0] = b
           /\ \A i \in 1..NumPrefixes :
                  R[i] = IF i \in sync.announced THEN Announced(R[i - 1], <<i, n>>, t) ELSE R[i - 1]
<1>. DEFINE N == NumPrefixes
            Step(g, i) == IF i \in sync.announced THEN Announced(g[i - 1], <<i, n>>, t) ELSE g[i - 1]
            Solves(g, m) == g = [i \in 0..m |-> IF i = 0 THEN b ELSE Step(g, i)]
            Solved == {m \in 0..N : \E g : Solves(g, m)}
<1>. HIDE DEF Step
<1>0. N \in Nat
  BY ReportConstants
<1>. HIDE DEF N
<1>1. 0 \in Solved
  <2>1. \E g : Solves(g, 0)
    <3>1. Solves([i \in 0..0 |-> b], 0)
      OBVIOUS
    <3>. QED  BY <3>1, Zenon
  <2>. HIDE DEF Solves
  <2>. QED  BY <1>0, <2>1
<1>2. ASSUME NEW m \in 1..N, m - 1 \in Solved PROVE m \in Solved
  <2>1. PICK g : Solves(g, m - 1)
    BY <1>2
  <2>2. \A i \in 0..(m - 1) : g[i] = IF i = 0 THEN b ELSE Step(g, i)
    BY <2>1
  <2>. DEFINE h == [i \in 0..m |-> IF i = m THEN Step(g, m) ELSE g[i]]
  <2>3. ASSUME NEW i \in 0..m PROVE h[i] = IF i = 0 THEN b ELSE Step(h, i)
    <3>1. CASE i = 0
      BY <2>2, <3>1, <1>0
    <3>2. CASE i # 0
      <4>1. h[i - 1] = g[i - 1]
        BY <1>0, <3>2
      <4>2. Step(h, i) = Step(g, i)
        BY <4>1 DEF Step
      <4>. QED  BY <2>2, <4>2, <3>2, <1>0
    <3>. QED  BY <3>1, <3>2
  <2>4. Solves(h, m)
    BY <2>3
  <2>. QED
    <3>. HIDE DEF h, Solves
    <3>. QED  BY <2>4, <1>0
<1>3. \E g : Solves(g, N)
  <2>. HIDE DEF Solves
  <2>1. 0..N \subseteq Solved
    BY <1>0, <1>1, <1>2, UpTo, Zenon
  <2>. QED  BY <2>1, <1>0
<1>. DEFINE R == CHOOSE g : Solves(g, N)
<1>4. Solves(R, N)
  <2>. HIDE DEF Solves
  <2>. QED  BY <1>3
<1>5. AnnounceLoop(b, n, sync, t) = R
  BY DEF AnnounceLoop, Step, N
<1>6. \A i \in 0..N : R[i] = IF i = 0 THEN b ELSE Step(R, i)
  <2>. HIDE DEF R
  <2>. QED  BY <1>4, Zenon
<1>7. R[0] = b /\ \A i \in 1..N : R[i] = Step(R, i)
  <2>. HIDE DEF R
  <2>. QED  BY <1>6, <1>0
<1>. QED
  <2>. HIDE DEF R
  <2>. QED  BY <1>5, <1>7 DEF Step, N

\* The loop over the withdrawals has the value its recursion says.
LEMMA WithdrawLoops ==
    ASSUME NEW b, NEW n, NEW sync, NEW t
    PROVE  LET R == WithdrawLoop(b, n, sync, t) IN
           /\ R[0] = b
           /\ \A i \in 1..NumPrefixes :
                  R[i] = IF i \in sync.withdrawn THEN Withdrawn(R[i - 1], <<i, n>>, t) ELSE R[i - 1]
<1>. DEFINE N == NumPrefixes
            Step(g, i) == IF i \in sync.withdrawn THEN Withdrawn(g[i - 1], <<i, n>>, t) ELSE g[i - 1]
            Solves(g, m) == g = [i \in 0..m |-> IF i = 0 THEN b ELSE Step(g, i)]
            Solved == {m \in 0..N : \E g : Solves(g, m)}
<1>. HIDE DEF Step
<1>0. N \in Nat
  BY ReportConstants
<1>. HIDE DEF N
<1>1. 0 \in Solved
  <2>1. \E g : Solves(g, 0)
    <3>1. Solves([i \in 0..0 |-> b], 0)
      OBVIOUS
    <3>. QED  BY <3>1, Zenon
  <2>. HIDE DEF Solves
  <2>. QED  BY <1>0, <2>1
<1>2. ASSUME NEW m \in 1..N, m - 1 \in Solved PROVE m \in Solved
  <2>1. PICK g : Solves(g, m - 1)
    BY <1>2
  <2>2. \A i \in 0..(m - 1) : g[i] = IF i = 0 THEN b ELSE Step(g, i)
    BY <2>1
  <2>. DEFINE h == [i \in 0..m |-> IF i = m THEN Step(g, m) ELSE g[i]]
  <2>3. ASSUME NEW i \in 0..m PROVE h[i] = IF i = 0 THEN b ELSE Step(h, i)
    <3>1. CASE i = 0
      BY <2>2, <3>1, <1>0
    <3>2. CASE i # 0
      <4>1. h[i - 1] = g[i - 1]
        BY <1>0, <3>2
      <4>2. Step(h, i) = Step(g, i)
        BY <4>1 DEF Step
      <4>. QED  BY <2>2, <4>2, <3>2, <1>0
    <3>. QED  BY <3>1, <3>2
  <2>4. Solves(h, m)
    BY <2>3
  <2>. QED
    <3>. HIDE DEF h, Solves
    <3>. QED  BY <2>4, <1>0
<1>3. \E g : Solves(g, N)
  <2>. HIDE DEF Solves
  <2>1. 0..N \subseteq Solved
    BY <1>0, <1>1, <1>2, UpTo, Zenon
  <2>. QED  BY <2>1, <1>0
<1>. DEFINE R == CHOOSE g : Solves(g, N)
<1>4. Solves(R, N)
  <2>. HIDE DEF Solves
  <2>. QED  BY <1>3
<1>5. WithdrawLoop(b, n, sync, t) = R
  BY DEF WithdrawLoop, Step, N
<1>6. \A i \in 0..N : R[i] = IF i = 0 THEN b ELSE Step(R, i)
  <2>. HIDE DEF R
  <2>. QED  BY <1>4, Zenon
<1>7. R[0] = b /\ \A i \in 1..N : R[i] = Step(R, i)
  <2>. HIDE DEF R
  <2>. QED  BY <1>6, <1>0
<1>. QED
  <2>. HIDE DEF R
  <2>. QED  BY <1>5, <1>7 DEF Step, N

\* apply_sync is its two loops, then the version.
LEMMA ApplyIsLoops ==
    ASSUME NEW M, NEW n, NEW sync, NEW t
    PROVE  apply_sync(M, n, sync, t) =
             Bumped(M, WithdrawLoop(AnnounceLoop(M, n, sync, t)[NumPrefixes], n, sync, t)[NumPrefixes])
  BY DEF apply_sync, WithdrawLoop, AnnounceLoop

-----------------------------------------------------------------------------
(* The route map.                                                          *)

\* One announcement adds at most its own key, and never a damped one.
LEMMA AnnouncedKeeps ==
    ASSUME NEW M, NEW k \in Keys, NEW t \in Nat, MapOK(M, t)
    PROVE  /\ MapOK(Announced(M, k, t), t) /\ Announced(M, k, t).version = M.version
           /\ Announced(M, k, t).entries \subseteq M.entries \cup {k}
<1>. DEFINE A == Announced(M, k, t)
            fs == Flipped(M, k, t)
            dampedTo == [M.damped EXCEPT ![k] = t + FlapWindow]
<1>. HIDE DEF fs
<1>1. CASE A = M
  BY <1>1 DEF MapOK
<1>2. CASE /\ ~Damped(M, k, t) /\ k \notin M.entries
           /\ A = [entries |-> M.entries, count |-> M.count, flaps |-> [M.flaps EXCEPT ![k] = fs],
                   damped |-> dampedTo, version |-> M.version]
  <2>1. dampedTo \in [Keys -> Int] /\ \A j \in Keys : j # k => dampedTo[j] = M.damped[j]
    BY ReportConstants DEF MapOK
  <2>2. A.entries = M.entries /\ A.damped = dampedTo /\ A.version = M.version
    BY <1>2
  <2>. QED  BY <1>2, <2>1, <2>2 DEF MapOK
<1>3. CASE /\ ~Damped(M, k, t)
           /\ A.entries = M.entries \cup {k} /\ A.damped = M.damped /\ A.version = M.version
  BY <1>3 DEF MapOK, Damped
<1>. QED  BY <1>1, <1>2, <1>3 DEF Announced, fs

\* One withdrawal removes its own key, unless that has no entry.
LEMMA WithdrawnKeeps ==
    ASSUME NEW M, NEW k \in Keys, NEW t \in Nat, MapOK(M, t)
    PROVE  /\ MapOK(Withdrawn(M, k, t), t) /\ Withdrawn(M, k, t).version = M.version
           /\ Withdrawn(M, k, t).entries = M.entries \ {k}
<1>. DEFINE W == Withdrawn(M, k, t)
            fs == Flipped(M, k, t)
            dampedTo == [M.damped EXCEPT ![k] = IF Len(fs) >= FlapLimit THEN t + FlapWindow ELSE @]
<1>. HIDE DEF fs
<1>1. CASE Damped(M, k, t) \/ k \notin M.entries
  <2>1. W = M
    BY <1>1 DEF Withdrawn
  <2>2. k \notin M.entries
    BY <1>1 DEF Damped, MapOK
  <2>. QED  BY <2>1, <2>2
<1>2. CASE ~(Damped(M, k, t) \/ k \notin M.entries)
  <2>1. W.entries = M.entries \ {k} /\ W.damped = dampedTo /\ W.version = M.version
    BY <1>2 DEF Withdrawn, fs
  <2>2. dampedTo \in [Keys -> Int] /\ \A j \in Keys : j # k => dampedTo[j] = M.damped[j]
    BY ReportConstants DEF MapOK
  <2>. QED  BY <2>1, <2>2 DEF MapOK
<1>. QED  BY <1>1, <1>2

\* What a report does to the route map: every withdrawn prefix is gone, only announced
\* ones are new, and the version moves with the entries.
LEMMA SyncApplied ==
    ASSUME NEW M, NEW n \in Nodes, NEW sync \in SyncMessage, NEW t \in Nat, MapOK(M, t),
           NEW A, A = apply_sync(M, n, sync, t)
    PROVE  /\ MapOK(A, t)
           /\ \A p \in sync.withdrawn : <<p, n>> \notin A.entries
           /\ \A k \in A.entries : k \in M.entries \/ (k[2] = n /\ k[1] \in sync.announced)
           /\ \/ A.version = M.version /\ A.entries = M.entries
              \/ A.version = M.version + 1
<1>. DEFINE N == NumPrefixes
            R == AnnounceLoop(M, n, sync, t)
            W == WithdrawLoop(R[N], n, sync, t)
            New(k) == k[2] = n /\ k[1] \in sync.announced
            GoodA == {i \in 0..N : /\ MapOK(R[i], t) /\ R[i].version = M.version
                                   /\ \A k \in R[i].entries : k \in M.entries \/ New(k)}
            GoodW == {i \in 0..N : /\ MapOK(W[i], t) /\ W[i].version = M.version
                                   /\ W[i].entries \subseteq R[N].entries
                                   /\ \A p \in sync.withdrawn : p <= i => <<p, n>> \notin W[i].entries}
<1>0. N \in Nat /\ sync.withdrawn \subseteq 1..N /\ \A i \in 1..N : <<i, n>> \in Keys
  BY ReportConstants DEF SyncMessage, Prefixes, Keys
<1>1. /\ R[0] = M
      /\ \A i \in 1..N : R[i] = IF i \in sync.announced THEN Announced(R[i - 1], <<i, n>>, t) ELSE R[i - 1]
  BY AnnounceLoops
<1>2. /\ W[0] = R[N]
      /\ \A i \in 1..N : W[i] = IF i \in sync.withdrawn THEN Withdrawn(W[i - 1], <<i, n>>, t) ELSE W[i - 1]
  BY WithdrawLoops
<1>3. A = Bumped(M, W[N])
  BY ApplyIsLoops
<1>. HIDE DEF R, W, N
<1>4. 0..N \subseteq GoodA
  <2>1. 0 \in GoodA
    BY <1>0, <1>1
  <2>2. ASSUME NEW i \in 1..N, i - 1 \in GoodA PROVE i \in GoodA
    <3>1. CASE i \in sync.announced
      <4>1. R[i] = Announced(R[i - 1], <<i, n>>, t)
        BY <1>1, <3>1
      <4>2. /\ MapOK(R[i], t) /\ R[i].version = R[i - 1].version
            /\ R[i].entries \subseteq R[i - 1].entries \cup {<<i, n>>}
        BY <1>0, <2>2, <4>1, AnnouncedKeeps
      <4>3. New(<<i, n>>)
        BY <3>1
      <4>. QED  BY <2>2, <4>2, <4>3, <1>0
    <3>2. CASE i \notin sync.announced
      <4>1. R[i] = R[i - 1]
        BY <1>1, <3>2, Zenon
      <4>. QED  BY <2>2, <4>1, <1>0
    <3>. QED  BY <3>1, <3>2
  <2>. HIDE DEF GoodA
  <2>. QED  BY <1>0, <2>1, <2>2, UpTo
<1>5. /\ MapOK(R[N], t) /\ R[N].version = M.version
      /\ \A k \in R[N].entries : k \in M.entries \/ New(k)
  BY <1>0, <1>4
<1>6. 0..N \subseteq GoodW
  <2>1. 0 \in GoodW
    BY <1>0, <1>2, <1>5
  <2>2. ASSUME NEW i \in 1..N, i - 1 \in GoodW PROVE i \in GoodW
    <3>0. /\ MapOK(W[i - 1], t) /\ W[i - 1].version = M.version
          /\ W[i - 1].entries \subseteq R[N].entries
          /\ \A p \in sync.withdrawn : p <= i - 1 => <<p, n>> \notin W[i - 1].entries
      BY <2>2
    <3>1. CASE i \in sync.withdrawn
      <4>1. W[i] = Withdrawn(W[i - 1], <<i, n>>, t)
        BY <1>2, <3>1
      <4>2. /\ MapOK(W[i], t) /\ W[i].version = W[i - 1].version
            /\ W[i].entries = W[i - 1].entries \ {<<i, n>>}
        <5>1. <<i, n>> \in Keys /\ MapOK(W[i - 1], t)
          BY <1>0, <3>0
        <5>2. /\ MapOK(Withdrawn(W[i - 1], <<i, n>>, t), t)
              /\ Withdrawn(W[i - 1], <<i, n>>, t).version = W[i - 1].version
              /\ Withdrawn(W[i - 1], <<i, n>>, t).entries = W[i - 1].entries \ {<<i, n>>}
          BY <5>1, WithdrawnKeeps
        <5>. QED  BY <4>1, <5>2
      <4>3. ASSUME NEW p \in sync.withdrawn, p <= i PROVE <<p, n>> \notin W[i].entries
        <5>1. p = i \/ p <= i - 1
          BY <1>0, <4>3
        <5>. QED  BY <3>0, <4>2, <5>1
      <4>. QED  BY <3>0, <4>2, <4>3, <1>0
    <3>2. CASE i \notin sync.withdrawn
      <4>1. W[i] = W[i - 1]
        BY <1>2, <3>2, Zenon
      <4>2. \A p \in sync.withdrawn : p <= i => p <= i - 1
        BY <1>0, <3>2
      <4>. QED  BY <3>0, <4>1, <4>2, <1>0
    <3>. QED  BY <3>1, <3>2
  <2>. HIDE DEF GoodW
  <2>. QED  BY <1>0, <2>1, <2>2, UpTo
<1>7. /\ MapOK(W[N], t) /\ W[N].version = M.version /\ W[N].entries \subseteq R[N].entries
      /\ \A p \in sync.withdrawn : <<p, n>> \notin W[N].entries
  <2>1. N \in GoodW
    BY <1>0, <1>6
  <2>. QED  BY <1>0, <2>1
<1>8. /\ A.entries = W[N].entries /\ A.damped = W[N].damped
      /\ A.version = IF W[N].entries # M.entries THEN M.version + 1 ELSE M.version
  BY <1>3, <1>7 DEF Bumped
<1>9. MapOK(A, t)
  BY <1>7, <1>8 DEF MapOK
<1>. QED  BY <1>5, <1>7, <1>8, <1>9

\* Dropping the routes of some nodes.
LEMMA NodesWithdrawn ==
    ASSUME NEW M, NEW S \in SUBSET Nodes, NEW t \in Nat, MapOK(M, t),
           NEW A, A = withdraw_nodes(M, S)
    PROVE  /\ MapOK(A, t) /\ A.entries = {k \in M.entries : k[2] \notin S}
           /\ S = {} => A.version = M.version
<1>. DEFINE hit == {n \in S : \E k \in M.entries : k[2] = n}
<1>1. /\ A.entries = {k \in M.entries : k[2] \notin hit}
      /\ A.damped = [k \in Keys |-> IF k[2] \in hit THEN 0 ELSE M.damped[k]]
      /\ A.version = M.version + Cardinality(hit)
  BY DEF withdraw_nodes
<1>2. Cardinality(hit) \in Nat
  <2>1. hit \in SUBSET Nodes
    OBVIOUS
  <2>. HIDE DEF hit
  <2>. QED  BY <2>1, ReportConstants, FS_Subset, FS_CardinalityType, Zenon
<1>3. S = {} => Cardinality(hit) = 0
  BY FS_EmptySet
<1>4. A.entries = {k \in M.entries : k[2] \notin S}
  BY <1>1
<1>. HIDE DEF hit
<1>5. A.damped \in [Keys -> Int] /\ \A k \in Keys : A.damped[k] \in {0, M.damped[k]}
  BY <1>1 DEF MapOK
<1>. QED  BY <1>1, <1>2, <1>3, <1>4, <1>5 DEF MapOK

-----------------------------------------------------------------------------
(* Types.                                                                  *)

\* Removing a leg leaves a list of legs, and the list itself when the leg is not on it.
LEMMA WithoutType ==
    ASSUME NEW s \in Seq(Peers), NEW l
    PROVE  /\ Without(s, l) \in Seq(Peers)
           /\ (\A i \in DOMAIN s : s[i] # l) => Without(s, l) = s
<1>1. CASE \A i \in DOMAIN s : s[i] # l
  BY <1>1 DEF Without
<1>2. CASE \E i \in DOMAIN s : s[i] = l
  <2>. DEFINE i == CHOOSE i \in DOMAIN s : s[i] = l
  <2>1. i \in 1..Len(s)
    BY <1>2
  <2>. HIDE DEF i
  <2>2. SubSeq(s, 1, i - 1) \in Seq(Peers) /\ SubSeq(s, i + 1, Len(s)) \in Seq(Peers)
    BY <2>1
  <2>3. SubSeq(s, 1, i - 1) \o SubSeq(s, i + 1, Len(s)) \in Seq(Peers)
    BY <2>2
  <2>. QED  BY <1>2, <2>3 DEF Without, i
<1>. QED  BY <1>1, <1>2

\* A flush writes a message and keeps a table.
LEMMA FlushType ==
    ASSUME TypeOK, NEW n \in Nodes
    PROVE  /\ flush(n).reported \in [Prefixes -> Peers \cup {"none"}]
           /\ [announced |-> flush(n).announced, withdrawn |-> flush(n).withdrawn] \in SyncMessage
<1>1. [announced |-> flush(n).announced, withdrawn |-> flush(n).withdrawn] \in SyncMessage
  BY DEF flush, SyncMessage
<1>2. ASSUME NEW p \in Supplied(n) PROVE Head(via[n][p]) \in Peers
  <2>1. p \in Prefixes /\ via[n][p] \in Seq(Peers) /\ via[n][p] # <<>>
    BY DEF TypeOK, Supplied
  <2>. QED  BY <2>1
<1>3. ASSUME NEW p \in Prefixes PROVE flush(n).reported[p] \in Peers \cup {"none"}
  <2>1. reported[n][p] \in Peers \cup {"none"}
    BY DEF TypeOK
  <2>. QED  BY <1>2, <2>1 DEF flush
<1>. QED  BY <1>1, <1>3 DEF flush

\* The types hold in the initial state.
LEMMA InitType == Init => TypeOK
<1>. SUFFICES ASSUME Init PROVE TypeOK
  OBVIOUS
<1>. USE DEF Init
<1>1. MapOK(map, now)
  BY DEF MapOK, EmptyMap
<1>2. env \in Environment
  BY ReportConstants
<1>3. pending \in [Nodes -> [Prefixes -> Peers \cup {"none", "withdraw"}]]
  BY DEF Nothing
<1>4. reported \in [Nodes -> [Prefixes -> Peers \cup {"none"}]]
  BY DEF Nothing
<1>5. link \in [Nodes -> {"down", "joining", "up"}]
  OBVIOUS
<1>. QED  BY <1>1, <1>2, <1>3, <1>4, <1>5 DEF TypeOK

\* What the end of connections leaves.
LEMMA CutType ==
    ASSUME TypeOK, NEW S, Cut(S)
    PROVE  /\ link' \in [Nodes -> {"down", "joining", "up"}]
           /\ syncs' \in [Nodes -> Seq(SyncMessage)] /\ pushes' \in [Nodes -> Seq(PushMessage)]
<1>1. link' \in [Nodes -> {"down", "joining", "up"}]
  BY DEF Cut, TypeOK
<1>2. syncs' \in [Nodes -> Seq(SyncMessage)]
  BY DEF Cut, TypeOK
<1>3. pushes' \in [Nodes -> Seq(PushMessage)]
  BY DEF Cut, TypeOK
<1>. QED  BY <1>1, <1>2, <1>3

\* A heartbeat keeps the coordinator's state well formed.
LEMMA BeatType ==
    ASSUME TypeOK, NEW n \in Nodes, Beat(n)
    PROVE  /\ seen' \in [Nodes -> Int] /\ offline' \subseteq Nodes /\ Lapsed(n) \subseteq Nodes
           /\ MapOK(map', now) /\ map'.entries = {k \in map.entries : k[2] \notin Lapsed(n)}
           /\ Lapsed(n) = {} => map'.version = map.version
           /\ Forgotten(n) \in [Nodes -> Int]
<1>1. now \in Nat /\ members \subseteq Nodes /\ offline \subseteq Nodes /\ MapOK(map, now)
      /\ seen \in [Nodes -> Int] /\ pushed \in [Nodes -> Int]
  BY DEF TypeOK
<1>2. Lapsed(n) \in SUBSET Nodes
  BY <1>1 DEF Lapsed
<1>3. seen' = [seen EXCEPT ![n] = now] /\ offline' = (offline \ {n}) \cup Lapsed(n)
      /\ map' = withdraw_nodes(map, Lapsed(n))
  BY DEF Beat
<1>4. /\ MapOK(map', now) /\ map'.entries = {k \in map.entries : k[2] \notin Lapsed(n)}
      /\ Lapsed(n) = {} => map'.version = map.version
  BY <1>1, <1>2, <1>3, NodesWithdrawn
<1>5. seen' \in [Nodes -> Int] /\ offline' \subseteq Nodes
  BY <1>1, <1>2, <1>3
<1>6. Forgotten(n) \in [Nodes -> Int]
  BY <1>1 DEF Forgotten
<1>. QED  BY <1>2, <1>4, <1>5, <1>6

\* Every step keeps the types.
LEMMA TypeStep == TypeOK /\ [Next]_vars => TypeOK'
<1>. SUFFICES ASSUME TypeOK, [Next]_vars PROVE TypeOK'
  OBVIOUS
<1>. USE DEF nodeVars, wireVars, coordVars, budgets
<1>1. ASSUME NEW n \in Nodes, NEW l \in Peers, NEW p \in Prefixes, Learned(n, l, p) PROVE TypeOK'
  <2>1. via[n][p] \in Seq(Peers) /\ Append(via[n][p], l) \in Seq(Peers)
    BY DEF TypeOK
  <2>2. via' \in [Nodes -> [Prefixes -> Seq(Peers)]]
    BY <1>1, <2>1 DEF Learned, TypeOK
  <2>3. pending' \in [Nodes -> [Prefixes -> Peers \cup {"none", "withdraw"}]]
    BY <1>1 DEF Learned, TypeOK, learned
  <2>. QED  BY <1>1, <2>2, <2>3 DEF Learned, TypeOK
<1>2. ASSUME NEW n \in Nodes, NEW l \in Peers, NEW p \in Prefixes, RouteWithdrawn(n, l, p) PROVE TypeOK'
  <2>1. via[n][p] \in Seq(Peers) /\ Without(via[n][p], l) \in Seq(Peers)
    BY WithoutType DEF TypeOK
  <2>2. via' \in [Nodes -> [Prefixes -> Seq(Peers)]]
    BY <1>2, <2>1 DEF RouteWithdrawn, TypeOK
  <2>3. pending' \in [Nodes -> [Prefixes -> Peers \cup {"none", "withdraw"}]]
    BY <1>2 DEF RouteWithdrawn, TypeOK, withdrawn
  <2>. QED  BY <1>2, <2>2, <2>3 DEF RouteWithdrawn, TypeOK
<1>3. ASSUME NEW n \in Nodes, NEW l \in Peers, SessionDown(n, l) PROVE TypeOK'
  <2>1. ASSUME NEW p \in Prefixes PROVE Without(via[n][p], l) \in Seq(Peers)
    BY WithoutType DEF TypeOK
  <2>2. via' \in [Nodes -> [Prefixes -> Seq(Peers)]]
    BY <1>3, <2>1 DEF SessionDown, TypeOK
  <2>3. pending' \in [Nodes -> [Prefixes -> Peers \cup {"none", "withdraw"}]]
    BY <1>3 DEF SessionDown, TypeOK, session_down
  <2>. QED  BY <1>3, <2>2, <2>3, Zenon DEF SessionDown, TypeOK
<1>4. ASSUME NEW n \in Nodes, Flush(n) PROVE TypeOK'
  <2>1. Sent(n, flush(n))
    BY <1>4 DEF Flush
  <2>2. pending' \in [Nodes -> [Prefixes -> Peers \cup {"none", "withdraw"}]]
    BY <2>1 DEF Sent, TypeOK, Nothing
  <2>3. reported' \in [Nodes -> [Prefixes -> Peers \cup {"none"}]]
    BY <2>1, FlushType DEF Sent, TypeOK
  <2>4. syncs' \in [Nodes -> Seq(SyncMessage)]
    BY <2>1, FlushType DEF Sent, TypeOK
  <2>. QED  BY <2>1, <2>2, <2>3, <2>4 DEF Sent, TypeOK
<1>5. ASSUME NEW n \in Nodes, Connect(n) PROVE TypeOK'
  <2>1. link' \in [Nodes -> {"down", "joining", "up"}] /\ lease' \in [Nodes -> Int]
    BY <1>5 DEF Connect, TypeOK
  <2>. QED  BY <1>5, <2>1 DEF Connect, TypeOK
<1>6. ASSUME NEW n \in Nodes, Register(n) PROVE TypeOK'
  <2>1. Beat(n) /\ pushed' = Forgotten(n)
    BY <1>6 DEF Register
  <2>2. link' \in [Nodes -> {"down", "joining", "up"}]
    BY <1>6 DEF Register, TypeOK
  <2>3. pushes' \in [Nodes -> Seq(PushMessage)]
    <3>1. [alive |-> members \ offline', full |-> FALSE, entries |-> {}, lease |-> -1] \in PushMessage
      BY DEF PushMessage, TypeOK
    <3>. QED  BY <1>6, <3>1 DEF Register, TypeOK
  <2>4. pending' \in [Nodes -> [Prefixes -> Peers \cup {"none", "withdraw"}]]
    BY <1>6 DEF Register, TypeOK, resync_on_registered
  <2>5. UNCHANGED <<env, via, reported, dyn, lease, syncs, members, now>>
    BY <1>6 DEF Register
  <2>6. seen' \in [Nodes -> Int] /\ offline' \subseteq Nodes /\ MapOK(map', now) /\ pushed' \in [Nodes -> Int]
    BY <2>1, BeatType
  <2>. QED  BY <2>2, <2>3, <2>4, <2>5, <2>6 DEF TypeOK
<1>7. ASSUME NEW n \in Nodes, RouteSync(n) PROVE TypeOK'
  <2>0. syncs[n] # <<>> /\ UNCHANGED <<env, now>>
    BY <1>7 DEF RouteSync
  <2>1. CASE link[n] = "joining" /\ Cut({n}) /\ UNCHANGED <<nodeVars, coordVars>>
    BY <2>0, <2>1, CutType DEF TypeOK
  <2>2. CASE /\ syncs' = [syncs EXCEPT ![n] = Tail(@)]
             /\ map' = apply_route_sync(n, Head(syncs[n]))
             /\ UNCHANGED <<nodeVars, link, pushes, members, seen, offline, pushed>>
    <3>1. syncs[n] \in Seq(SyncMessage)
      BY DEF TypeOK
    <3>2. Tail(syncs[n]) \in Seq(SyncMessage) /\ Head(syncs[n]) \in SyncMessage
      BY <2>0, <3>1
    <3>3. MapOK(map', now)
      <4>1. now \in Nat /\ MapOK(map, now)
        BY DEF TypeOK
      <4>2. MapOK(apply_sync(map, n, Head(syncs[n]), now), now)
        <5>. DEFINE sync == Head(syncs[n])
                    A == apply_sync(map, n, sync, now)
        <5>1. sync \in SyncMessage
          BY <3>2
        <5>. HIDE DEF sync
        <5>2. A = apply_sync(map, n, sync, now)
          OBVIOUS
        <5>. HIDE DEF A
        <5>3. MapOK(A, now)
          BY <4>1, <5>1, <5>2, SyncApplied
        <5>. QED  BY <5>3 DEF A, sync
      <4>. QED  BY <2>2, <4>1, <4>2 DEF apply_route_sync
    <3>4. syncs' \in [Nodes -> Seq(SyncMessage)]
      BY <2>2, <3>2 DEF TypeOK
    <3>. QED  BY <2>0, <2>2, <3>3, <3>4 DEF TypeOK
  <2>. QED  BY <1>7, <2>1, <2>2 DEF RouteSync
<1>8. ASSUME NEW n \in Nodes, Heartbeat(n) PROVE TypeOK'
  <2>1. Beat(n) /\ pushed' = take_route_map_push(n, Forgotten(n), map').cursors
    BY <1>8 DEF Heartbeat
  <2>2. /\ seen' \in [Nodes -> Int] /\ offline' \subseteq Nodes /\ MapOK(map', now)
        /\ Forgotten(n) \in [Nodes -> Int]
    BY <2>1, BeatType
  <2>3. map'.entries \subseteq Keys /\ map'.version \in Nat
    BY <2>2 DEF MapOK
  <2>4. pushed' \in [Nodes -> Int]
    BY <2>1, <2>2, <2>3 DEF take_route_map_push
  <2>5. pushes' \in [Nodes -> Seq(PushMessage)]
    <3>1. take_route_map_push(n, Forgotten(n), map').some \in BOOLEAN
      BY DEF take_route_map_push
    <3>2. [alive |-> members \ offline', full |-> take_route_map_push(n, Forgotten(n), map').some,
           entries |-> map'.entries, lease |-> now + LeaseExpiry] \in PushMessage
      <4>. DEFINE some == take_route_map_push(n, Forgotten(n), map').some
      <4>1. members \ offline' \in SUBSET Nodes
        BY DEF TypeOK
      <4>2. now + LeaseExpiry \in Int
        BY ReportConstants DEF TypeOK
      <4>3. map'.entries \in SUBSET Keys
        BY <2>3
      <4>. HIDE DEF some
      <4>. QED  BY <3>1, <4>1, <4>2, <4>3 DEF PushMessage, some
    <3>. QED  BY <1>8, <3>2 DEF Heartbeat, TypeOK
  <2>6. UNCHANGED <<env, nodeVars, link, syncs, members, now>>
    BY <1>8 DEF Heartbeat
  <2>. QED  BY <2>2, <2>4, <2>5, <2>6 DEF TypeOK
<1>9. ASSUME NEW n \in Nodes, Deliver(n) PROVE TypeOK'
  <2>1. pushes[n] \in Seq(PushMessage) /\ pushes[n] # <<>>
    BY <1>9 DEF Deliver, TypeOK
  <2>2. Head(pushes[n]) \in PushMessage /\ Tail(pushes[n]) \in Seq(PushMessage)
    BY <2>1
  <2>3. dyn' \in [Nodes -> SUBSET Keys]
    BY <1>9, <2>2 DEF Deliver, TypeOK, Rebuilt, PushMessage
  <2>4. lease' \in [Nodes -> Int]
    BY <1>9, <2>2 DEF Deliver, TypeOK, PushMessage
  <2>5. pushes' \in [Nodes -> Seq(PushMessage)]
    BY <1>9, <2>2 DEF Deliver, TypeOK
  <2>. QED  BY <1>9, <2>3, <2>4, <2>5 DEF Deliver, TypeOK
<1>10. ASSUME NEW n \in Nodes, Watchdog(n) PROVE TypeOK'
  BY <1>10, CutType DEF Watchdog, TypeOK
<1>11. ASSUME NEW n \in Nodes, LinkLost(n) PROVE TypeOK'
  BY <1>11, CutType DEF LinkLost, TypeOK
<1>12. ASSUME NEW n \in Nodes, NodeRestart(n) PROVE TypeOK'
  <2>1. /\ via' \in [Nodes -> [Prefixes -> Seq(Peers)]]
        /\ pending' \in [Nodes -> [Prefixes -> Peers \cup {"none", "withdraw"}]]
        /\ reported' \in [Nodes -> [Prefixes -> Peers \cup {"none"}]]
    BY <1>12 DEF NodeRestart, TypeOK, Nothing
  <2>2. Cut({n}) /\ UNCHANGED <<env, coordVars, now>>
    BY <1>12 DEF NodeRestart
  <2>3. dyn' \in [Nodes -> SUBSET Keys] /\ lease' \in [Nodes -> Int]
    BY <1>12 DEF NodeRestart, TypeOK
  <2>. QED  BY <2>1, <2>2, <2>3, CutType DEF TypeOK
<1>13. ASSUME NEW n \in Nodes, Revoke(n) PROVE TypeOK'
  <2>1. now \in Nat /\ MapOK(map, now) /\ {n} \in SUBSET Nodes
    BY DEF TypeOK
  <2>2. map' = withdraw_nodes(map, {n})
    BY <1>13 DEF Revoke
  <2>3. MapOK(map', now)
    BY <2>1, <2>2, NodesWithdrawn
  <2>4. members' \subseteq Nodes /\ seen' \in [Nodes -> Int] /\ pushed' \in [Nodes -> Int] /\ offline' \subseteq Nodes
    BY <1>13 DEF Revoke, TypeOK
  <2>5. UNCHANGED <<env, nodeVars, wireVars, now>>
    BY <1>13 DEF Revoke
  <2>. QED  BY <2>3, <2>4, <2>5 DEF TypeOK
<1>14. ASSUME CoordinatorRestart PROVE TypeOK'
  <2>1. MapOK(map', now) /\ seen' \in [Nodes -> Int] /\ pushed' \in [Nodes -> Int] /\ offline' = {}
    BY <1>14 DEF CoordinatorRestart, EmptyMap, MapOK, TypeOK
  <2>2. Cut(Nodes) /\ UNCHANGED <<env, nodeVars, members, now>>
    BY <1>14 DEF CoordinatorRestart
  <2>. QED  BY <2>1, <2>2, CutType DEF TypeOK
<1>15. ASSUME Tick PROVE TypeOK'
  <2>1. now' = now + 1 /\ UNCHANGED <<env, nodeVars, wireVars, coordVars>> /\ now \in Nat
    BY <1>15, Zenon DEF Tick, TypeOK
  <2>2. MapOK(map, now')
    BY <2>1 DEF TypeOK, MapOK
  <2>. QED  BY <2>1, <2>2 DEF TypeOK
<1>16. ASSUME UNCHANGED vars PROVE TypeOK'
  BY <1>16 DEF vars, TypeOK
<1>. QED
  BY <1>1, <1>2, <1>3, <1>4, <1>5, <1>6, <1>7, <1>8, <1>9, <1>10, <1>11, <1>12, <1>13, <1>14, <1>15,
     <1>16 DEF Next, BgpEvent

\* The first message of a queue, and the others.
LEMMA FirstAndRest ==
    ASSUME NEW T, NEW s \in Seq(T), s # <<>>
    PROVE  /\ Head(s) \in T /\ Head(s) = s[1] /\ 1 \in DOMAIN s /\ Tail(s) \in Seq(T)
           /\ \A i \in DOMAIN Tail(s) : i \in Nat \ {0} /\ i + 1 \in DOMAIN s /\ Tail(s)[i] = s[i + 1]
           /\ \A i \in DOMAIN s : i \in Nat \ {0} /\ (i = 1 \/ (i - 1 \in DOMAIN Tail(s) /\ Tail(s)[i - 1] = s[i]))
<1>1. Head(s) \in T /\ Head(s) = s[1] /\ 1 \in DOMAIN s /\ Tail(s) \in Seq(T)
  OBVIOUS
<1>2. \A i \in DOMAIN Tail(s) : i \in Nat \ {0} /\ i + 1 \in DOMAIN s /\ Tail(s)[i] = s[i + 1]
  OBVIOUS
<1>3. \A i \in DOMAIN s : i \in Nat \ {0} /\ (i = 1 \/ (i - 1 \in DOMAIN Tail(s) /\ Tail(s)[i - 1] = s[i]))
  OBVIOUS
<1>. QED  BY <1>1, <1>2, <1>3

\* No step changes the environment.
LEMMA EnvFixed == [Next]_vars => env' = env
<1>1. ASSUME NEW n, BgpEvent(n) \/ Flush(n) \/ Connect(n) PROVE env' = env
  BY <1>1, Zenon DEF BgpEvent, Learned, RouteWithdrawn, SessionDown, Flush, Sent, Connect
<1>2. ASSUME NEW n, Register(n) \/ RouteSync(n) \/ Heartbeat(n) \/ Deliver(n) \/ Watchdog(n) PROVE env' = env
  <2>1. Register(n) => env' = env
    BY DEF Register
  <2>2. RouteSync(n) => env' = env
    BY DEF RouteSync
  <2>3. Heartbeat(n) => env' = env
    BY DEF Heartbeat
  <2>4. Deliver(n) \/ Watchdog(n) => env' = env
    BY DEF Deliver, Watchdog
  <2>. QED  BY <1>2, <2>1, <2>2, <2>3, <2>4
<1>3. ASSUME NEW n, LinkLost(n) \/ NodeRestart(n) \/ Revoke(n) PROVE env' = env
  BY <1>3 DEF LinkLost, NodeRestart, Revoke
<1>4. ASSUME CoordinatorRestart \/ Tick \/ UNCHANGED vars PROVE env' = env
  BY <1>4 DEF CoordinatorRestart, Tick, vars
<1>. QED  BY <1>1, <1>2, <1>3, <1>4, Zenon DEF Next

-----------------------------------------------------------------------------
(* Leases.                                                                 *)

\* With heartbeats answered in time no node lapses and the watchdog has nothing to do.
LEMMA NoLapse ==
    ASSUME TypeOK, LeaseKept, "lease" \notin env.faults, NEW n \in Nodes
    PROVE  Lapsed(n) = {} /\ (link[n] # "down" => ~Expired(n))
<1>1. ASSUME NEW m \in Lapsed(n) PROVE FALSE
  <2>1. m \in Nodes /\ seen[m] # -1 /\ now - seen[m] > LeaseExpiry
    BY DEF Lapsed, TypeOK
  <2>2. seen[m] \in {-1, now - 1, now} /\ now \in Nat
    BY <2>1 DEF LeaseKept, Renewed, TypeOK
  <2>. QED  BY <2>1, <2>2, ReportConstants
<1>2. ASSUME link[n] # "down" PROVE ~Expired(n)
  <2>1. now \in Nat /\ lease[n] \in {-1, now + LeaseExpiry, now - 1 + LeaseExpiry}
    BY <1>2 DEF LeaseKept, Renewed, TypeOK
  <2>. QED  BY <2>1, ReportConstants DEF Expired
<1>. QED  BY <1>1, <1>2

\* Nobody is registered in the beginning.
LEMMA InitLease == Init => Unregistered /\ LeaseKept
<1>. SUFFICES ASSUME Init PROVE Unregistered /\ LeaseKept
  OBVIOUS
<1>1. ASSUME NEW n \in Nodes
      PROVE  pushes[n] = <<>> /\ lease[n] = -1 /\ seen[n] \in {-1, 0} /\ now = 0 /\ offline = {}
  BY DEF Init
<1>2. offline = {}
  BY DEF Init
<1>. QED  BY <1>1, <1>2 DEF Unregistered, LeaseKept, Renewed

\* A node that a step does not touch.
LEMMA RenewedUntouched ==
    ASSUME NEW n, Renewed(n), seen'[n] = seen[n], pushes'[n] = pushes[n], link'[n] = link[n],
           lease'[n] = lease[n], now' = now
    PROVE  Renewed(n)'
  BY DEF Renewed, Renewal

\* A connection that ends.
LEMMA LeaseCut ==
    ASSUME TypeOK, Unregistered, LeaseKept, NEW n \in Nodes, Cut({n}), UNCHANGED <<env, seen, offline, now>>,
           lease' \in [Nodes -> Int], \A m \in Nodes \ {n} : lease'[m] = lease[m]
    PROVE  Unregistered' /\ LeaseKept'
<1>1. /\ link'[n] = "down" /\ pushes'[n] = <<>>
      /\ \A m \in Nodes \ {n} : link'[m] = link[m] /\ pushes'[m] = pushes[m]
  BY DEF Cut
<1>2. Unregistered'
  BY <1>1 DEF Unregistered
<1>3. ASSUME "lease" \notin env.faults, NEW m \in Nodes PROVE Renewed(m)'
  <2>1. CASE m = n
    BY <1>1, <1>3, <2>1 DEF LeaseKept, Renewed
  <2>2. CASE m # n
    BY <1>1, <1>3, <2>2, RenewedUntouched DEF LeaseKept
  <2>. QED  BY <2>1, <2>2
<1>. QED  BY <1>2, <1>3 DEF LeaseKept

\* A step that changes nothing the leases depend on.
LEMMA LeaseUntouched ==
    ASSUME Unregistered, LeaseKept, UNCHANGED <<env, link, pushes, lease, seen, offline, now>>
    PROVE  Unregistered' /\ LeaseKept'
<1>1. Unregistered'
  BY DEF Unregistered
<1>2. LeaseKept'
  BY DEF LeaseKept, Renewed, Renewal
<1>. QED  BY <1>1, <1>2

\* An answer put on the wire of a registered connection.
LEMMA LeaseAnswered ==
    ASSUME TypeOK, Unregistered, LeaseKept, NEW n \in Nodes, link[n] # "down", Beat(n), UNCHANGED <<env, lease, now>>,
           NEW m \in PushMessage, m.lease = now + LeaseExpiry \/ (m.lease = -1 /\ lease[n] = -1),
           pushes' = [pushes EXCEPT ![n] = Append(@, m)],
           link' = [link EXCEPT ![n] = "up"]
    PROVE  Unregistered' /\ LeaseKept'
<1>0. now \in Nat /\ lease \in [Nodes -> Int] /\ pushes[n] \in Seq(PushMessage) /\ m.lease \in Int
  BY Zenon DEF TypeOK, PushMessage
<1>1. /\ link'[n] = "up" /\ pushes'[n] = Append(pushes[n], m) /\ seen'[n] = now
      /\ \A x \in Nodes \ {n} : link'[x] = link[x] /\ pushes'[x] = pushes[x] /\ seen'[x] = seen[x]
  BY DEF TypeOK, Beat
<1>2. Unregistered'
  BY <1>1 DEF Unregistered
<1>3. ASSUME "lease" \notin env.faults PROVE offline' = {}
  <2>1. Lapsed(n) = {}
    BY <1>3, NoLapse
  <2>. QED  BY <1>3, <2>1, Zenon DEF Beat, LeaseKept
<1>4. ASSUME "lease" \notin env.faults, NEW x \in Nodes PROVE Renewed(x)'
  <2>0. Renewed(x)
    BY <1>4 DEF LeaseKept
  <2>1. CASE x = n
    <3>1. \A i \in DOMAIN pushes'[n] : pushes'[n][i].lease \in {-1, now + LeaseExpiry}
      <4>1. \A i \in DOMAIN pushes'[n] : pushes'[n][i] = m \/ (i \in DOMAIN pushes[n] /\ pushes'[n][i] = pushes[n][i])
        BY <1>0, <1>1
      <4>. QED  BY <2>0, <2>1, <4>1, Zenon DEF Renewed
    <3>2. Len(pushes[n]) + 1 \in DOMAIN pushes'[n] /\ pushes'[n][Len(pushes[n]) + 1] = m
      BY <1>0, <1>1
    <3>3. lease[n] \in {-1, now + LeaseExpiry, now - 1 + LeaseExpiry}
      BY <2>0, <2>1 DEF Renewed
    <3>. QED  BY <1>0, <1>1, <2>1, <3>1, <3>2, <3>3, ReportConstants DEF Renewed, Renewal
  <2>2. CASE x # n
    BY <1>1, <2>0, <2>2, RenewedUntouched
  <2>. QED  BY <2>1, <2>2
<1>. QED  BY <1>2, <1>3, <1>4, Zenon DEF LeaseKept

\* Every step keeps the leases: a registered node on calm links has its renewal under way before the lease ends.
LEMMA LeaseStep == TypeOK /\ TypeOK' /\ Unregistered /\ LeaseKept /\ [Next]_vars => Unregistered' /\ LeaseKept'
<1>. SUFFICES ASSUME TypeOK, TypeOK', Unregistered, LeaseKept, [Next]_vars PROVE Unregistered' /\ LeaseKept'
  OBVIOUS
<1>. USE DEF nodeVars, wireVars, coordVars, budgets
<1>1. ASSUME NEW n \in Nodes, BgpEvent(n) PROVE Unregistered' /\ LeaseKept'
  <2>1. UNCHANGED <<env, link, pushes, lease, seen, offline, now>>
    BY <1>1 DEF BgpEvent, Learned, RouteWithdrawn, SessionDown
  <2>. QED  BY <2>1, LeaseUntouched
<1>2. ASSUME NEW n \in Nodes, Flush(n) PROVE Unregistered' /\ LeaseKept'
  <2>1. UNCHANGED <<env, link, pushes, lease, seen, offline, now>>
    BY <1>2, Zenon DEF Flush, Sent
  <2>. QED  BY <2>1, LeaseUntouched
<1>3. ASSUME NEW n \in Nodes, Connect(n) PROVE Unregistered' /\ LeaseKept'
  <2>1. /\ link[n] = "down" /\ link'[n] = "joining" /\ lease'[n] = -1
        /\ \A m \in Nodes \ {n} : link'[m] = link[m] /\ lease'[m] = lease[m]
        /\ UNCHANGED <<env, pushes, seen, offline, now>>
    BY <1>3 DEF Connect, TypeOK
  <2>2. Unregistered'
    BY <2>1, Zenon DEF Unregistered
  <2>3. ASSUME "lease" \notin env.faults, NEW m \in Nodes PROVE Renewed(m)'
    <3>1. CASE m = n
      BY <2>1, <2>3, <3>1 DEF LeaseKept, Renewed
    <3>2. CASE m # n
      BY <2>1, <2>3, <3>2, RenewedUntouched DEF LeaseKept
    <3>. QED  BY <3>1, <3>2
  <2>. QED  BY <2>1, <2>2, <2>3, Zenon DEF LeaseKept
<1>4. ASSUME NEW n \in Nodes, Register(n) PROVE Unregistered' /\ LeaseKept'
  <2>. DEFINE m == [alive |-> members \ offline', full |-> FALSE, entries |-> {}, lease |-> -1]
  <2>0. members \ offline' \in SUBSET Nodes /\ {} \in SUBSET Keys /\ -1 \in Int
    BY DEF TypeOK
  <2>1. m \in PushMessage /\ m.lease = -1
    BY <2>0 DEF PushMessage
  <2>2. /\ link[n] = "joining" /\ Beat(n) /\ UNCHANGED <<env, lease, now>>
        /\ pushes' = [pushes EXCEPT ![n] = Append(@, m)] /\ link' = [link EXCEPT ![n] = "up"]
    BY <1>4 DEF Register
  <2>3. lease[n] = -1
    BY <2>2 DEF Unregistered
  <2>. HIDE DEF m
  <2>. QED  BY <2>1, <2>2, <2>3, LeaseAnswered, Zenon
<1>5. ASSUME NEW n \in Nodes, RouteSync(n) PROVE Unregistered' /\ LeaseKept'
  <2>1. \/ Cut({n}) /\ UNCHANGED <<env, seen, offline, now, lease>>
        \/ UNCHANGED <<env, link, pushes, lease, seen, offline, now>>
    BY <1>5 DEF RouteSync
  <2>2. lease \in [Nodes -> Int]
    BY DEF TypeOK
  <2>. QED  BY <2>1, <2>2, LeaseCut, LeaseUntouched
<1>6. ASSUME NEW n \in Nodes, Heartbeat(n) PROVE Unregistered' /\ LeaseKept'
  <2>. DEFINE m == [alive |-> members \ offline', full |-> take_route_map_push(n, Forgotten(n), map').some,
                    entries |-> map'.entries, lease |-> now + LeaseExpiry]
  <2>1. m.lease = now + LeaseExpiry
    OBVIOUS
  <2>2. /\ link[n] = "up" /\ Beat(n) /\ UNCHANGED <<env, lease, now, link>>
        /\ pushes' = [pushes EXCEPT ![n] = Append(@, m)]
    BY <1>6 DEF Heartbeat
  <2>3. link' = [link EXCEPT ![n] = "up"]
    BY <2>2 DEF TypeOK
  <2>. HIDE DEF m
  <2>4. m \in PushMessage
    <3>1. pushes[n] \in Seq(PushMessage) /\ pushes'[n] \in Seq(PushMessage) /\ pushes'[n] = Append(pushes[n], m)
      BY <2>2 DEF TypeOK
    <3>2. m = pushes'[n][Len(pushes[n]) + 1] /\ Len(pushes[n]) + 1 \in DOMAIN pushes'[n]
      BY <3>1
    <3>. QED  BY <3>1, <3>2
  <2>. QED  BY <2>1, <2>2, <2>3, <2>4, LeaseAnswered, Zenon
<1>7. ASSUME NEW n \in Nodes, Deliver(n) PROVE Unregistered' /\ LeaseKept'
  <2>1. /\ pushes[n] # <<>> /\ pushes'[n] = Tail(pushes[n])
        /\ lease'[n] = IF Head(pushes[n]).lease = -1 THEN lease[n] ELSE Head(pushes[n]).lease
        /\ \A m \in Nodes \ {n} : lease'[m] = lease[m] /\ pushes'[m] = pushes[m]
        /\ UNCHANGED <<env, link, seen, offline, now>>
    BY <1>7 DEF Deliver, TypeOK
  <2>2. link[n] = "up"
    BY <2>1, Zenon DEF Unregistered
  <2>3. Unregistered'
    BY <2>1, <2>2, Zenon DEF Unregistered
  <2>4. ASSUME "lease" \notin env.faults, NEW m \in Nodes PROVE Renewed(m)'
    <3>0. Renewed(m)
      BY <2>4 DEF LeaseKept
    <3>1. CASE m = n
      <4>1. pushes[n] \in Seq(PushMessage) /\ now \in Nat
        BY DEF TypeOK
      <4>2. /\ 1 \in DOMAIN pushes[n] /\ Head(pushes[n]) = pushes[n][1]
            /\ \A i \in DOMAIN Tail(pushes[n]) : i + 1 \in DOMAIN pushes[n] /\ Tail(pushes[n])[i] = pushes[n][i + 1]
            /\ \A i \in DOMAIN pushes[n] : i = 1 \/ (i - 1 \in DOMAIN Tail(pushes[n]) /\ Tail(pushes[n])[i - 1] = pushes[n][i])
        BY <2>1, <4>1
      <4>3. \A i \in DOMAIN pushes'[n] : pushes'[n][i].lease \in {-1, now + LeaseExpiry}
        BY <2>1, <3>0, <3>1, <4>2 DEF Renewed
      <4>4. Head(pushes[n]).lease \in {-1, now + LeaseExpiry}
        BY <3>0, <3>1, <4>2 DEF Renewed
      <4>5. CASE Head(pushes[n]).lease = -1
        <5>1. Renewal(n) => Renewal(n)'
          <6>. SUFFICES ASSUME Renewal(n) PROVE Renewal(n)'
            OBVIOUS
          <6>1. PICK i \in DOMAIN pushes[n] : pushes[n][i].lease = now + LeaseExpiry
            BY DEF Renewal
          <6>2. now + LeaseExpiry # -1
            BY <4>1, ReportConstants
          <6>3. i # 1
            BY <4>2, <4>5, <6>1, <6>2
          <6>4. i - 1 \in DOMAIN Tail(pushes[n]) /\ Tail(pushes[n])[i - 1] = pushes[n][i]
            BY <4>2, <6>3
          <6>5. i - 1 \in DOMAIN pushes'[n] /\ pushes'[n][i - 1].lease = now' + LeaseExpiry
            BY <2>1, <6>1, <6>4
          <6>. QED  BY <6>5 DEF Renewal
        <5>. QED  BY <2>1, <2>2, <3>0, <3>1, <4>3, <4>5, <5>1, Zenon DEF Renewed
      <4>6. CASE Head(pushes[n]).lease # -1
        BY <2>1, <3>0, <3>1, <4>3, <4>4, <4>6, Zenon DEF Renewed
      <4>. QED  BY <4>5, <4>6
    <3>2. CASE m # n
      BY <2>1, <3>0, <3>2, RenewedUntouched
    <3>. QED  BY <3>1, <3>2
  <2>. QED  BY <2>1, <2>3, <2>4, Zenon DEF LeaseKept
<1>8. ASSUME NEW n \in Nodes, Watchdog(n) PROVE Unregistered' /\ LeaseKept'
  <2>1. Cut({n}) /\ UNCHANGED <<env, seen, offline, now>> /\ lease' \in [Nodes -> Int]
        /\ \A m \in Nodes \ {n} : lease'[m] = lease[m]
    BY <1>8 DEF Watchdog, TypeOK
  <2>. QED  BY <2>1, LeaseCut
<1>9. ASSUME NEW n \in Nodes, LinkLost(n) PROVE Unregistered' /\ LeaseKept'
  <2>1. Cut({n}) /\ UNCHANGED <<env, seen, offline, now, lease>> /\ lease' \in [Nodes -> Int]
    BY <1>9 DEF LinkLost, TypeOK
  <2>. QED  BY <2>1, LeaseCut
<1>10. ASSUME NEW n \in Nodes, NodeRestart(n) PROVE Unregistered' /\ LeaseKept'
  <2>1. Cut({n}) /\ UNCHANGED <<env, seen, offline, now>> /\ lease' \in [Nodes -> Int]
        /\ \A m \in Nodes \ {n} : lease'[m] = lease[m]
    BY <1>10 DEF NodeRestart, TypeOK
  <2>. QED  BY <2>1, LeaseCut
<1>11. ASSUME NEW n \in Nodes, Revoke(n) PROVE Unregistered' /\ LeaseKept'
  <2>1. /\ seen'[n] = -1 /\ \A m \in Nodes \ {n} : seen'[m] = seen[m]
        /\ UNCHANGED <<env, link, pushes, lease, now>> /\ offline' \subseteq offline
    BY <1>11 DEF Revoke, TypeOK
  <2>2. Unregistered'
    BY <2>1 DEF Unregistered
  <2>3. ASSUME "lease" \notin env.faults, NEW m \in Nodes PROVE Renewed(m)'
    <3>1. CASE m = n
      <4>1. now \in Nat
        BY DEF TypeOK
      <4>2. seen'[n] # now
        BY <2>1, <4>1
      <4>. QED  BY <2>1, <2>3, <3>1, <4>2, Zenon DEF LeaseKept, Renewed
    <3>2. CASE m # n
      BY <2>1, <2>3, <3>2, RenewedUntouched DEF LeaseKept
    <3>. QED  BY <3>1, <3>2
  <2>. QED  BY <2>1, <2>2, <2>3 DEF LeaseKept
<1>12. ASSUME CoordinatorRestart PROVE Unregistered' /\ LeaseKept'
  <2>1. /\ \A n \in Nodes : seen'[n] = -1 /\ link'[n] = "down" /\ pushes'[n] = <<>>
        /\ offline' = {}
    BY <1>12 DEF CoordinatorRestart, Cut
  <2>. QED  BY <2>1 DEF Unregistered, LeaseKept, Renewed
<1>13. ASSUME Tick PROVE Unregistered' /\ LeaseKept'
  <2>1. /\ now' = now + 1 /\ UNCHANGED <<env, link, pushes, lease, seen, offline>>
        /\ "lease" \in env.faults \/ \A n \in Nodes : seen[n] = now /\ pushes[n] = <<>>
    BY <1>13 DEF Tick
  <2>2. Unregistered'
    BY <2>1 DEF Unregistered
  <2>3. ASSUME "lease" \notin env.faults, NEW m \in Nodes PROVE Renewed(m)'
    <3>1. seen[m] = now /\ pushes[m] = <<>> /\ Renewed(m) /\ now \in Nat
      BY <2>1, <2>3, Zenon DEF LeaseKept, TypeOK
    <3>2. link[m] # "down" => lease[m] \in {-1, now + LeaseExpiry}
      BY <3>1 DEF Renewed, Renewal
    <3>3. now' # now /\ now' - 1 = now
      BY <2>1, <3>1
    <3>4. now + LeaseExpiry = now' - 1 + LeaseExpiry
      BY <3>3
    <3>. QED  BY <2>1, <3>1, <3>2, <3>3, <3>4 DEF Renewed
  <2>. QED  BY <2>1, <2>2, <2>3 DEF LeaseKept
<1>14. ASSUME UNCHANGED vars PROVE Unregistered' /\ LeaseKept'
  BY <1>14, LeaseUntouched DEF vars
<1>. QED
  BY <1>1, <1>2, <1>3, <1>4, <1>5, <1>6, <1>7, <1>8, <1>9, <1>10, <1>11, <1>12, <1>13, <1>14 DEF Next

-----------------------------------------------------------------------------
(* No phantom routes.                                                      *)

\* Nothing is reported in the beginning.
LEMMA InitPhantom == Init => PhantomInv
<1>. SUFFICES ASSUME Init, Calm PROVE members = Nodes /\ \A n \in Nodes : link[n] = "up" /\ \A p \in Prefixes : Retracting(n, p)
  BY DEF PhantomInv
<1>1. ASSUME NEW n \in Nodes, NEW p \in Prefixes PROVE Retracting(n, p)
  <2>1. pending[n][p] = "none" /\ syncs[n] = <<>> /\ map.entries = {}
    BY DEF Init, Nothing, EmptyMap
  <2>. QED  BY <2>1 DEF Retracting, Retracted
<1>. QED  BY <1>1 DEF Init, Calm

\* A prefix that a step does not touch.
LEMMA RetractingUntouched ==
    ASSUME NEW n, NEW p, Retracting(n, p), via'[n][p] = via[n][p],
           pending'[n][p] \in {pending[n][p], "withdraw"}, syncs'[n] = syncs[n], map'.entries = map.entries
    PROVE  Retracting(n, p)'
<1>1. Retracted(n, p) => Retracted(n, p)'
  BY DEF Retracted
<1>. QED  BY <1>1 DEF Retracting

\* An event of a BGP leg.
LEMMA PhantomBgp ==
    ASSUME TypeOK, NEW n \in Nodes, NEW p \in Prefixes, \A q \in Prefixes : Retracting(n, q), BgpEvent(n)
    PROVE  Retracting(n, p)'
<1>. USE DEF nodeVars, wireVars, coordVars, budgets
<1>0. UNCHANGED <<syncs, map>>
  BY DEF BgpEvent, Learned, RouteWithdrawn, SessionDown
<1>1. ASSUME NEW l \in Peers, NEW q \in Prefixes, Learned(n, l, q) PROVE Retracting(n, p)'
  <2>1. CASE p = q
    <3>1. via'[n][p] = IF \E i \in DOMAIN via[n][p] : via[n][p][i] = l THEN via[n][p] ELSE Append(via[n][p], l)
      BY <1>1, <2>1, Zenon DEF Learned, TypeOK
    <3>2. via[n][p] \in Seq(Peers)
      BY DEF TypeOK
    <3>3. via'[n][p] # <<>>
      BY <3>1, <3>2
    <3>. QED  BY <3>3, Zenon DEF Retracting
  <2>2. CASE p # q
    <3>1. via'[n][p] = via[n][p] /\ pending'[n][p] = pending[n][p]
      BY <1>1, <2>2, Zenon DEF Learned, TypeOK, learned
    <3>. QED  BY <1>0, <3>1, RetractingUntouched
  <2>. QED  BY <2>1, <2>2
<1>2. ASSUME NEW l \in Peers, NEW q \in Prefixes, RouteWithdrawn(n, l, q) PROVE Retracting(n, p)'
  <2>1. CASE p = q
    <3>1. pending'[n][p] = "withdraw"
      BY <1>2, <2>1 DEF RouteWithdrawn, TypeOK, withdrawn
    <3>. QED  BY <3>1 DEF Retracting
  <2>2. CASE p # q
    <3>1. via'[n][p] = via[n][p] /\ pending'[n][p] = pending[n][p]
      BY <1>2, <2>2 DEF RouteWithdrawn, TypeOK, withdrawn
    <3>. QED  BY <1>0, <3>1, RetractingUntouched
  <2>. QED  BY <2>1, <2>2
<1>3. ASSUME NEW l \in Peers, SessionDown(n, l) PROVE Retracting(n, p)'
  <2>. DEFINE supplies == {q \in Prefixes : \E i \in DOMAIN via[n][q] : via[n][q][i] = l}
  <2>1. /\ via'[n][p] = Without(via[n][p], l)
        /\ pending'[n] = session_down([q \in Prefixes |-> IF q \in supplies THEN "withdraw" ELSE pending[n][q]],
                                      reported[n], l)
    BY <1>3 DEF SessionDown, TypeOK
  <2>2. pending'[n][p] \in {IF p \in supplies THEN "withdraw" ELSE pending[n][p], "withdraw"}
    BY <2>1, Zenon DEF session_down
  <2>3. CASE p \in supplies
    BY <2>2, <2>3, Zenon DEF Retracting
  <2>4. CASE p \notin supplies
    <3>1. via[n][p] \in Seq(Peers)
      BY DEF TypeOK
    <3>2. via'[n][p] = via[n][p]
      BY <2>1, <2>4, <3>1, WithoutType
    <3>. QED  BY <1>0, <2>2, <2>4, <3>2, RetractingUntouched, Zenon
  <2>. QED  BY <2>3, <2>4
<1>. QED  BY <1>1, <1>2, <1>3 DEF BgpEvent

\* A flush: what is withdrawn is on the wire after everything sent before.
LEMMA PhantomFlush ==
    ASSUME TypeOK, NEW n \in Nodes, NEW p \in Prefixes, Retracting(n, p), Flush(n)
    PROVE  Retracting(n, p)'
<1>. DEFINE f == flush(n)
            sync == [announced |-> f.announced, withdrawn |-> f.withdrawn]
<1>1. /\ syncs'[n] = IF f.announced \cup f.withdrawn = {} THEN syncs[n] ELSE Append(syncs[n], sync)
      /\ via' = via /\ map' = map
  BY Zenon DEF Flush, Sent, coordVars, TypeOK
<1>2. syncs[n] \in Seq(SyncMessage) /\ sync \in SyncMessage
  BY FlushType, Zenon DEF TypeOK
<1>. SUFFICES ASSUME via[n][p] = <<>> PROVE Retracting(n, p)'
  BY <1>1, Zenon DEF Retracting
<1>3. pending'[n][p] = "none"
  BY Zenon DEF Flush, Sent, TypeOK, Nothing
<1>4. pending[n][p] \in {"none", "withdraw"}
  BY Zenon DEF Retracting
<1>5. p \notin f.announced /\ (pending[n][p] = "withdraw" => p \in f.withdrawn)
  BY <1>4, ReportConstants DEF flush, Supplied
<1>. HIDE DEF f
<1>6. Retracted(n, p)'
  <2>1. CASE f.announced \cup f.withdrawn = {}
    <3>1. pending[n][p] = "none"
      BY <1>4, <1>5, <2>1, Zenon
    <3>. QED  BY <1>1, <2>1, <3>1, Zenon DEF Retracting, Retracted
  <2>2. CASE f.announced \cup f.withdrawn # {}
    <3>. DEFINE L == Len(syncs[n])
    <3>1. /\ DOMAIN syncs'[n] = 1..(L + 1) /\ DOMAIN syncs[n] = 1..L /\ L \in Nat
          /\ syncs'[n][L + 1] = sync
          /\ \A i \in 1..L : syncs'[n][i] = syncs[n][i]
      BY <1>1, <1>2, <2>2
    <3>2. sync.announced = f.announced /\ sync.withdrawn = f.withdrawn
      OBVIOUS
    <3>. HIDE DEF sync, L
    <3>3. CASE pending[n][p] = "withdraw"
      <4>1. L + 1 \in DOMAIN syncs'[n] /\ p \in syncs'[n][L + 1].withdrawn
        BY <1>5, <3>1, <3>2, <3>3
      <4>2. \A j \in DOMAIN syncs'[n] : ~(j > L + 1)
        BY <3>1
      <4>. QED  BY <4>1, <4>2 DEF Retracted
    <3>4. CASE pending[n][p] = "none"
      <4>1. Retracted(n, p)
        BY <3>4 DEF Retracting
      <4>2. p \notin syncs'[n][L + 1].announced
        BY <1>5, <3>1, <3>2
      <4>3. ASSUME NEW j \in DOMAIN syncs'[n], j # L + 1 PROVE j \in DOMAIN syncs[n] /\ syncs'[n][j] = syncs[n][j]
        BY <3>1, <4>3
      <4>4. CASE \E i \in DOMAIN syncs[n] : /\ p \in syncs[n][i].withdrawn
                                           /\ \A j \in DOMAIN syncs[n] : j > i => p \notin syncs[n][j].announced
        <5>1. PICK i \in DOMAIN syncs[n] : /\ p \in syncs[n][i].withdrawn
                                           /\ \A j \in DOMAIN syncs[n] : j > i => p \notin syncs[n][j].announced
          BY <4>4
        <5>2. i \in DOMAIN syncs'[n] /\ syncs'[n][i] = syncs[n][i]
          BY <3>1
        <5>. QED  BY <4>2, <4>3, <5>1, <5>2 DEF Retracted
      <4>5. CASE <<p, n>> \notin map.entries /\ \A j \in DOMAIN syncs[n] : p \notin syncs[n][j].announced
        BY <1>1, <4>2, <4>3, <4>5, Zenon DEF Retracted
      <4>. QED  BY <4>1, <4>4, <4>5, Zenon DEF Retracted
    <3>. QED  BY <1>4, <3>3, <3>4
  <2>. QED  BY <2>1, <2>2, Zenon
<1>. QED  BY <1>3, <1>6 DEF Retracting

\* A report of node n is applied: it withdraws what it says, and the others keep theirs.
LEMMA PhantomSync ==
    ASSUME TypeOK, NEW n \in members, NEW m \in Nodes, NEW p \in Prefixes, Retracting(m, p),
           link[n] = "up", RouteSync(n)
    PROVE  Retracting(m, p)'
<1>. DEFINE sync == Head(syncs[n])
<1>0. n \in Nodes
  BY DEF TypeOK
<1>1. /\ syncs[n] # <<>> /\ syncs' = [syncs EXCEPT ![n] = Tail(@)]
      /\ map' = apply_route_sync(n, sync) /\ UNCHANGED <<via, pending>>
  BY Zenon DEF RouteSync, nodeVars
<1>2. syncs[n] \in Seq(SyncMessage) /\ now \in Nat /\ MapOK(map, now)
  BY <1>0 DEF TypeOK
<1>3. syncs'[n] = Tail(syncs[n]) /\ (m # n => syncs'[m] = syncs[m])
  BY <1>0, <1>1 DEF TypeOK
<1>4. /\ sync \in SyncMessage /\ sync = syncs[n][1]
      /\ \A i \in DOMAIN syncs'[n] : i \in Nat \ {0} /\ i + 1 \in DOMAIN syncs[n] /\ syncs'[n][i] = syncs[n][i + 1]
      /\ \A i \in DOMAIN syncs[n] :
             i \in Nat \ {0} /\ (i = 1 \/ (i - 1 \in DOMAIN syncs'[n] /\ syncs'[n][i - 1] = syncs[n][i]))
  <2>1. /\ sync \in SyncMessage /\ sync = syncs[n][1]
        /\ \A i \in DOMAIN Tail(syncs[n]) :
               i \in Nat \ {0} /\ i + 1 \in DOMAIN syncs[n] /\ Tail(syncs[n])[i] = syncs[n][i + 1]
        /\ \A i \in DOMAIN syncs[n] :
               i \in Nat \ {0} /\ (i = 1 \/ (i - 1 \in DOMAIN Tail(syncs[n]) /\ Tail(syncs[n])[i - 1] = syncs[n][i]))
    BY <1>1, <1>2, FirstAndRest, Zenon
  <2>. QED  BY <1>3, <2>1
<1>5. 1 \in DOMAIN syncs[n]
  BY <1>1, <1>2
<1>. HIDE DEF sync
<1>6. map' = apply_sync(map, n, sync, now)
  BY <1>1 DEF apply_route_sync
<1>7. /\ \A q \in sync.withdrawn : <<q, n>> \notin map'.entries
      /\ \A k \in map'.entries : k \in map.entries \/ (k[2] = n /\ k[1] \in sync.announced)
  <2>1. n \in Nodes /\ sync \in SyncMessage /\ now \in Nat /\ MapOK(map, now)
    BY <1>0, <1>2, <1>4
  <2>. DEFINE A == map'
  <2>2. A = apply_sync(map, n, sync, now)
    BY <1>6
  <2>. HIDE DEF A
  <2>3. /\ \A q \in sync.withdrawn : <<q, n>> \notin A.entries
        /\ \A k \in A.entries : k \in map.entries \/ (k[2] = n /\ k[1] \in sync.announced)
    BY <2>1, <2>2, SyncApplied, Zenon
  <2>. QED  BY <2>3 DEF A
<1>8. Retracted(m, p) => Retracted(m, p)'
  <2>1. CASE m # n
    <3>1. <<p, m>> \in map'.entries => <<p, m>> \in map.entries
      BY <1>7, <2>1
    <3>. QED  BY <1>3, <2>1, <3>1 DEF Retracted
  <2>2. CASE m = n
    <3>1. ASSUME NEW i \in DOMAIN syncs[n], p \in syncs[n][i].withdrawn,
                 \A j \in DOMAIN syncs[n] : j > i => p \notin syncs[n][j].announced
          PROVE  Retracted(n, p)'
      <4>1. CASE i = 1
        <5>1. <<p, n>> \notin map'.entries
          BY <1>4, <1>7, <3>1, <4>1
        <5>2. ASSUME NEW j \in DOMAIN syncs'[n] PROVE p \notin syncs'[n][j].announced
          <6>1. j + 1 > 1 /\ j + 1 \in DOMAIN syncs[n] /\ syncs'[n][j] = syncs[n][j + 1]
            BY <1>4
          <6>. QED  BY <3>1, <4>1, <6>1, Zenon
        <5>. QED  BY <5>1, <5>2, Zenon DEF Retracted
      <4>2. CASE i # 1
        <5>1. i - 1 \in DOMAIN syncs'[n] /\ p \in syncs'[n][i - 1].withdrawn
          BY <1>4, <3>1, <4>2, Zenon
        <5>2. ASSUME NEW j \in DOMAIN syncs'[n], j > i - 1 PROVE p \notin syncs'[n][j].announced
          <6>1. j + 1 > i /\ j + 1 \in DOMAIN syncs[n] /\ syncs'[n][j] = syncs[n][j + 1]
            BY <1>4, <5>2
          <6>. QED  BY <3>1, <6>1
        <5>. QED  BY <5>1, <5>2 DEF Retracted
      <4>. QED  BY <4>1, <4>2
    <3>2. ASSUME <<p, n>> \notin map.entries, \A j \in DOMAIN syncs[n] : p \notin syncs[n][j].announced
          PROVE  Retracted(n, p)'
      <4>1. p \notin sync.announced
        BY <1>4, <1>5, <3>2, Zenon
      <4>2. <<p, n>> \notin map'.entries
        BY <1>7, <3>2, <4>1, Zenon
      <4>3. \A j \in DOMAIN syncs'[n] : p \notin syncs'[n][j].announced
        BY <1>4, <3>2
      <4>. QED  BY <4>2, <4>3 DEF Retracted
    <3>. QED  BY <2>2, <3>1, <3>2, Zenon DEF Retracted
  <2>. QED  BY <2>1, <2>2
<1>. QED  BY <1>1, <1>8, Zenon DEF Retracting

\* Every step keeps the account of suppliers, reports, messages in flight and map entries.
LEMMA PhantomStep == TypeOK /\ LeaseKept /\ PhantomInv /\ [Next]_vars => PhantomInv'
<1>. SUFFICES ASSUME TypeOK, LeaseKept, PhantomInv, [Next]_vars, Calm'
              PROVE  members' = Nodes /\ \A m \in Nodes : link'[m] = "up" /\ \A p \in Prefixes : Retracting(m, p)'
  BY Zenon DEF PhantomInv
<1>. USE DEF nodeVars, wireVars, coordVars, budgets
<1>0. env' = env
  BY EnvFixed
<1>1. env.faults = {} /\ "lease" \notin env.faults /\ Calm
  BY <1>0, Zenon DEF Calm
<1>2. members = Nodes /\ \A m \in Nodes : link[m] = "up" /\ \A p \in Prefixes : Retracting(m, p)
  BY <1>1, Zenon DEF PhantomInv
<1>. DEFINE Goal == members' = Nodes /\ \A m \in Nodes : link'[m] = "up" /\ \A p \in Prefixes : Retracting(m, p)'
<1>3. ASSUME UNCHANGED <<via, pending, syncs, link, members>>, map'.entries = map.entries PROVE Goal
  <2>1. ASSUME NEW m \in Nodes, NEW p \in Prefixes PROVE Retracting(m, p)'
    BY <1>2, <1>3, RetractingUntouched
  <2>. QED  BY <1>2, <1>3, <2>1
<1>4. ASSUME NEW n \in Nodes, BgpEvent(n) PROVE Goal
  <2>1. /\ \A m \in Nodes \ {n} : via'[m] = via[m] /\ pending'[m] = pending[m]
        /\ UNCHANGED <<link, members, syncs, map>>
    BY <1>4, Zenon DEF BgpEvent, Learned, RouteWithdrawn, SessionDown, TypeOK
  <2>2. ASSUME NEW m \in Nodes, NEW p \in Prefixes PROVE Retracting(m, p)'
    <3>1. CASE m = n
      BY <1>2, <1>4, <3>1, PhantomBgp
    <3>2. CASE m # n
      BY <1>2, <2>1, <3>2, RetractingUntouched
    <3>. QED  BY <3>1, <3>2
  <2>. QED  BY <1>2, <2>1, <2>2
<1>5. ASSUME NEW n \in Nodes, Flush(n) PROVE Goal
  <2>1. /\ \A m \in Nodes \ {n} : syncs'[m] = syncs[m] /\ pending'[m] = pending[m]
        /\ UNCHANGED <<via, link, members, map>>
    BY <1>5, Zenon DEF Flush, Sent, TypeOK
  <2>2. ASSUME NEW m \in Nodes, NEW p \in Prefixes PROVE Retracting(m, p)'
    <3>1. CASE m = n
      BY <1>2, <1>5, <3>1, PhantomFlush
    <3>2. CASE m # n
      BY <1>2, <2>1, <3>2, RetractingUntouched, Zenon
    <3>. QED  BY <3>1, <3>2
  <2>. QED  BY <1>2, <2>1, <2>2
<1>6. ASSUME NEW n \in Nodes, RouteSync(n) PROVE Goal
  <2>1. UNCHANGED <<link, members>>
    BY <1>2, <1>6 DEF RouteSync
  <2>2. ASSUME NEW m \in Nodes, NEW p \in Prefixes PROVE Retracting(m, p)'
    BY <1>2, <1>6, PhantomSync
  <2>. QED  BY <1>2, <2>1, <2>2
<1>7. ASSUME NEW n \in Nodes, Heartbeat(n) PROVE Goal
  <2>1. Beat(n) /\ UNCHANGED <<via, pending, syncs, link, members>>
    BY <1>7 DEF Heartbeat
  <2>2. map'.entries = map.entries
    <3>1. map'.entries = {k \in map.entries : k[2] \notin Lapsed(n)}
      BY <2>1, BeatType
    <3>2. Lapsed(n) = {}
      BY <1>1, NoLapse
    <3>. QED  BY <3>1, <3>2
  <2>. QED  BY <1>3, <2>1, <2>2
<1>8. ASSUME NEW n \in Nodes, Deliver(n) PROVE Goal
  BY <1>3, <1>8 DEF Deliver
<1>9. ASSUME NEW n \in Nodes, Connect(n) \/ Register(n) \/ Watchdog(n) PROVE Goal
  BY <1>1, <1>2, <1>9, NoLapse, Zenon DEF Connect, Register, Watchdog
<1>10. ASSUME NEW n \in Nodes, LinkLost(n) \/ NodeRestart(n) \/ Revoke(n) PROVE Goal
  BY <1>1, <1>10, Zenon DEF LinkLost, NodeRestart, Revoke, Upset
<1>11. ASSUME CoordinatorRestart PROVE Goal
  BY <1>1, <1>11, Zenon DEF CoordinatorRestart, Upset
<1>12. ASSUME Tick \/ UNCHANGED vars PROVE Goal
  BY <1>3, <1>12, Zenon DEF Tick, vars
<1>. QED
  BY <1>4, <1>5, <1>6, <1>7, <1>8, <1>9, <1>10, <1>11, <1>12 DEF Next

\* A settled node has nothing in its reporter and nothing on the wire.
LEMMA PhantomImplies == TypeOK /\ PhantomInv => NoPhantom
<1>. SUFFICES ASSUME TypeOK, PhantomInv, Calm, NEW n \in Nodes, Settled(n), NEW p \in EntriesOf(n)
              PROVE  p \in Supplied(n)
  BY DEF NoPhantom
<1>1. p \in Prefixes /\ <<p, n>> \in map.entries /\ syncs[n] = <<>> /\ pending[n][p] = "none"
  BY DEF EntriesOf, Settled, Nothing
<1>2. Retracting(n, p)
  BY <1>1 DEF PhantomInv
<1>3. ~Retracted(n, p)
  BY <1>1 DEF Retracted
<1>. QED  BY <1>1, <1>2, <1>3, Zenon DEF Retracting, Supplied

-----------------------------------------------------------------------------
(* Cursors.                                                                *)

\* Nothing has been pushed in the beginning.
LEMMA InitCursor == Init => CursorInv
<1>. SUFFICES ASSUME Init PROVE map.entries = {} /\ \A n \in Nodes : Cursor(n)
  BY DEF CursorInv
<1>1. map.entries = {} /\ map.version = 0 /\ \A n \in Nodes : pushed[n] = -1
  BY DEF Init, EmptyMap
<1>. QED  BY <1>1 DEF Cursor

\* A node that a step does not touch.
LEMMA CursorUntouched ==
    ASSUME NEW n, Cursor(n), pushes'[n] = pushes[n], dyn'[n] = dyn[n], pushed'[n] = pushed[n],
           link'[n] = link[n] \/ pushed[n] = -1,
           map'.entries = map.entries, map'.version = map.version, members' = members
    PROVE  Cursor(n)'
<1>1. Current(n)' = Current(n)
  BY DEF Current
<1>2. OnCourse(n) => OnCourse(n)'
  BY <1>1, Zenon DEF OnCourse
<1>. QED  BY <1>2 DEF Cursor

\* A report moves the version beyond every cursor, or changes nothing.
LEMMA CursorSync ==
    ASSUME TypeOK, NEW n \in Nodes, NEW m \in Nodes, Cursor(m), link[n] = "up", RouteSync(n)
    PROVE  Cursor(m)'
<1>. DEFINE sync == Head(syncs[n])
<1>1. /\ syncs[n] # <<>> /\ map' = apply_route_sync(n, sync)
      /\ UNCHANGED <<dyn, link, pushes, members, pushed>>
  BY Zenon DEF RouteSync, nodeVars
<1>2. now \in Nat /\ MapOK(map, now) /\ syncs[n] \in Seq(SyncMessage) /\ map.version \in Nat /\ pushed[m] \in Int
  BY Zenon DEF TypeOK, MapOK
<1>3. sync \in SyncMessage
  BY <1>1, <1>2
<1>. HIDE DEF sync
<1>4. \/ map'.version = map.version /\ map'.entries = map.entries
      \/ map'.version = map.version + 1
  <2>1. CASE n \in members
    <3>. DEFINE A == map'
    <3>1. A = apply_sync(map, n, sync, now)
      BY <1>1, <2>1 DEF apply_route_sync
    <3>. HIDE DEF A
    <3>2. (A.version = map.version /\ A.entries = map.entries) \/ A.version = map.version + 1
      BY <1>2, <1>3, <3>1, SyncApplied
    <3>. QED  BY <3>2 DEF A
  <2>2. CASE n \notin members
    BY <1>1, <2>2, Zenon DEF apply_route_sync
  <2>. QED  BY <2>1, <2>2
<1>5. CASE map'.version = map.version /\ map'.entries = map.entries
  BY <1>1, <1>5, CursorUntouched, Zenon
<1>6. CASE map'.version = map.version + 1
  BY <1>1, <1>2, <1>6 DEF Cursor
<1>. QED  BY <1>4, <1>5, <1>6

\* The answer to a heartbeat carries the route map unless the cursor says it was sent.
LEMMA CursorHeartbeat ==
    ASSUME TypeOK, LeaseKept, Steady, \A k \in map.entries : k[2] \in members,
           NEW n \in Nodes, NEW m \in Nodes, Cursor(m), Heartbeat(n)
    PROVE  map'.entries = map.entries /\ Cursor(m)'
<1>0. "lease" \notin env.faults
  BY DEF Steady
<1>1. Lapsed(n) = {} /\ offline = {}
  BY <1>0, NoLapse DEF LeaseKept
<1>. DEFINE some == take_route_map_push(n, Forgotten(n), map').some
            cursors == take_route_map_push(n, Forgotten(n), map').cursors
            answer == [alive |-> members \ offline', full |-> some, entries |-> map'.entries,
                       lease |-> now + LeaseExpiry]
<1>2. /\ Beat(n) /\ link[n] = "up" /\ pushed' = cursors /\ pushes' = [pushes EXCEPT ![n] = Append(@, answer)]
      /\ UNCHANGED <<dyn, link, members>>
  BY Zenon DEF Heartbeat, nodeVars
<1>3. map'.entries = map.entries /\ map'.version = map.version /\ offline' = {}
  <2>1. map'.entries = {k \in map.entries : k[2] \notin Lapsed(n)} /\ map'.version = map.version
    BY <1>1, <1>2, BeatType, Zenon
  <2>. QED  BY <1>1, <1>2, <2>1, Zenon DEF Beat
<1>4. Forgotten(n) = pushed
  BY <1>1, Zenon DEF Forgotten, TypeOK
<1>5. /\ some <=> (n \in members /\ pushed[n] # map.version)
      /\ cursors = IF n \in members THEN [pushed EXCEPT ![n] = map.version] ELSE pushed
  BY <1>3, <1>4, Zenon DEF take_route_map_push
<1>6. answer.alive = members /\ answer.full = some /\ answer.entries = map.entries
  BY <1>3, Zenon
<1>. HIDE DEF some, cursors, answer
<1>7. /\ \A x \in Nodes \ {n} : pushes'[x] = pushes[x] /\ pushed'[x] = pushed[x]
      /\ pushes'[n] = Append(pushes[n], answer)
      /\ pushed'[n] = IF n \in members THEN map.version ELSE pushed[n]
  BY <1>2, <1>5, Zenon DEF TypeOK
<1>8. CASE m # n
  BY <1>2, <1>3, <1>7, <1>8, CursorUntouched, Zenon
<1>9. CASE m = n
  <2>. DEFINE L == Len(pushes[n])
  <2>0. pushes[n] \in Seq(PushMessage) /\ map.version \in Nat
    BY Zenon DEF TypeOK, MapOK
  <2>1. /\ L \in Nat /\ DOMAIN pushes[n] = 1..L /\ DOMAIN pushes'[n] = 1..(L + 1) /\ pushes'[n][L + 1] = answer
        /\ \A i \in 1..L : pushes'[n][i] = pushes[n][i]
    BY <1>7, <2>0
  <2>. HIDE DEF L
  <2>2. Current(n)' = Current(n) /\ \A k \in Current(n) : k \in map.entries
    BY <1>3 DEF Current
  <2>4. ASSUME n \in members PROVE OnCourse(n)'
    <3>1. CASE pushed[n] # map.version
      <4>1. Refreshes(answer, n, Current(n)')
        BY <1>5, <1>6, <2>2, <2>4, <3>1 DEF Refreshes, Current
      <4>2. L + 1 \in DOMAIN pushes'[n] /\ \A j \in DOMAIN pushes'[n] : ~(j > L + 1)
        BY <2>1
      <4>. QED  BY <2>1, <4>1, <4>2, Zenon DEF OnCourse
    <3>2. CASE pushed[n] = map.version
      <4>1. Keeps(answer, Current(n))
        BY <1>5, <1>6, <2>2, <3>2 DEF Keeps
      <4>2. OnCourse(n)
        BY <1>9, <2>4, <3>2 DEF Cursor
      <4>3. ASSUME NEW j \in DOMAIN pushes'[n], j # L + 1 PROVE j \in DOMAIN pushes[n] /\ pushes'[n][j] = pushes[n][j]
        BY <2>1, <4>3
      <4>4. \A j \in DOMAIN pushes[n] : j \in DOMAIN pushes'[n] /\ pushes'[n][j] = pushes[n][j]
        BY <2>1
      <4>5. CASE dyn[n] = Current(n) /\ \A j \in DOMAIN pushes[n] : Keeps(pushes[n][j], Current(n))
        BY <1>2, <2>1, <2>2, <4>1, <4>3, <4>5, Zenon DEF OnCourse
      <4>6. ASSUME NEW i \in DOMAIN pushes[n], Refreshes(pushes[n][i], n, Current(n)),
                   \A j \in DOMAIN pushes[n] : j > i => Keeps(pushes[n][j], Current(n))
            PROVE  OnCourse(n)'
        <5>1. i \in DOMAIN pushes'[n] /\ Refreshes(pushes'[n][i], n, Current(n)')
          BY <2>2, <4>4, <4>6, Zenon
        <5>2. \A j \in DOMAIN pushes'[n] : j > i => Keeps(pushes'[n][j], Current(n)')
          BY <2>1, <2>2, <4>1, <4>3, <4>6, Zenon
        <5>. QED  BY <5>1, <5>2, Zenon DEF OnCourse
      <4>. QED  BY <4>2, <4>5, <4>6, Zenon DEF OnCourse
    <3>. QED  BY <3>1, <3>2
  <2>5. link'[n] = "up" /\ pushed'[n] <= map'.version
    <3>1. link'[n] = "up"
      BY <1>2
    <3>2. pushed[n] <= map.version
      BY <1>9 DEF Cursor
    <3>3. pushed'[n] <= map.version
      BY <1>7, <2>0, <3>2
    <3>. QED  BY <1>3, <3>1, <3>3
  <2>6. Cursor(n)'
    BY <1>2, <2>4, <2>5, Zenon DEF Cursor
  <2>. QED  BY <1>3, <1>9, <2>6
<1>. QED  BY <1>3, <1>8, <1>9

\* An answer arrives: what is left on the wire still makes the current routes.
LEMMA CursorDeliver ==
    ASSUME TypeOK, NEW n \in Nodes, Cursor(n), Deliver(n)
    PROVE  Cursor(n)'
<1>. DEFINE m == Head(pushes[n])
<1>1. /\ pushes[n] # <<>> /\ pushes'[n] = Tail(pushes[n]) /\ dyn'[n] = Rebuilt(n, m)
      /\ UNCHANGED <<link, members, map, pushed>>
  BY DEF Deliver, TypeOK, coordVars
<1>2. pushes[n] \in Seq(PushMessage)
  BY DEF TypeOK
<1>3. /\ m = pushes[n][1]
      /\ \A i \in DOMAIN pushes'[n] : i \in Nat \ {0} /\ i + 1 \in DOMAIN pushes[n] /\ pushes'[n][i] = pushes[n][i + 1]
      /\ \A i \in DOMAIN pushes[n] :
             i \in Nat \ {0} /\ (i = 1 \/ (i - 1 \in DOMAIN pushes'[n] /\ pushes'[n][i - 1] = pushes[n][i]))
  <2>1. /\ m = pushes[n][1]
        /\ \A i \in DOMAIN Tail(pushes[n]) :
               i \in Nat \ {0} /\ i + 1 \in DOMAIN pushes[n] /\ Tail(pushes[n])[i] = pushes[n][i + 1]
        /\ \A i \in DOMAIN pushes[n] :
               i \in Nat \ {0} /\ (i = 1 \/ (i - 1 \in DOMAIN Tail(pushes[n]) /\ Tail(pushes[n])[i - 1] = pushes[n][i]))
    BY <1>1, <1>2, FirstAndRest, Zenon
  <2>. QED  BY <1>1, <2>1, Zenon
<1>4. 1 \in DOMAIN pushes[n]
  BY <1>1, <1>2
<1>. HIDE DEF m
<1>5. Current(n)' = Current(n)
  BY <1>1 DEF Current
<1>6. ASSUME NEW i \in DOMAIN pushes[n], Refreshes(pushes[n][i], n, Current(n)),
             \A j \in DOMAIN pushes[n] : j > i => Keeps(pushes[n][j], Current(n))
      PROVE  OnCourse(n)'
  <2>1. CASE i = 1
    <3>1. dyn'[n] = Current(n)
      BY <1>1, <1>3, <1>6, <2>1, Zenon DEF Refreshes, Rebuilt
    <3>2. ASSUME NEW j \in DOMAIN pushes'[n] PROVE Keeps(pushes'[n][j], Current(n))
      <4>1. j + 1 > 1 /\ j + 1 \in DOMAIN pushes[n] /\ pushes'[n][j] = pushes[n][j + 1]
        BY <1>3
      <4>. QED  BY <1>6, <2>1, <4>1, Zenon
    <3>. QED  BY <1>5, <3>1, <3>2, Zenon DEF OnCourse
  <2>2. CASE i # 1
    <3>1. i - 1 \in DOMAIN pushes'[n] /\ Refreshes(pushes'[n][i - 1], n, Current(n))
      BY <1>3, <1>6, <2>2, Zenon
    <3>2. ASSUME NEW j \in DOMAIN pushes'[n], j > i - 1 PROVE Keeps(pushes'[n][j], Current(n))
      <4>1. j + 1 > i /\ j + 1 \in DOMAIN pushes[n] /\ pushes'[n][j] = pushes[n][j + 1]
        BY <1>3, <3>2
      <4>. QED  BY <1>6, <4>1, Zenon
    <3>. QED  BY <1>5, <3>1, <3>2, Zenon DEF OnCourse
  <2>. QED  BY <2>1, <2>2
<1>7. ASSUME dyn[n] = Current(n), \A j \in DOMAIN pushes[n] : Keeps(pushes[n][j], Current(n))
      PROVE  OnCourse(n)'
  <2>1. Keeps(m, Current(n))
    BY <1>3, <1>4, <1>7, Zenon
  <2>2. dyn'[n] = Current(n)
    BY <1>1, <1>7, <2>1, Zenon DEF Keeps, Rebuilt
  <2>3. \A j \in DOMAIN pushes'[n] : Keeps(pushes'[n][j], Current(n))
    BY <1>3, <1>7, Zenon
  <2>. QED  BY <1>5, <2>2, <2>3 DEF OnCourse
<1>8. OnCourse(n) => OnCourse(n)'
  BY <1>6, <1>7, Zenon DEF OnCourse
<1>. QED  BY <1>1, <1>8 DEF Cursor

\* Every step keeps the account of cursors, pushes in flight and consumed routes.
LEMMA CursorStep == TypeOK /\ Unregistered /\ LeaseKept /\ CursorInv /\ [Next]_vars => CursorInv'
<1>. SUFFICES ASSUME TypeOK, Unregistered, LeaseKept, CursorInv, [Next]_vars, Steady'
              PROVE  (\A k \in map'.entries : k[2] \in members') /\ \A m \in Nodes : Cursor(m)'
  BY Zenon DEF CursorInv
<1>. USE DEF nodeVars, wireVars, coordVars, budgets
<1>1. env' = env /\ Steady
  BY EnvFixed DEF Steady
<1>2. (\A k \in map.entries : k[2] \in members) /\ \A m \in Nodes : Cursor(m)
  BY <1>1, Zenon DEF CursorInv
<1>3. "lease" \notin env.faults /\ "link" \notin env.faults /\ "restart" \notin env.faults
  BY <1>1 DEF Steady
<1>4. map.version \in Nat /\ MapOK(map, now) /\ now \in Nat
  BY Zenon DEF TypeOK, MapOK
<1>. DEFINE Goal == (\A k \in map'.entries : k[2] \in members') /\ \A m \in Nodes : Cursor(m)'
<1>5. ASSUME UNCHANGED <<pushes, dyn, pushed, map, members>>,
             \A m \in Nodes : link'[m] = link[m] \/ pushed[m] = -1
      PROVE  Goal
  <2>1. ASSUME NEW m \in Nodes PROVE Cursor(m)'
    BY <1>2, <1>5, CursorUntouched, Zenon
  <2>. QED  BY <1>2, <1>5, <2>1
<1>6. ASSUME NEW n \in Nodes, BgpEvent(n) PROVE Goal
  <2>1. UNCHANGED <<pushes, dyn, pushed, map, members, link>>
    BY <1>6 DEF BgpEvent, Learned, RouteWithdrawn, SessionDown
  <2>. QED  BY <1>5, <2>1
<1>7. ASSUME NEW n \in Nodes, Flush(n) PROVE Goal
  <2>1. UNCHANGED <<pushes, dyn, pushed, map, members, link>>
    BY <1>7, Zenon DEF Flush, Sent
  <2>. QED  BY <1>5, <2>1
<1>8. ASSUME NEW n \in Nodes, Connect(n) PROVE Goal
  <2>1. UNCHANGED <<pushes, dyn, pushed, map, members>> /\ link[n] = "down"
        /\ \A m \in Nodes \ {n} : link'[m] = link[m]
    BY <1>8 DEF Connect, TypeOK
  <2>2. pushed[n] = -1
    BY <1>2, <2>1 DEF Cursor
  <2>. QED  BY <1>5, <2>1, <2>2, Zenon
<1>9. ASSUME NEW n \in Nodes, Register(n) PROVE Goal
  <2>1. Lapsed(n) = {}
    BY <1>3, NoLapse
  <2>2. /\ Beat(n) /\ pushed' = Forgotten(n) /\ link[n] = "joining" /\ UNCHANGED <<dyn, members>>
        /\ \A m \in Nodes \ {n} : link'[m] = link[m] /\ pushes'[m] = pushes[m]
    BY <1>9 DEF Register, TypeOK
  <2>3. map'.entries = map.entries /\ map'.version = map.version
    <3>1. map'.entries = {k \in map.entries : k[2] \notin Lapsed(n)} /\ map'.version = map.version
      BY <2>1, <2>2, BeatType, Zenon
    <3>. QED  BY <2>1, <3>1
  <2>4. \A m \in Nodes : pushed'[m] = pushed[m]
    BY <2>1, <2>2 DEF Forgotten
  <2>5. pushed[n] = -1
    BY <1>2, <2>2, Zenon DEF Cursor
  <2>6. ASSUME NEW m \in Nodes PROVE Cursor(m)'
    <3>1. CASE m = n
      BY <1>4, <2>3, <2>4, <2>5, <3>1 DEF Cursor
    <3>2. CASE m # n
      BY <1>2, <2>2, <2>3, <2>4, <3>2, CursorUntouched
    <3>. QED  BY <3>1, <3>2
  <2>. QED  BY <1>2, <2>2, <2>3, <2>6
<1>10. ASSUME NEW n \in Nodes, RouteSync(n) PROVE Goal
  <2>1. CASE link[n] = "up"
    <3>1. ASSUME NEW m \in Nodes PROVE Cursor(m)'
      BY <1>2, <1>10, <2>1, CursorSync
    <3>2. members' = members /\ syncs[n] # <<>> /\ map' = apply_route_sync(n, Head(syncs[n]))
      BY <1>10, <2>1 DEF RouteSync
    <3>3. \A k \in map'.entries : k[2] \in members
      <4>1. CASE n \in members
        <5>. DEFINE sync == Head(syncs[n])
                    A == map'
        <5>1. syncs[n] \in Seq(SyncMessage)
          BY DEF TypeOK
        <5>2. sync \in SyncMessage /\ A = apply_sync(map, n, sync, now)
          <6>1. sync \in SyncMessage
            BY <3>2, <5>1
          <6>2. A = apply_sync(map, n, sync, now)
            BY <3>2, <4>1, Zenon DEF apply_route_sync
          <6>. QED  BY <6>1, <6>2
        <5>. HIDE DEF sync, A
        <5>3. \A k \in A.entries : k \in map.entries \/ (k[2] = n /\ k[1] \in sync.announced)
          BY <1>4, <5>2, SyncApplied
        <5>. QED  BY <1>2, <4>1, <5>3 DEF A
      <4>2. CASE n \notin members
        BY <1>2, <3>2, <4>2 DEF apply_route_sync
      <4>. QED  BY <4>1, <4>2
    <3>. QED  BY <3>1, <3>2, <3>3
  <2>2. CASE link[n] # "up"
    <3>1. Cut({n}) /\ UNCHANGED <<dyn, pushed, map, members>>
      BY <1>10, <2>2 DEF RouteSync
    <3>2. pushes[n] = <<>> /\ pushed[n] = -1
      BY <1>2, <2>2 DEF Unregistered, Cursor
    <3>3. \A m \in Nodes : pushes'[m] = pushes[m] /\ (link'[m] = link[m] \/ pushed[m] = -1)
      BY <3>1, <3>2 DEF Cut
    <3>4. ASSUME NEW m \in Nodes PROVE Cursor(m)'
      BY <1>2, <3>1, <3>3, CursorUntouched
    <3>. QED  BY <1>2, <3>1, <3>4
  <2>. QED  BY <2>1, <2>2
<1>11. ASSUME NEW n \in Nodes, Heartbeat(n) PROVE Goal
  <2>1. ASSUME NEW m \in Nodes PROVE map'.entries = map.entries /\ Cursor(m)'
    BY <1>1, <1>2, <1>11, CursorHeartbeat
  <2>2. members' = members
    BY <1>11 DEF Heartbeat
  <2>. QED  BY <1>2, <1>11, <2>1, <2>2
<1>12. ASSUME NEW n \in Nodes, Deliver(n) PROVE Goal
  <2>1. /\ UNCHANGED <<pushed, map, members, link>>
        /\ \A m \in Nodes \ {n} : pushes'[m] = pushes[m] /\ dyn'[m] = dyn[m]
    BY <1>12 DEF Deliver, TypeOK
  <2>2. ASSUME NEW m \in Nodes PROVE Cursor(m)'
    <3>1. CASE m = n
      BY <1>2, <1>12, <3>1, CursorDeliver
    <3>2. CASE m # n
      BY <1>2, <2>1, <3>2, CursorUntouched, Zenon
    <3>. QED  BY <3>1, <3>2
  <2>. QED  BY <1>2, <2>1, <2>2
<1>13. ASSUME NEW n \in Nodes, Watchdog(n) PROVE Goal
  BY <1>3, <1>13, NoLapse, Zenon DEF Watchdog
<1>14. ASSUME NEW n \in Nodes, LinkLost(n) \/ NodeRestart(n) PROVE Goal
  BY <1>3, <1>14, Zenon DEF LinkLost, NodeRestart, Upset
<1>15. ASSUME NEW n \in Nodes, Revoke(n) PROVE Goal
  <2>1. /\ map' = withdraw_nodes(map, {n}) /\ members' = members \ {n}
        /\ \A m \in Nodes : pushed'[m] = -1
    BY <1>15 DEF Revoke
  <2>2. MapOK(map', now) /\ map'.entries = {k \in map.entries : k[2] \notin {n}}
    <3>1. {n} \in SUBSET Nodes
      OBVIOUS
    <3>. QED  BY <1>4, <2>1, <3>1, NodesWithdrawn
  <2>3. map'.version \in Nat
    BY <2>2 DEF MapOK
  <2>4. \A k \in map'.entries : k[2] \in members'
    BY <1>2, <2>1, <2>2, Zenon
  <2>5. ASSUME NEW m \in Nodes PROVE Cursor(m)'
    BY <2>1, <2>3 DEF Cursor
  <2>. QED  BY <2>4, <2>5
<1>16. ASSUME CoordinatorRestart PROVE Goal
  <2>1. map'.entries = {} /\ map'.version = 0 /\ \A m \in Nodes : pushed'[m] = -1
    BY <1>16 DEF CoordinatorRestart, EmptyMap
  <2>. QED  BY <2>1 DEF Cursor
<1>17. ASSUME Tick \/ UNCHANGED vars PROVE Goal
  BY <1>5, <1>17 DEF Tick, vars
<1>. QED
  BY <1>6, <1>7, <1>8, <1>9, <1>10, <1>11, <1>12, <1>13, <1>14, <1>15, <1>16, <1>17, Zenon DEF Next

\* With nothing on the wire, what makes the current routes is what the node has.
LEMMA CursorImplies == TypeOK /\ CursorInv => CursorHonest
<1>. SUFFICES ASSUME TypeOK, CursorInv, Steady, NEW n \in members, pushed[n] = map.version, pushes[n] = <<>>
              PROVE  dyn[n] = {k \in map.entries : k[2] # n}
  BY DEF CursorHonest, Steady
<1>1. OnCourse(n)
  BY Zenon DEF CursorInv, Cursor, TypeOK
<1>2. DOMAIN pushes[n] = {}
  OBVIOUS
<1>3. dyn[n] = Current(n)
  BY <1>1, <1>2, Zenon DEF OnCourse
<1>. QED  BY <1>3 DEF Current

-----------------------------------------------------------------------------
(* The theorems.                                                           *)

\* The conjunction is inductive.
LEMMA InvStep == Inv /\ [Next]_vars => Inv'
<1>. SUFFICES ASSUME Inv, [Next]_vars PROVE Inv'
  OBVIOUS
<1>1. TypeOK'
  BY TypeStep DEF Inv
<1>2. Unregistered' /\ LeaseKept'
  BY <1>1, LeaseStep DEF Inv
<1>3. PhantomInv' /\ CursorInv'
  BY PhantomStep, CursorStep DEF Inv
<1>. QED  BY <1>1, <1>2, <1>3 DEF Inv

\* The conjunction is an invariant of the route reports.
LEMMA Invariance == Spec => []Inv
<1>1. Init => Inv
  BY InitType, InitLease, InitPhantom, InitCursor DEF Inv
<1>. QED  BY <1>1, InvStep, PTL DEF Spec

\* While heartbeats are answered within a unit of time the coordinator declares no node
\* offline and no node gives up its control session, whatever else breaks (liveness.rs,
\* sweep; the lease watchdog of pump_timers).
THEOREM NobodyLapses ==
    Spec => []("lease" \notin env.faults =>
                   offline = {} /\ \A n \in Nodes : link[n] # "down" => ~Expired(n))
<1>1. Inv => ("lease" \notin env.faults =>
                  offline = {} /\ \A n \in Nodes : link[n] # "down" => ~Expired(n))
  BY NoLapse DEF Inv, LeaseKept
<1>. QED  BY <1>1, Invariance, PTL

\* In the calm the coordinator has no route over a node that none of the node's BGP peers
\* announces any more, once the node's reports have arrived (route_report.rs, flush and
\* session_down; route_map.rs, apply_sync), for any number of nodes, peers and prefixes.
THEOREM NoPhantomRoutes == Spec => []NoPhantom
<1>1. Inv => NoPhantom
  BY PhantomImplies DEF Inv
<1>. QED  BY <1>1, Invariance, PTL

\* While only the coordinator restarts and nodes are revoked, a node whose push cursor
\* stands at the version of the route map has the current routes once the answers on the
\* wire have arrived (take_route_map_push, apply_netmap, the RouteMap event).
THEOREM CursorsAreHonest == Spec => []CursorHonest
<1>1. Inv => CursorHonest
  BY CursorImplies DEF Inv
<1>. QED  BY <1>1, Invariance, PTL

=============================================================================
