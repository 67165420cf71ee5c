--------------------------- MODULE Dn42SessionProofs ---------------------------
(***************************************************************************)
(* Proofs about Dn42Session: the runtime's routes and the prefix counter   *)
(* follow the RIB whatever the peer sends, and a session belongs to one    *)
(* TCP connection.                                                         *)
(***************************************************************************)
EXTENDS Dn42Session, FiniteSetTheorems, TLAPS

-----------------------------------------------------------------------------
(* Induction over data.  The read loop is a function defined by recursion  *)
(* over the messages of a batch.                                           *)

\* A set of naturals that holds 0 and every successor of a member holds all up to N.
LEMMA UpTo ==
    ASSUME NEW N \in Nat, NEW S, 0 \in S, \A i \in 1..N : i - 1 \in S => i \in S
    PROVE  0..N \subseteq S
<1>. DEFINE Less == {x \in Nat \X Nat : x[1] < x[2]}
            Bad == (0..N) \ S
<1>1. IsWellFoundedOn(Less, Nat)
  BY NatLessThanWellFounded DEF OpToRel
<1>2. SUFFICES ASSUME Bad # {} PROVE FALSE
  OBVIOUS
<1>3. PICK m \in Bad : \A k \in Bad : <<k, m>> \notin Less
  <2>1. Bad \subseteq Nat
    OBVIOUS
  <2>. HIDE DEF Less, Bad
  <2>. QED  BY <1>1, <1>2, <2>1, WFMin, Zenon
<1>4. m \in 1..N /\ m - 1 \in Nat
  OBVIOUS
<1>5. m - 1 \in Bad
  BY <1>4
<1>6. <<m - 1, m>> \in Less
  BY <1>4
<1>. QED  BY <1>3, <1>5, <1>6

\* The recursion of the read loop has a solution: the outcomes after each message.
LEMMA ReadLoop ==
    ASSUME NEW S, inbox \in Seq(Messages), ~Unreadable
    PROVE  \E R : /\ R[0] = {S} /\ ReadAll(S) = R[Len(inbox)]
                 /\ \A i \in 1..Len(inbox) : R[i] = {on_message(T, inbox[i]) : T \in R[i - 1]}
<1>. DEFINE N == Len(inbox)
            Step(g, i) == {on_message(T, inbox[i]) : T \in g[i - 1]}
            Solves(g, n) == g = [i \in 0..n |-> IF i = 0 THEN {S} ELSE Step(g, i)]
            Solved == {n \in 0..N : \E g : Solves(g, n)}
<1>. HIDE DEF Step
<1>0. N \in Nat
  OBVIOUS
<1>1. 0 \in Solved
  <2>1. \E g : Solves(g, 0)
    <3>1. Solves([i \in 0..0 |-> {S}], 0)
      OBVIOUS
    <3>2. \A n \in Nat : n <= 1 => n = 0 \/ n = 1
      OBVIOUS
    <3>. QED  BY <3>1, <3>2, Zenon
  <2>. HIDE DEF Solves
  <2>. QED  BY <1>0, <2>1
<1>2. ASSUME NEW n \in 1..N, n - 1 \in Solved PROVE n \in Solved
  <2>1. PICK g : Solves(g, n - 1)
    BY <1>2
  <2>2. \A i \in 0..(n - 1) : g[i] = IF i = 0 THEN {S} ELSE Step(g, i)
    BY <2>1, Zenon
  <2>. DEFINE h == [i \in 0..n |-> IF i = n THEN Step(g, n) ELSE g[i]]
  <2>3. ASSUME NEW i \in 0..n PROVE h[i] = IF i = 0 THEN {S} ELSE Step(h, i)
    <3>1. CASE i = 0
      BY <2>2, <3>1, <1>0
    <3>2. CASE i # 0
      <4>1. h[i - 1] = g[i - 1]
        BY <1>0, <3>2
      <4>2. Step(h, i) = Step(g, i)
        BY <4>1, Zenon DEF Step
      <4>. QED  BY <2>2, <4>2, <3>2, <1>0
    <3>. QED  BY <3>1, <3>2
  <2>4. Solves(h, n)
    <3>. HIDE DEF Step
    <3>. QED  BY <2>3, Zenon
  <2>. QED
    <3>. HIDE DEF h, Solves
    <3>. QED  BY <2>4, <1>0
<1>3. \E g : Solves(g, N)
  <2>. HIDE DEF Solves
  <2>1. 0..N \subseteq Solved
    BY <1>0, <1>1, <1>2, UpTo, Zenon
  <2>. QED  BY <2>1, <1>0
<1>. DEFINE R == CHOOSE g : Solves(g, N)
<1>4. Solves(R, N)
  <2>. HIDE DEF Solves
  <2>. QED  BY <1>3
<1>5. ReadAll(S) = R[N]
  BY DEF ReadAll, Step
<1>6. \A i \in 0..N : R[i] = IF i = 0 THEN {S} ELSE Step(R, i)
  <2>. HIDE DEF R
  <2>. QED  BY <1>4
<1>7. R[0] = {S} /\ \A i \in 1..N : R[i] = Step(R, i)
  <2>. HIDE DEF R
  <2>. QED  BY <1>6, <1>0
<1>. QED
  <2>. HIDE DEF R
  <2>. QED  BY <1>5, <1>7, Zenon DEF Step

-----------------------------------------------------------------------------
(* One message.                                                            *)

Phases == {"Idle", "OpenSent", "OpenConfirm", "Established"}
Sendable == {"OPEN", "KEEPALIVE", "UPDATE", "NOTIFICATION"}
Record ==
    [fsm : Phases, hold : BOOLEAN, rib : SUBSET Admitted, accepted : Nat, out : SUBSET Sendable,
     routes : SUBSET Prefixes, greeted : BOOLEAN, cut : BOOLEAN]

\* What every message keeps: the routes cover the RIB, the counter is its size, and a
\* session has its greeting.
Sound(T) ==
    /\ T \in Record
    /\ T.rib \subseteq T.routes
    /\ T.accepted = Cardinality(T.rib)
    /\ T.fsm \in {"OpenConfirm", "Established"} => T.greeted

\* A failure leaves the machine idle and its record sound.
LEMMA FailSound == ASSUME NEW S, Sound(S) PROVE Sound(Fail(S)) /\ Fail(S).fsm = "Idle"
<1>1. S \in Record
  BY DEF Sound
<1>. QED  BY <1>1, Zenon DEF Sound, Record, Fail, Phases, Sendable

\* An UPDATE changes RIB, counter and routes alike, whether or not the limit cuts it short.
LEMMA ApplySound ==
    ASSUME NEW S, Sound(S), S.fsm = "Established",
           NEW m \in [type : {"UPDATE"}, announced : SUBSET Prefixes, withdrawn : SUBSET Prefixes]
    PROVE  /\ Sound(apply(S, m)) /\ apply(S, m).fsm \in {"Idle", "Established"}
           /\ S.routes = S.rib => apply(S, m).routes = apply(S, m).rib
<1>. DEFINE fresh == (m.announced \cap Admitted) \ S.rib
            room == Room(S, fresh)
            gone == IF room # fresh THEN {} ELSE m.withdrawn \cap (S.rib \cup room)
            rest == (S.rib \cup room) \ gone
            count == S.accepted + Cardinality(room) - Cardinality(gone)
<1>1. S \in Record /\ S.rib \subseteq Admitted /\ S.rib \subseteq S.routes
  BY DEF Sound, Record
<1>2. room \subseteq Admitted /\ room \cap S.rib = {} /\ gone \subseteq S.rib \cup room
  BY DEF Room
<1>3. IsFiniteSet(S.rib) /\ IsFiniteSet(room) /\ IsFiniteSet(gone) /\ IsFiniteSet(S.rib \cup room)
  <2>1. IsFiniteSet(Admitted)
    BY SessionConstants, FS_Subset, Zenon
  <2>2. S.rib \cup room \in SUBSET Admitted
    BY <1>1, <1>2, Zenon
  <2>3. gone \in SUBSET Admitted /\ S.rib \in SUBSET Admitted /\ room \in SUBSET Admitted
    BY <1>1, <1>2
  <2>. HIDE DEF room, gone
  <2>. QED  BY <2>1, <2>2, <2>3, FS_Subset
<1>4. count = Cardinality(rest) /\ count \in Nat
  <2>. HIDE DEF room, gone
  <2>1. Cardinality(S.rib \cup room) = Cardinality(S.rib) + Cardinality(room)
    <3>1. Cardinality(S.rib \cap room) = 0
      BY <1>2, FS_EmptySet
    <3>2. Cardinality(S.rib \cup room) = Cardinality(S.rib) + Cardinality(room) - Cardinality(S.rib \cap room)
      BY <1>3, FS_Union
    <3>3. Cardinality(S.rib) \in Nat /\ Cardinality(room) \in Nat
      BY <1>3, FS_CardinalityType
    <3>. QED  BY <3>1, <3>2, <3>3
  <2>2. Cardinality(rest) = Cardinality(S.rib \cup room) - Cardinality(gone) /\ IsFiniteSet(rest)
    <3>1. (S.rib \cup room) \cap gone = gone
      BY <1>2
    <3>. DEFINE B == S.rib \cup room
    <3>2. IsFiniteSet(B) /\ B \cap gone = gone
      BY <1>3, <3>1
    <3>. HIDE DEF B
    <3>3. IsFiniteSet(B \ gone) /\ Cardinality(B \ gone) = Cardinality(B) - Cardinality(B \cap gone)
      BY <3>2, FS_Difference
    <3>4. Cardinality(B \ gone) = Cardinality(B) - Cardinality(gone)
      BY <3>2, <3>3
    <3>. QED  BY <3>3, <3>4 DEF B
  <2>3. Cardinality(rest) \in Nat
    BY <2>2, FS_CardinalityType
  <2>4. S.accepted = Cardinality(S.rib)
    BY DEF Sound
  <2>5. Cardinality(S.rib) \in Nat /\ Cardinality(room) \in Nat /\ Cardinality(gone) \in Nat
    BY <1>3, FS_CardinalityType
  <2>. HIDE DEF rest
  <2>. QED  BY <2>1, <2>2, <2>3, <2>4, <2>5
<1>. DEFINE phase == IF room # fresh THEN "Idle" ELSE S.fsm
            sent == IF room # fresh THEN S.out \cup {"NOTIFICATION"} ELSE S.out
<1>5. apply(S, m) = [S EXCEPT !.rib = rest, !.accepted = count, !.routes = (S.routes \cup room) \ gone,
                              !.fsm = phase, !.out = sent]
  BY <1>1 DEF apply, Record
<1>a. phase \in {"Idle", "Established"} /\ sent \in SUBSET Sendable
  BY <1>1 DEF Record, Sendable
<1>. HIDE DEF room, gone, count, fresh
<1>6. rest \subseteq Admitted /\ (S.routes \cup room) \ gone \subseteq Prefixes
  BY <1>1, <1>2, SessionConstants, Zenon DEF Record
<1>7. rest \subseteq (S.routes \cup room) \ gone
  BY <1>1
<1>. HIDE DEF rest
<1>. HIDE DEF phase, sent
<1>8. apply(S, m) \in Record
  <2>1. [S EXCEPT !.rib = rest] \in Record
    BY <1>1, <1>6, Zenon DEF Record
  <2>2. [S EXCEPT !.rib = rest, !.accepted = count] \in Record
    BY <1>4, <2>1, Zenon DEF Record
  <2>3. [S EXCEPT !.rib = rest, !.accepted = count, !.routes = (S.routes \cup room) \ gone] \in Record
    BY <1>6, <2>2, Zenon DEF Record
  <2>4. [S EXCEPT !.rib = rest, !.accepted = count, !.routes = (S.routes \cup room) \ gone,
                  !.fsm = phase] \in Record
    BY <1>a, <2>3, Zenon DEF Record, Phases
  <2>. QED  BY <1>5, <1>a, <2>4, Zenon DEF Record
<1>9. /\ apply(S, m).rib = rest /\ apply(S, m).routes = (S.routes \cup room) \ gone
      /\ apply(S, m).accepted = count /\ apply(S, m).greeted = S.greeted
      /\ apply(S, m).fsm = phase
  BY <1>1, <1>5 DEF Record
<1>10. S.greeted
  BY DEF Sound
<1>11. S.routes = S.rib => (S.routes \cup room) \ gone = rest
  BY DEF rest
<1>. QED  BY <1>4, <1>7, <1>8, <1>9, <1>10, <1>11, <1>a DEF Sound

\* Setting the flag that closes the connection changes nothing else.
LEMMA CutSound ==
    ASSUME NEW S, Sound(S), NEW b \in BOOLEAN
    PROVE  LET T == [S EXCEPT !.cut = b] IN Sound(T) /\ T.fsm = S.fsm /\ T.rib = S.rib /\ T.routes = S.routes
<1>. DEFINE T == [S EXCEPT !.cut = b]
<1>1. S \in Record
  BY DEF Sound
<1>2. T \in Record
  BY <1>1, Zenon DEF Record
<1>3. T.fsm = S.fsm /\ T.rib = S.rib /\ T.routes = S.routes /\ T.accepted = S.accepted /\ T.greeted = S.greeted
  BY <1>1, Zenon DEF Record
<1>. HIDE DEF T
<1>4. Sound(T)
  BY <1>2, <1>3 DEF Sound
<1>. QED  BY <1>3, <1>4 DEF T

\* What one message does: it keeps Sound, touches RIB and routes in an established session
\* only and alike, and takes an established session to Idle or nowhere.
Handled(S, T) ==
    /\ Sound(T)
    /\ S.routes = S.rib => T.routes = T.rib
    /\ S.fsm # "Established" => T.rib = S.rib
    /\ S.fsm \in {"Idle", "Established"} => T.fsm \in {"Idle", "Established"}

\* A failure is a handled message: the routes of the session go with it.
LEMMA FailHandled == ASSUME NEW S, Sound(S) PROVE Handled(S, Fail(S))
<1>1. S \in Record
  BY DEF Sound
<1>2. Fail(S).rib = S.rib /\ Fail(S).routes = S.routes
  BY <1>1, Zenon DEF Record, Fail
<1>. QED  BY <1>2, FailSound DEF Handled

\* on_open answers, or fails.
LEMMA OpenHandled ==
    ASSUME NEW S, Sound(S), NEW m \in [type : {"OPEN"}, acceptable : BOOLEAN, hold : {"none", "short", "long"}]
    PROVE  Handled(S, on_open(S, m))
<1>. DEFINE held == OwnHold /\ m.hold # "none"
            sent == S.out \cup {"KEEPALIVE"}
            T == [S EXCEPT !.fsm = "OpenConfirm", !.hold = held, !.out = sent, !.greeted = TRUE]
<1>1. CASE S.fsm # "OpenSent" \/ m.hold = "short" \/ ~m.acceptable
  BY <1>1, FailHandled DEF on_open
<1>2. CASE S.fsm = "OpenSent" /\ ~(m.hold = "short" \/ ~m.acceptable)
  <2>1. S \in Record
    BY DEF Sound
  <2>2. on_open(S, m) = T
    BY <1>2, <2>1, Zenon DEF on_open
  <2>3. held \in BOOLEAN /\ sent \in SUBSET Sendable
    BY <2>1, SessionConstants DEF Record, Sendable
  <2>4. T \in Record
    <3>. HIDE DEF held, sent
    <3>1. [S EXCEPT !.fsm = "OpenConfirm"] \in Record
      BY <2>1, Zenon DEF Record, Phases
    <3>2. [S EXCEPT !.fsm = "OpenConfirm", !.hold = held] \in Record
      BY <3>1, <2>3, Zenon DEF Record
    <3>3. [S EXCEPT !.fsm = "OpenConfirm", !.hold = held, !.out = sent] \in Record
      BY <3>2, <2>3, Zenon DEF Record
    <3>. QED  BY <3>3, Zenon DEF Record
  <2>5. T.fsm = "OpenConfirm" /\ T.greeted = TRUE /\ T.rib = S.rib /\ T.routes = S.routes /\ T.accepted = S.accepted
    BY <2>1, Zenon DEF Record
  <2>. HIDE DEF T
  <2>. QED  BY <1>2, <2>2, <2>4, <2>5 DEF Sound, Handled
<1>. QED  BY <1>1, <1>2

\* on_keepalive establishes a session whose OPEN was answered, or fails.
LEMMA KeepaliveHandled == ASSUME NEW S, Sound(S) PROVE Handled(S, on_keepalive(S))
<1>. DEFINE T == [S EXCEPT !.fsm = "Established"]
<1>1. CASE S.fsm = "OpenConfirm"
  <2>1. S \in Record
    BY DEF Sound
  <2>2. on_keepalive(S) = T
    BY <1>1 DEF on_keepalive
  <2>3. T \in Record
    BY <2>1, Zenon DEF Record, Phases
  <2>4. T.fsm = "Established" /\ T.greeted = S.greeted /\ T.rib = S.rib /\ T.routes = S.routes /\ T.accepted = S.accepted
    BY <2>1, Zenon DEF Record
  <2>. HIDE DEF T
  <2>. QED  BY <1>1, <2>2, <2>3, <2>4 DEF Sound, Handled
<1>2. CASE S.fsm = "Established"
  <2>1. on_keepalive(S) = S
    BY <1>2 DEF on_keepalive
  <2>. QED  BY <1>2, <2>1 DEF Handled
<1>3. CASE S.fsm \notin {"OpenConfirm", "Established"}
  <2>1. on_keepalive(S) = Fail(S)
    BY <1>3, Zenon DEF on_keepalive
  <2>. QED  BY <2>1, FailHandled
<1>. QED  BY <1>1, <1>2, <1>3

\* on_update changes RIB, count and routes together, or fails at the limit.
LEMMA UpdateHandled ==
    ASSUME NEW S, Sound(S),
           NEW m \in [type : {"UPDATE"}, announced : SUBSET Prefixes, withdrawn : SUBSET Prefixes]
    PROVE  Handled(S, on_update(S, m))
<1>1. CASE S.fsm = "Established"
  <2>. DEFINE A == apply(S, m)
  <2>1. /\ Sound(A) /\ A.fsm \in {"Idle", "Established"}
        /\ S.routes = S.rib => A.routes = A.rib
    BY <1>1, ApplySound
  <2>2. on_update(S, m) = IF A.fsm = "Established" THEN A ELSE Fail(A)
    BY <1>1 DEF on_update
  <2>3. A.fsm # "Established" => Handled(A, Fail(A)) /\ Fail(A).fsm = "Idle"
    BY <2>1, FailHandled, FailSound
  <2>. HIDE DEF A
  <2>. QED  BY <1>1, <2>1, <2>2, <2>3 DEF Handled
<1>2. CASE S.fsm # "Established"
  <2>1. on_update(S, m) = Fail(S)
    BY <1>2 DEF on_update
  <2>. QED  BY <2>1, FailHandled
<1>. QED  BY <1>1, <1>2

\* Every message that parses is handled by one of these.
LEMMA MessageHandled ==
    ASSUME NEW S, Sound(S), NEW m \in Message, m.type # "garbage"
    PROVE  Handled(S, on_message(S, m))
<1>1. CASE m.type = "OPEN"
  <2>1. m \in [type : {"OPEN"}, acceptable : BOOLEAN, hold : {"none", "short", "long"}]
    BY <1>1 DEF Message
  <2>2. on_message(S, m) = on_open(S, m)
    BY <1>1 DEF on_message
  <2>. QED  BY <2>1, <2>2, OpenHandled
<1>2. CASE m.type = "KEEPALIVE"
  <2>1. on_message(S, m) = on_keepalive(S)
    BY <1>2 DEF on_message
  <2>. QED  BY <2>1, KeepaliveHandled
<1>3. CASE m.type = "UPDATE"
  <2>1. m \in [type : {"UPDATE"}, announced : SUBSET Prefixes, withdrawn : SUBSET Prefixes]
    BY <1>3 DEF Message
  <2>2. on_message(S, m) = on_update(S, m)
    BY <1>3 DEF on_message
  <2>. QED  BY <2>1, <2>2, UpdateHandled
<1>4. CASE m.type = "NOTIFICATION"
  <2>. DEFINE T == [S EXCEPT !.fsm = "Idle", !.cut = TRUE]
  <2>1. S \in Record
    BY DEF Sound
  <2>2. on_message(S, m) = T
    BY <1>4, Zenon DEF on_message
  <2>3. [S EXCEPT !.fsm = "Idle"] \in Record
    BY <2>1, Zenon DEF Record, Phases
  <2>4. T \in Record
    BY <2>3, Zenon DEF Record
  <2>5. T.fsm = "Idle" /\ T.rib = S.rib /\ T.routes = S.routes /\ T.accepted = S.accepted
    BY <2>1, Zenon DEF Record
  <2>. HIDE DEF T
  <2>. QED  BY <2>2, <2>4, <2>5 DEF Sound, Handled
<1>5. CASE m.type = "REFRESH"
  <2>1. CASE S.fsm = "Established"
    <3>. DEFINE T == [S EXCEPT !.out = @ \cup {"UPDATE"}]
    <3>1. S \in Record /\ S.out \cup {"UPDATE"} \in SUBSET Sendable
      BY DEF Sound, Record, Sendable
    <3>2. on_message(S, m) = T
      BY <1>5, <2>1, Zenon DEF on_message
    <3>3. T \in Record
      BY <3>1, Zenon DEF Record
    <3>4. T.fsm = S.fsm /\ T.rib = S.rib /\ T.routes = S.routes /\ T.accepted = S.accepted /\ T.greeted = S.greeted
      BY <3>1, Zenon DEF Record
    <3>. HIDE DEF T
    <3>. QED  BY <2>1, <3>2, <3>3, <3>4 DEF Sound, Handled
  <2>2. CASE S.fsm # "Established"
    <3>1. on_message(S, m) = Fail(S)
      BY <1>5, <2>2 DEF on_message
    <3>. QED  BY <3>1, FailHandled
  <2>. QED  BY <2>1, <2>2
<1>. QED
  BY <1>1, <1>2, <1>3, <1>4, <1>5 DEF Message

-----------------------------------------------------------------------------
(* A poll.                                                                 *)

\* A readable message is no garbage.
LEMMA Readable ==
    ASSUME inbox \in Seq(Messages), ~Unreadable, NEW i \in 1..Len(inbox)
    PROVE  inbox[i] \in Message /\ inbox[i].type # "garbage"
<1>1. inbox[i] \in Messages /\ i \in DOMAIN inbox /\ inbox # <<>>
  OBVIOUS
<1>. QED  BY <1>1, SessionConstants DEF Unreadable

\* However many messages a poll finds, it keeps Sound.
LEMMA ReadSound ==
    ASSUME NEW S, Sound(S), inbox \in Seq(Messages)
    PROVE  \A T \in ReadAll(S) : Sound(T)
<1>1. CASE Unreadable
  <2>1. ReadAll(S) = {[S EXCEPT !.cut = TRUE]}
    BY <1>1, Zenon DEF ReadAll
  <2>. QED  BY <2>1, CutSound, Zenon
<1>2. CASE ~Unreadable
  <2>1. PICK R : /\ R[0] = {S} /\ ReadAll(S) = R[Len(inbox)]
                 /\ \A i \in 1..Len(inbox) : R[i] = {on_message(T, inbox[i]) : T \in R[i - 1]}
    BY <1>2, ReadLoop, Zenon
  <2>. DEFINE N == Len(inbox)
              Good == {i \in 0..N : \A T \in R[i] : Sound(T)}
  <2>2. N \in Nat
    OBVIOUS
  <2>3. 0 \in Good
    BY <2>1, <2>2
  <2>4. ASSUME NEW i \in 1..N, i - 1 \in Good PROVE i \in Good
    <3>1. ASSUME NEW T \in R[i] PROVE Sound(T)
      <4>1. PICK U \in R[i - 1] : T = on_message(U, inbox[i])
        BY <2>1, Zenon
      <4>2. Sound(U)
        BY <2>4, <4>1
      <4>. QED  BY <1>2, <4>1, <4>2, Readable, MessageHandled DEF Handled
    <3>. QED  BY <3>1, <2>2
  <2>5. 0..N \subseteq Good
    <3>. HIDE DEF Good, N
    <3>. QED  BY <2>2, <2>3, <2>4, UpTo
  <2>. QED  BY <2>1, <2>2, <2>5
<1>. QED  BY <1>1, <1>2

\* With at most one message in the batch, a poll handles that message or nothing.
LEMMA ReadOne ==
    ASSUME NEW S, Sound(S), inbox \in Seq(Messages), Len(inbox) <= 1
    PROVE  \A T \in ReadAll(S) : Handled(S, T)
<1>1. CASE Unreadable
  <2>1. ReadAll(S) = {[S EXCEPT !.cut = TRUE]}
    BY <1>1, Zenon DEF ReadAll
  <2>. QED  BY <2>1, CutSound, Zenon DEF Handled
<1>2. CASE ~Unreadable
  <2>1. PICK R : /\ R[0] = {S} /\ ReadAll(S) = R[Len(inbox)]
                 /\ \A i \in 1..Len(inbox) : R[i] = {on_message(T, inbox[i]) : T \in R[i - 1]}
    BY <1>2, ReadLoop, Zenon
  <2>2. CASE Len(inbox) = 0
    BY <2>1, <2>2 DEF Handled
  <2>3. CASE Len(inbox) = 1
    <3>1. ReadAll(S) = {on_message(T, inbox[1]) : T \in R[0]}
      BY <2>1, <2>3
    <3>2. ReadAll(S) = {on_message(S, inbox[1])}
      BY <2>1, <3>1
    <3>3. inbox[1] \in Message /\ inbox[1].type # "garbage"
      BY <1>2, <2>3, Readable
    <3>. QED  BY <3>2, <3>3, MessageHandled
  <2>4. Len(inbox) = 0 \/ Len(inbox) = 1
    <3>1. Len(inbox) \in Nat /\ Len(inbox) <= 1
      OBVIOUS
    <3>2. \A n \in Nat : n <= 1 => n = 0 \/ n = 1
      OBVIOUS
    <3>. QED  BY <3>1, <3>2, Zenon
  <2>. QED  BY <2>2, <2>3, <2>4
<1>. QED  BY <1>1, <1>2

-----------------------------------------------------------------------------
(* The inductive invariant.                                                *)

TypeOK ==
    /\ env \in Environment /\ tcp \in {"closed", "open", "half"}
    /\ inbox \in Seq(Messages) /\ Len(inbox) <= env.batch
    /\ fsm \in Phases /\ hold \in BOOLEAN /\ rib \subseteq Admitted /\ accepted \in Nat
    /\ open_sent \in BOOLEAN /\ was_established \in BOOLEAN /\ out \subseteq Sendable
    /\ routes \subseteq Prefixes /\ established \in BOOLEAN /\ greeted \in BOOLEAN

\* What is true in a calm environment between two polls.
CalmRound ==
    /\ routes = rib /\ (rib # {} => was_established)
    /\ was_established <=> fsm = "Established"
    /\ established <=> was_established

Inv ==
    /\ TypeOK
    /\ rib \subseteq routes /\ accepted = Cardinality(rib)
    /\ SessionPerConnection
    /\ Calm => CalmRound

\* The inductive invariant contains the two properties.
LEMMA InvImplies == Inv => RoutesAreRib /\ SessionPerConnection
BY DEF Inv, CalmRound, RoutesAreRib

\* A peer starts idle, without routes.
LEMMA InitInv == Init => Inv
<1>. SUFFICES ASSUME Init PROVE Inv
  OBVIOUS
<1>1. env \in Environment /\ inbox \in Seq(Messages) /\ Len(inbox) <= env.batch
  <2>1. env \in Environment /\ inbox = <<>>
    BY SessionConstants DEF Init
  <2>. QED  BY <2>1 DEF Environment
<1>2. TypeOK
  BY <1>1, SessionConstants, Zenon DEF Init, TypeOK, Phases, Sendable
<1>. QED
  BY <1>2, FS_EmptySet DEF Init, Inv, SessionPerConnection, CalmRound

\* A round that starts afresh, with the routes and the flag that the last one left.
LEMMA Fresh ==
    ASSUME Inv, FreshRound, env' = env, routes' \in {routes, {}}, established' \in {established, FALSE},
           Calm => routes' = {} /\ established' = FALSE
    PROVE  Inv'
<1>1. TypeOK'
  <2>1. inbox' \in Seq(Messages) /\ Len(inbox') <= env'.batch /\ env' \in Environment
    <3>1. env' \in Environment /\ inbox' = <<>>
      BY DEF Inv, TypeOK, FreshRound
    <3>. QED  BY <3>1 DEF Environment
  <2>2. routes' \subseteq Prefixes /\ established' \in BOOLEAN
    BY Zenon DEF Inv, TypeOK
  <2>. QED  BY <2>1, <2>2, SessionConstants, Zenon DEF TypeOK, FreshRound, Phases, Sendable
<1>2. rib' = {} /\ accepted' = 0 /\ tcp' = "closed" /\ was_established' = FALSE /\ fsm' = "Idle"
  BY DEF FreshRound
<1>3. Calm' <=> Calm
  BY DEF Calm
<1>. QED
  BY <1>1, <1>2, <1>3, FS_EmptySet DEF Inv, SessionPerConnection, CalmRound

\* A connection is new to the machine: it starts a session from Idle, or drops the old one.
LEMMA TcpEstablished ==
    ASSUME Inv
    PROVE  LET T == on_tcp_established(Here)
           IN  /\ Sound(T) /\ T.rib = rib /\ T.routes = routes
               /\ T.fsm = IF fsm = "Idle" THEN "OpenSent" ELSE "Idle"
<1>. DEFINE T == on_tcp_established(Here)
<1>1. /\ Here \in Record /\ Here.fsm = fsm /\ Here.rib = rib /\ Here.routes = routes
      /\ Here.accepted = accepted /\ rib \subseteq routes /\ accepted = Cardinality(rib)
  BY DEF Inv, TypeOK, Here, Record
<1>2. OwnHold \in BOOLEAN /\ \A x \in Sendable : Here.out \cup {x} \in SUBSET Sendable
  BY <1>1, SessionConstants DEF Record
<1>. HIDE DEF Here
<1>3. CASE fsm = "Idle"
  <2>. DEFINE sent == Here.out \cup {"OPEN"}
  <2>1. T = [Here EXCEPT !.fsm = "OpenSent", !.hold = OwnHold, !.out = sent]
    BY <1>1, <1>3, Zenon DEF on_tcp_established
  <2>2. sent \in SUBSET Sendable
    BY <1>2 DEF Sendable
  <2>. HIDE DEF sent
  <2>3. [Here EXCEPT !.fsm = "OpenSent"] \in Record
    BY <1>1, Zenon DEF Record, Phases
  <2>4. [Here EXCEPT !.fsm = "OpenSent", !.hold = OwnHold] \in Record
    BY <1>2, <2>3, Zenon DEF Record
  <2>5. T \in Record
    BY <2>1, <2>2, <2>4, Zenon DEF Record
  <2>6. T.fsm = "OpenSent" /\ T.rib = Here.rib /\ T.routes = Here.routes /\ T.accepted = Here.accepted
    BY <1>1, <2>1, Zenon DEF Record
  <2>. HIDE DEF T
  <2>7. Sound(T)
    BY <1>1, <2>5, <2>6 DEF Sound
  <2>. QED  BY <1>1, <1>3, <2>6, <2>7 DEF T
<1>4. CASE fsm # "Idle"
  <2>. DEFINE sent == Here.out \cup {"NOTIFICATION"}
  <2>1. T = [Here EXCEPT !.fsm = "Idle", !.out = sent, !.cut = TRUE, !.cut = FALSE]
    BY <1>1, <1>4, Zenon DEF on_tcp_established, Fail
  <2>2. sent \in SUBSET Sendable
    BY <1>2 DEF Sendable
  <2>. HIDE DEF sent
  <2>3. [Here EXCEPT !.fsm = "Idle"] \in Record
    BY <1>1, Zenon DEF Record, Phases
  <2>4. [Here EXCEPT !.fsm = "Idle", !.out = sent] \in Record
    BY <2>2, <2>3, Zenon DEF Record
  <2>5. [Here EXCEPT !.fsm = "Idle", !.out = sent, !.cut = TRUE] \in Record
    BY <2>4, Zenon DEF Record
  <2>6. T \in Record
    BY <2>1, <2>5, Zenon DEF Record
  <2>7. T.fsm = "Idle" /\ T.rib = Here.rib /\ T.routes = Here.routes /\ T.accepted = Here.accepted
    BY <1>1, <2>1, Zenon DEF Record
  <2>. HIDE DEF T
  <2>8. Sound(T)
    BY <1>1, <2>6, <2>7 DEF Sound
  <2>. QED  BY <1>1, <1>4, <2>7, <2>8 DEF T
<1>. QED  BY <1>3, <1>4

\* The fast tick with an open socket keeps the invariant.
LEMMA PollOpenInv == Inv /\ PollOpen => Inv'
<1>. SUFFICES ASSUME Inv, PollOpen PROVE Inv'
  OBVIOUS
<1>. DEFINE S0 == IF open_sent THEN Here ELSE on_tcp_established(Here)
<1>1. /\ Sound(S0) /\ S0.rib = rib /\ S0.routes = routes
      /\ S0.fsm = IF open_sent THEN fsm ELSE IF fsm = "Idle" THEN "OpenSent" ELSE "Idle"
  <2>1. CASE open_sent
    <3>1. Here \in Record /\ Here.fsm = fsm /\ Here.rib = rib /\ Here.routes = routes
      BY DEF Inv, TypeOK, Here, Record
    <3>2. Sound(Here)
      BY <3>1, <2>1 DEF Inv, Here, Sound, SessionPerConnection, PollOpen
    <3>. QED  BY <2>1, <3>1, <3>2
  <2>2. CASE ~open_sent
    BY <2>2, TcpEstablished
  <2>. QED  BY <2>1, <2>2
<1>. HIDE DEF S0
<1>2. PICK T \in ReadAll(S0) :
        LET up == T.fsm = "Established" /\ ~was_established IN
        IF T.fsm = "Idle" /\ was_established
        THEN SessionEnds
        ELSE /\ tcp' = (IF T.cut THEN "closed" ELSE "open") /\ inbox' = <<>>
             /\ fsm' = T.fsm /\ hold' = T.hold /\ rib' = T.rib /\ accepted' = T.accepted
             /\ jammed' = (jammed \/ Unreadable) /\ open_sent' = TRUE /\ was_established' = (was_established \/ up)
             /\ out' = (IF T.cut THEN T.out ELSE {}) \cup (IF up THEN {"UPDATE"} ELSE {})
             /\ routes' = T.routes /\ established' = (established \/ up)
             /\ greeted' = (T.greeted /\ ~T.cut)
  BY Zenon DEF PollOpen, S0
<1>3. env' = env
  BY DEF PollOpen
<1>4. Sound(T) /\ inbox \in Seq(Messages)
  BY <1>1, ReadSound DEF Inv, TypeOK
<1>5. Calm => Handled(S0, T)
  BY <1>1, <1>4, ReadOne DEF Inv, TypeOK, Calm
<1>6. CASE T.fsm = "Idle" /\ was_established
  <2>1. SessionEnds
    BY <1>2, <1>6
  <2>. QED  BY <1>3, <2>1, Fresh, Zenon DEF SessionEnds
<1>7. CASE ~(T.fsm = "Idle" /\ was_established)
  <2>. DEFINE up == T.fsm = "Established" /\ ~was_established
  <2>1. /\ tcp' = (IF T.cut THEN "closed" ELSE "open") /\ inbox' = <<>>
        /\ fsm' = T.fsm /\ hold' = T.hold /\ rib' = T.rib /\ accepted' = T.accepted
        /\ open_sent' = TRUE /\ was_established' = (was_established \/ up)
        /\ out' = (IF T.cut THEN T.out ELSE {}) \cup (IF up THEN {"UPDATE"} ELSE {})
        /\ routes' = T.routes /\ established' = (established \/ up)
        /\ greeted' = (T.greeted /\ ~T.cut)
    BY <1>2, <1>7
  <2>2. TypeOK'
    <3>1. T \in Record
      BY <1>4 DEF Sound
    <3>2. inbox' \in Seq(Messages) /\ Len(inbox') <= env'.batch /\ env' \in Environment
      <4>1. env' \in Environment /\ inbox' = <<>>
        BY <1>3, <2>1 DEF Inv, TypeOK
      <4>. QED  BY <4>1 DEF Environment
    <3>3. fsm' \in Phases /\ hold' \in BOOLEAN /\ rib' \subseteq Admitted /\ accepted' \in Nat /\ routes' \subseteq Prefixes
      BY <2>1, <3>1 DEF Record
    <3>4. out' \subseteq Sendable /\ tcp' \in {"closed", "open", "half"}
      BY <2>1, <3>1 DEF Record, Sendable
    <3>5. open_sent' \in BOOLEAN /\ was_established' \in BOOLEAN /\ established' \in BOOLEAN /\ greeted' \in BOOLEAN
      BY <2>1, Zenon
    <3>. QED  BY <3>2, <3>3, <3>4, <3>5 DEF TypeOK
  <2>3. rib' \subseteq routes' /\ accepted' = Cardinality(rib')
    BY <1>4, <2>1 DEF Sound
  <2>4. SessionPerConnection'
    BY <1>4, <2>1, Zenon DEF Sound, SessionPerConnection
  <2>5. ASSUME Calm PROVE CalmRound'
    <3>1. CalmRound /\ Handled(S0, T)
      BY <1>5, <2>5 DEF Inv
    <3>2. routes' = rib'
      BY <1>1, <2>1, <3>1 DEF Handled, CalmRound
    <3>3. was_established' <=> fsm' = "Established"
      <4>1. was_established => fsm = "Established" /\ S0.fsm \in {"Idle", "Established"}
        BY <1>1, <3>1 DEF CalmRound
      <4>. QED  BY <1>7, <2>1, <3>1, <4>1, Zenon DEF Handled
    <3>4. rib' # {} => was_established'
      <4>1. CASE was_established
        BY <2>1, <4>1, Zenon
      <4>2. CASE ~was_established
        <5>1. fsm # "Established" /\ rib = {} /\ S0.fsm # "Established"
          BY <1>1, <3>1, <4>2 DEF CalmRound
        <5>. QED  BY <1>1, <2>1, <3>1, <5>1 DEF Handled
      <4>. QED  BY <4>1, <4>2
    <3>5. established' <=> was_established'
      BY <2>1, <3>1 DEF CalmRound
    <3>. QED  BY <3>2, <3>3, <3>4, <3>5 DEF CalmRound
  <2>6. Calm' <=> Calm
    BY <1>3 DEF Calm
  <2>. QED  BY <2>2, <2>3, <2>4, <2>5, <2>6 DEF Inv
<1>. QED  BY <1>6, <1>7

\* Every step keeps the invariant.
LEMMA StepInv == Inv /\ [Next]_vars => Inv'
<1>. SUFFICES ASSUME Inv, [Next]_vars PROVE Inv'
  OBVIOUS
<1>1. CASE PollOpen
  BY <1>1, PollOpenInv
<1>2. CASE PollClosed
  BY <1>2, Zenon DEF PollClosed, socketVars, fsmVars, runtimeVars, Inv, TypeOK, SessionPerConnection, Calm, CalmRound
<1>3. CASE GiveUp
  <2>1. FreshRound /\ env' = env /\ routes' = routes /\ established' = established /\ ~was_established
    BY <1>3 DEF GiveUp, runtimeVars
  <2>2. Calm => routes = {} /\ established = FALSE
    BY <2>1 DEF Inv, TypeOK, CalmRound
  <2>. QED  BY <2>1, <2>2, Fresh, Zenon
<1>4. CASE UdpFails
  <2>1. FreshRound /\ env' = env /\ routes' = routes /\ established' = established /\ ~Calm
    BY <1>4 DEF UdpFails, runtimeVars, Calm
  <2>. QED  BY <2>1, Fresh, Zenon
<1>5. CASE Keepalive
  <2>1. TypeOK'
    BY <1>5 DEF Keepalive, socketVars, fsmVars, runtimeVars, Inv, TypeOK, Sendable
  <2>. QED  BY <1>5, <2>1 DEF Keepalive, socketVars, fsmVars, runtimeVars, Inv, SessionPerConnection, Calm, CalmRound
<1>6. CASE HoldExpires
  BY <1>6, Fresh, Zenon DEF HoldExpires, SessionEnds
<1>7. CASE TcpOpens
  BY <1>7 DEF TcpOpens, fsmVars, roundVars, runtimeVars, Inv, TypeOK, SessionPerConnection, Calm, CalmRound
<1>8. CASE PeerCloses
  BY <1>8 DEF PeerCloses, fsmVars, roundVars, runtimeVars, Inv, TypeOK, SessionPerConnection, Calm, CalmRound
<1>9. CASE TcpBreaks
  <2>1. TypeOK'
    <3>1. env' = env /\ inbox' = <<>> /\ env \in Environment
      BY <1>9 DEF TcpBreaks, Inv, TypeOK
    <3>2. inbox' \in Seq(Messages) /\ Len(inbox') <= env'.batch
      BY <3>1 DEF Environment
    <3>. QED  BY <1>9, <3>1, <3>2, Zenon DEF TcpBreaks, fsmVars, runtimeVars, Inv, TypeOK
  <2>. QED  BY <1>9, <2>1 DEF TcpBreaks, fsmVars, runtimeVars, Inv, SessionPerConnection, Calm, CalmRound
<1>10. CASE GoesSilent
  BY <1>10 DEF GoesSilent, fsmVars, roundVars, runtimeVars, Inv, TypeOK, SessionPerConnection, Calm, CalmRound
<1>11. ASSUME NEW m \in Messages, Arrives(m) PROVE Inv'
  <2>1. inbox' \in Seq(Messages) /\ Len(inbox') <= env'.batch
    <3>1. inbox' = Append(inbox, m) /\ inbox \in Seq(Messages) /\ Len(inbox) < env.batch /\ env' = env
      BY <1>11 DEF Arrives, Inv, TypeOK
    <3>2. env.batch \in Nat
      BY DEF Inv, TypeOK, Environment
    <3>. QED  BY <3>1, <3>2
  <2>2. TypeOK'
    BY <1>11, <2>1 DEF Arrives, fsmVars, roundVars, runtimeVars, Inv, TypeOK
  <2>. QED  BY <1>11, <2>2 DEF Arrives, fsmVars, roundVars, runtimeVars, Inv, SessionPerConnection, Calm, CalmRound
<1>12. CASE UNCHANGED vars
  BY <1>12 DEF vars, socketVars, fsmVars, roundVars, runtimeVars, Inv, TypeOK, SessionPerConnection, Calm, CalmRound
<1>. QED
  BY <1>1, <1>2, <1>3, <1>4, <1>5, <1>6, <1>7, <1>8, <1>9, <1>10, <1>11, <1>12 DEF Next

\* The runtime's routes over the peer cover the RIB of the round and the counter of the
\* prefix limit is the size of the RIB; in a calm environment routes, RIB and session agree
\* (LocRib::apply, note_accepted, note_withdrawn, purge_peer, SessionDown).
THEOREM RoutesFollowRib == Spec => []RoutesAreRib
<1>1. Spec => []Inv
  BY InitInv, StepInv, PTL DEF Spec
<1>. QED  BY <1>1, InvImplies, PTL

\* A session past OpenSent belongs to the TCP connection on which the peer's OPEN was
\* accepted, although nobody tells the machine that a connection ended (BgpFsm,
\* on_tcp_established).
THEOREM SessionHasConnection == Spec => []SessionPerConnection
<1>1. Spec => []Inv
  BY InitInv, StepInv, PTL DEF Spec
<1>. QED  BY <1>1, InvImplies, PTL
=============================================================================
