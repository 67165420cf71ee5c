---------------------------- MODULE SessionProofs ----------------------------
(***************************************************************************)
(* What holds of one direction of a session for every window size, modulus *)
(* and number of rekeys.                                                   *)
(***************************************************************************)
EXTENDS Session, TLAPS

-----------------------------------------------------------------------------
(* The replay window                                                       *)

\* A window stays a window when check_and_mark moves it for an accepted number.
LEMMA MarkedType ==
    ASSUME NEW w \in Windows, NEW s \in Nat, Accepts(w, s)
    PROVE  Marked(w, s) \in Windows
  <1> DEFINE a == Advanced(w, s)
  <1>1. a \in Windows /\ s - a.base \in 0..WindowSize - 1
    BY WindowAssumption DEF Advanced, Windows, Accepts
  <1> QED  BY <1>1 DEF Marked, Windows

\* A number that check_and_mark just accepted is refused when it comes again.
LEMMA MarkedRefuses ==
    ASSUME NEW w \in Windows, NEW s \in Nat, Accepts(w, s)
    PROVE  ~Accepts(Marked(w, s), s)
  <1> DEFINE a == Advanced(w, s)
  <1>1. /\ a \in Windows /\ s - a.base \in 0..WindowSize - 1
        /\ a.base <= s /\ s < a.base + WindowSize
    BY WindowAssumption DEF Advanced, Windows, Accepts
  <1>2. /\ Marked(w, s).base = a.base
        /\ s - a.base \in Marked(w, s).bits
    BY <1>1 DEF Marked, Windows
  <1>3. Advanced(Marked(w, s), s) = Marked(w, s)
    BY <1>1, <1>2, WindowAssumption DEF Advanced, Windows
  <1> QED  BY <1>2, <1>3 DEF Accepts
-----------------------------------------------------------------------------
(* Types                                                                   *)

\* The initial state has its types.
LEMMA InitType == Init => TypeOK
  BY StreamAssumption, WindowAssumption
     DEF Init, TypeOK, NewWindow, Windows, Frames

\* Every step keeps the types.
LEMMA TypeStep == TypeOK /\ [Next]_vars => TypeOK'
  <1> SUFFICES ASSUME TypeOK, [Next]_vars PROVE TypeOK'
    OBVIOUS
  <1>0. NewWindow \in Windows
    BY WindowAssumption DEF NewWindow, Windows
  <1>1. CASE Send
    BY <1>1, StreamAssumption DEF Send, TypeOK, NextSeq, Frames
  <1>2. CASE RekeySender
    BY <1>2 DEF RekeySender, TypeOK
  <1>3. CASE RekeyReceiver
    BY <1>0, <1>3 DEF RekeyReceiver, TypeOK, Residue
  <1>4. CASE ResidueEnds
    <2>1. PICK p \in oldRx : oldRx = {p}
      <3>1. PICK p \in oldRx : TRUE
        BY <1>4 DEF ResidueEnds
      <3> QED  BY <3>1 DEF TypeOK
    <2>2. oldRx' = {[epoch |-> p.epoch, window |-> p.window, expired |-> TRUE]}
      BY <1>4, <2>1 DEF ResidueEnds
    <2>3. /\ oldRx' \subseteq [epoch : {rxEpoch - 1}, window : Windows, expired : BOOLEAN]
          /\ \A o, q \in oldRx' : o = q
      BY <2>2 DEF TypeOK
    <2> QED  BY <1>4, <2>3 DEF ResidueEnds, TypeOK
  <1>5. ASSUME NEW f \in sent, Receive(f) PROVE TypeOK'
    <2>0. f \in Frames /\ f.seq \in Nat
      BY DEF TypeOK, Frames
    <2>1. rxWindow' \in Windows
      BY <1>5, <2>0, MarkedType DEF Receive, TypeOK, OpensNew
    <2>2. /\ oldRx' \subseteq [epoch : {rxEpoch - 1}, window : Windows, expired : BOOLEAN]
          /\ \A o, q \in oldRx' : o = q
      <3>1. CASE OpensOld(f) /\ ~OpensNew(f)
        <4>1. PICK q \in oldRx : Accepts(q.window, f.seq)
          BY <3>1 DEF OpensOld
        <4>2. q.window \in Windows /\ oldRx = {q}
          BY <4>1 DEF TypeOK
        <4>3. Marked(q.window, f.seq) \in Windows
          BY <2>0, <4>1, <4>2, MarkedType
        <4>4. oldRx' = {[epoch |-> q.epoch, window |-> Marked(q.window, f.seq),
                         expired |-> q.expired]}
          BY <1>5, <3>1, <4>2 DEF Receive, Opens
        <4> QED  BY <4>1, <4>3, <4>4 DEF TypeOK
      <3>2. CASE ~OpensOld(f)
        <4>1. oldRx' \subseteq oldRx
          BY <1>5, <3>2 DEF Receive, Opens
        <4> QED  BY <4>1 DEF TypeOK
      <3> QED  BY <3>1, <3>2 DEF OpensOld, OpensNew
    <2>3. got' \subseteq sent'
      BY <1>5 DEF Receive, TypeOK
    <2> QED  BY <1>5, <2>1, <2>2, <2>3 DEF Receive, TypeOK
  <1>6. CASE UNCHANGED vars
    BY <1>6 DEF vars, TypeOK
  <1> QED  BY <1>1, <1>2, <1>3, <1>4, <1>5, <1>6 DEF Next

\* Every variable of a session keeps its type, and the only residual key is the
\* previous one of the chain.
THEOREM TypeCorrect == Spec => []TypeOK
  BY InitType, TypeStep, PTL DEF Spec
-----------------------------------------------------------------------------
(* The counter                                                             *)

\* The counter is as far ahead of a frame as there were frames since, or went
\* round: at least Ahead(f) frames were sent from f on.
Ahead(c, f) == IF c > f.seq THEN c - f.seq ELSE SeqModulus + c - f.seq

Numbered ==
    /\ \A f \in sent : f.seq < SeqModulus /\ f.num < nsent /\ nsent - f.num >= Ahead(txCounter, f)
    /\ \A f, g \in sent : f.num = g.num => f = g

\* Every step keeps that.
LEMMA NumberedStep ==
    ASSUME TypeOK, Numbered, [Next]_vars PROVE Numbered'
  <1>1. CASE Send
    <2> DEFINE h == [num |-> nsent, epoch |-> txEpoch, seq |-> txCounter]
    <2>1. /\ nsent \in Nat /\ nsent' = nsent + 1 /\ sent' = sent \cup {h}
          /\ txCounter \in 0..SeqModulus - 1 /\ SeqModulus \in Nat
          /\ txCounter' = IF txCounter + 1 = SeqModulus THEN 0 ELSE txCounter + 1
      BY <1>1, StreamAssumption DEF Send, TypeOK, NextSeq
    <2>2. \A f \in sent : f.num \in Nat /\ f.seq \in Nat
      BY DEF TypeOK, Frames
    <2>3. ASSUME NEW f \in sent
          PROVE  f.seq < SeqModulus /\ f.num < nsent' /\ nsent' - f.num >= Ahead(txCounter', f)
      BY <2>1, <2>2 DEF Numbered, Ahead
    <2>4. h.seq < SeqModulus /\ h.num < nsent' /\ nsent' - h.num >= Ahead(txCounter', h)
      BY <2>1 DEF Ahead
    <2>5. \A f, g \in sent' : f.num = g.num => f = g
      BY <2>1, <2>2 DEF Numbered
    <2>6. \A f \in sent' : f.seq < SeqModulus /\ f.num < nsent' /\ nsent' - f.num >= Ahead(txCounter', f)
      BY <2>1, <2>3, <2>4
    <2> QED  BY <2>5, <2>6 DEF Numbered, Ahead
  <1>2. CASE UNCHANGED <<nsent, sent, txCounter>>
    BY <1>2 DEF Numbered, Ahead
  <1> QED
    BY <1>1, <1>2 DEF Next, vars, RekeySender, RekeyReceiver, ResidueEnds, Receive

\* Numbers repeat only a whole range apart.
LEMMA RepeatStep ==
    ASSUME TypeOK, Numbered, NonceRepeatsLate, [Next]_vars PROVE NonceRepeatsLate'
  <1>1. CASE Send
    <2> DEFINE h == [num |-> nsent, epoch |-> txEpoch, seq |-> txCounter]
    <2>1. nsent \in Nat /\ sent' = sent \cup {h} /\ txCounter \in Nat /\ SeqModulus \in Nat
      BY <1>1, StreamAssumption DEF Send, TypeOK
    <2>2. \A f \in sent : f.num \in Nat /\ f.seq \in Nat /\ f.num < nsent
      BY DEF TypeOK, Frames, Numbered
    <2>3. \A f \in sent : f.seq = txCounter => nsent - f.num >= SeqModulus
      BY <2>1, <2>2 DEF Numbered, Ahead
    <2> QED  BY <2>1, <2>2, <2>3 DEF NonceRepeatsLate
  <1>2. CASE UNCHANGED sent
    BY <1>2 DEF NonceRepeatsLate
  <1> QED
    BY <1>1, <1>2 DEF Next, vars, RekeySender, RekeyReceiver, ResidueEnds, Receive
-----------------------------------------------------------------------------
(* What a window remembers                                                 *)

\* A window w of epoch e: its base was put there by a received frame, and so
\* was every bit.
Founded(w, e, G) ==
    /\ w.base = 0 \/ \E g \in G : g.epoch = e /\ w.base = g.seq - WindowSize + 1
    /\ \A s \in w.bits : \E g \in G : g.epoch = e /\ g.seq = w.base + s

AllFounded ==
    Founded(rxWindow, rxEpoch, got) /\ \A o \in oldRx : Founded(o.window, o.epoch, got)

\* Accepting a frame keeps its window founded.
LEMMA MarkedFounded ==
    ASSUME TypeOK, NEW w \in Windows, NEW e, Founded(w, e, got), NEW f \in sent,
           f.epoch = e, Accepts(w, f.seq)
    PROVE  Founded(Marked(w, f.seq), e, got \cup {f})
  <1> DEFINE a == Advanced(w, f.seq)
             m == Marked(w, f.seq)
  <1>0. f.seq \in Nat
    BY DEF TypeOK, Frames
  <1>1. a \in Windows /\ m.base = a.base /\ m.bits = a.bits \cup {f.seq - a.base}
    BY <1>0, WindowAssumption DEF Advanced, Windows, Accepts, Marked
  <1>2. m.base = 0 \/ \E g \in got \cup {f} : g.epoch = e /\ m.base = g.seq - WindowSize + 1
    BY <1>1 DEF Advanced, Founded
  <1>3. ASSUME NEW s \in m.bits
        PROVE  \E g \in got \cup {f} : g.epoch = e /\ g.seq = m.base + s
    <2>1. CASE s = f.seq - a.base
      BY <1>0, <1>1, <2>1 DEF Windows
    <2>2. CASE s \in a.bits
      BY <1>1, <2>2 DEF Advanced, Founded
    <2> QED  BY <1>1, <1>3, <2>1, <2>2
  <1> QED  BY <1>2, <1>3 DEF Founded

\* Every step keeps the windows founded.
LEMMA FoundedStep ==
    ASSUME TypeOK, AllFounded, [Next]_vars PROVE AllFounded'
  <1>1. CASE UNCHANGED <<rxWindow, rxEpoch, oldRx, got>>
    BY <1>1 DEF AllFounded, Founded
  <1>2. CASE RekeyReceiver
    BY <1>2 DEF RekeyReceiver, AllFounded, Founded, Residue, NewWindow
  <1>3. CASE ResidueEnds
    <2>1. \A o \in oldRx' : \E q \in oldRx : o.window = q.window /\ o.epoch = q.epoch
      BY <1>3 DEF ResidueEnds, TypeOK
    <2> QED  BY <1>3, <2>1 DEF ResidueEnds, AllFounded, Founded
  <1>4. ASSUME NEW f \in sent, Receive(f) PROVE AllFounded'
    <2>1. CASE OpensNew(f)
      <3>1. rxWindow' = Marked(rxWindow, f.seq) /\ oldRx' = oldRx /\ got' = got \cup {f}
            /\ rxEpoch' = rxEpoch
        BY <1>4, <2>1 DEF Receive, OpensOld, OpensNew, Opens
      <3>2. Founded(Marked(rxWindow, f.seq), rxEpoch, got \cup {f})
        BY <2>1, <3>1, MarkedFounded DEF TypeOK, AllFounded, OpensNew
      <3> QED  BY <3>1, <3>2 DEF AllFounded, Founded
    <2>2. CASE OpensOld(f)
      <3>1. PICK q \in oldRx : f.epoch = q.epoch /\ Accepts(q.window, f.seq)
        BY <2>2 DEF OpensOld
      <3>2. oldRx = {q} /\ q.window \in Windows
        BY <3>1 DEF TypeOK
      <3>3. /\ oldRx' = {[epoch |-> q.epoch, window |-> Marked(q.window, f.seq),
                         expired |-> q.expired]}
             /\ rxWindow' = rxWindow
            /\ got' = got \cup {f} /\ rxEpoch' = rxEpoch
        BY <1>4, <2>2, <3>2 DEF Receive, OpensOld, OpensNew, Opens
      <3>4. Founded(Marked(q.window, f.seq), q.epoch, got \cup {f})
        BY <3>1, <3>2, <3>3, MarkedFounded DEF AllFounded
      <3>5. \A o \in oldRx' : o.window = Marked(q.window, f.seq) /\ o.epoch = q.epoch
        BY <3>2, <3>3 DEF TypeOK
      <3> QED  BY <3>3, <3>4, <3>5 DEF AllFounded, Founded
    <2>3. CASE ~Opens(f)
      <3>1. rxWindow' = rxWindow /\ oldRx' \subseteq oldRx /\ got' = got /\ rxEpoch' = rxEpoch
        BY <1>4, <2>3 DEF Receive, Opens
      <3> QED  BY <3>1 DEF AllFounded, Founded
    <2> QED  BY <2>1, <2>2, <2>3 DEF Opens
  <1> QED
    BY <1>1, <1>2, <1>3, <1>4 DEF Next, vars, Send, RekeySender
-----------------------------------------------------------------------------
(* Freshness                                                               *)

\* A frame that arrives less than a window behind the newest one of its key, in
\* the same turn of the counter, finds its window below it and its bit clear.
LEMMA FreshFromWindow ==
    ASSUME TypeOK, Numbered, AllFounded PROVE FreshOpens
  <1> SUFFICES ASSUME NEW f \in sent \ got, HasKey(f),
                      \A g \in got : g.epoch = f.epoch =>
                          f.num > g.num - WindowSize /\ SameTurn(f, g)
               PROVE  Opens(f)
    BY DEF FreshOpens
  <1>0. /\ f.seq \in Nat /\ f.num \in Nat
        /\ \A g \in got : g \in sent /\ g.seq \in Nat /\ g.num \in Nat /\ g.num # f.num
    BY DEF TypeOK, Frames, Numbered
  <1>1. /\ f.seq \in Nat
        /\ \A g \in got : /\ g.seq \in Nat
                          /\ g.epoch = f.epoch => g.seq # f.seq /\ f.seq > g.seq - WindowSize
    BY <1>0, WindowAssumption DEF SameTurn
  <1>2. ASSUME NEW w \in Windows, Founded(w, f.epoch, got) PROVE Accepts(w, f.seq)
    <2>1. f.seq >= w.base
      BY <1>1, <1>2, WindowAssumption DEF Founded, Windows
    <2>2. CASE f.seq >= w.base + WindowSize
      BY <2>1, <2>2 DEF Accepts, Advanced
    <2>3. CASE ~(f.seq >= w.base + WindowSize)
      <3>1. f.seq - w.base \notin w.bits
        BY <1>1, <1>2 DEF Founded, Windows
      <3> QED  BY <2>1, <2>3, <3>1 DEF Accepts, Advanced
    <2> QED  BY <2>2, <2>3
  <1>3. CASE f.epoch = rxEpoch
    BY <1>2, <1>3 DEF TypeOK, AllFounded, Opens, OpensNew
  <1>4. CASE f.epoch # rxEpoch
    <2>1. PICK o \in oldRx : ~o.expired /\ f.epoch = o.epoch
      BY <1>4 DEF HasKey
    <2>2. o.window \in Windows /\ Founded(o.window, f.epoch, got)
      BY <2>1 DEF TypeOK, AllFounded
    <2> QED  BY <1>2, <1>4, <2>1, <2>2 DEF Opens, OpensOld
  <1> QED  BY <1>3, <1>4
-----------------------------------------------------------------------------
(* Replays                                                                 *)

\* The window w has seen every frame of epoch e that was handed up: none is
\* beyond it, and one that is inside it has its bit set or is older than the
\* frame for which the window moved last.
Seen(w, e, G) ==
    \A g \in G : g.epoch = e =>
        /\ g.seq < w.base + WindowSize
        /\ \/ g.seq < w.base
           \/ g.seq - w.base \in w.bits
           \/ w.base > 0 /\ g.seq < w.base + WindowSize - 1

AllSeen ==
    /\ Seen(rxWindow, rxEpoch, got)
    /\ \A o \in oldRx : Seen(o.window, o.epoch, got)
    /\ \A g \in got : g.epoch <= rxEpoch

\* An accepted frame is seen, and the others stay seen though the bitmap is
\* cleared when the window moves.
LEMMA MarkedSeen ==
    ASSUME NEW w \in Windows, NEW e, NEW G, Seen(w, e, G), \A g \in G : g.seq \in Nat,
           NEW f, f.seq \in Nat, Accepts(w, f.seq)
    PROVE  Seen(Marked(w, f.seq), e, G \cup {f})
  <1> DEFINE m == Marked(w, f.seq)
  <1> SUFFICES ASSUME NEW g \in G \cup {f}, g.epoch = e
               PROVE  /\ g.seq < m.base + WindowSize
                      /\ \/ g.seq < m.base
                         \/ g.seq - m.base \in m.bits
                         \/ m.base > 0 /\ g.seq < m.base + WindowSize - 1
    BY DEF Seen
  <1>0. g.seq \in Nat /\ w.base \in Nat
    BY DEF Windows
  <1>1. CASE f.seq >= w.base + WindowSize
    <2>1. m.base = f.seq - WindowSize + 1 /\ m.bits = {WindowSize - 1}
      BY <1>1, WindowAssumption DEF Marked, Advanced, Windows
    <2>2. g \in G => g.seq < m.base + WindowSize - 1
      BY <1>0, <1>1, <2>1, WindowAssumption DEF Seen
    <2>3. m.base > 0 /\ f.seq - m.base = WindowSize - 1
      BY <1>1, <2>1, WindowAssumption DEF Windows
    <2>4. m.base \in Nat
      BY <1>1, <2>1, <1>0, WindowAssumption DEF Windows
    <2> HIDE DEF m
    <2> QED  BY <1>0, <2>1, <2>2, <2>3, <2>4, WindowAssumption
  <1>2. CASE f.seq < w.base + WindowSize
    <2>1. m.base = w.base /\ m.bits = w.bits \cup {f.seq - w.base}
      BY <1>2, WindowAssumption DEF Marked, Advanced, Windows
    <2> HIDE DEF m
    <2> QED  BY <1>0, <1>2, <2>1 DEF Seen
  <1> QED  BY <1>1, <1>2, WindowAssumption DEF Windows

\* Every step keeps that.
LEMMA SeenStep ==
    ASSUME TypeOK, AllSeen, [Next]_vars PROVE AllSeen'
  <1>0. /\ \A f \in sent : f.seq \in Nat /\ f.epoch \in Nat
        /\ \A f \in got : f.seq \in Nat
    BY DEF TypeOK, Frames
  <1>1. CASE UNCHANGED <<rxWindow, rxEpoch, oldRx, got>>
    BY <1>1 DEF AllSeen, Seen
  <1>2. CASE RekeyReceiver
    <2>1. \A g \in got : g.epoch \in Nat /\ g.epoch <= rxEpoch
      BY <1>0 DEF TypeOK, AllSeen
    <2>2. rxEpoch \in Nat /\ rxEpoch' = rxEpoch + 1 /\ got' = got /\ rxWindow' = NewWindow
      BY <1>2 DEF RekeyReceiver, TypeOK
    <2>3. Seen(NewWindow, rxEpoch + 1, got)
      BY <2>1, <2>2 DEF Seen, NewWindow
    <2>4. \A o \in oldRx' : o.window = rxWindow /\ o.epoch = rxEpoch
      BY <1>2 DEF RekeyReceiver, Residue
    <2> QED  BY <2>1, <2>2, <2>3, <2>4 DEF AllSeen
  <1>3. CASE ResidueEnds
    <2>1. \A o \in oldRx' : \E q \in oldRx : o.window = q.window /\ o.epoch = q.epoch
      BY <1>3 DEF ResidueEnds, TypeOK
    <2> QED  BY <1>3, <2>1 DEF ResidueEnds, AllSeen, Seen
  <1>4. ASSUME NEW f \in sent, Receive(f) PROVE AllSeen'
    <2>1. CASE OpensNew(f)
      <3>1. rxWindow' = Marked(rxWindow, f.seq) /\ oldRx' = oldRx /\ got' = got \cup {f}
            /\ rxEpoch' = rxEpoch /\ f.epoch = rxEpoch
        BY <1>4, <2>1 DEF Receive, OpensOld, OpensNew, Opens
      <3>2. Seen(Marked(rxWindow, f.seq), rxEpoch, got \cup {f})
        BY <1>0, <2>1, MarkedSeen DEF TypeOK, AllSeen, OpensNew
      <3>3. \A o \in oldRx : Seen(o.window, o.epoch, got \cup {f})
        BY <3>1 DEF TypeOK, AllSeen, Seen
      <3>4. \A g \in got \cup {f} : g.epoch <= rxEpoch
        BY <3>1 DEF TypeOK, AllSeen
      <3> QED  BY <3>1, <3>2, <3>3, <3>4 DEF AllSeen
    <2>2. CASE OpensOld(f)
      <3>1. PICK q \in oldRx : /\ f.epoch = q.epoch /\ f.epoch # rxEpoch
                               /\ Accepts(q.window, f.seq)
        BY <2>2 DEF OpensOld
      <3>2. oldRx = {q} /\ q.window \in Windows /\ q.epoch = rxEpoch - 1
        BY <3>1 DEF TypeOK
      <3>3. /\ oldRx' = {[epoch |-> q.epoch, window |-> Marked(q.window, f.seq),
                          expired |-> q.expired]}
            /\ rxWindow' = rxWindow /\ got' = got \cup {f} /\ rxEpoch' = rxEpoch
        BY <1>4, <2>2, <3>2 DEF Receive, OpensOld, OpensNew, Opens
      <3>4. Seen(Marked(q.window, f.seq), q.epoch, got \cup {f})
        BY <1>0, <3>1, <3>2, MarkedSeen DEF AllSeen
      <3>5. Seen(rxWindow, rxEpoch, got \cup {f})
        BY <3>1 DEF AllSeen, Seen
      <3>6. \A g \in got \cup {f} : g.epoch <= rxEpoch
        BY <3>1, <3>2 DEF TypeOK, AllSeen
      <3> QED  BY <3>3, <3>4, <3>5, <3>6 DEF AllSeen
    <2>3. CASE ~Opens(f)
      <3>1. rxWindow' = rxWindow /\ oldRx' \subseteq oldRx /\ got' = got /\ rxEpoch' = rxEpoch
        BY <1>4, <2>3 DEF Receive, Opens
      <3> QED  BY <3>1 DEF AllSeen
    <2> QED  BY <2>1, <2>2, <2>3 DEF Opens
  <1> QED
    BY <1>1, <1>2, <1>3, <1>4 DEF Next, vars, Send, RekeySender
-----------------------------------------------------------------------------
(* Theorems                                                                *)

\* Whatever the rekeys, a key encrypts two frames under one number only if the
\* counter went through its whole range between them (next_seq, rekey): a rekey
\* within every SeqModulus frames is enough, and needed, for numbers used once.
THEOREM NoncesRepeatLate == Spec => []NonceRepeatsLate
  <1>1. Init => Numbered /\ NonceRepeatsLate
    BY DEF Init, Numbered, NonceRepeatsLate
  <1> QED  BY <1>1, NumberedStep, RepeatStep, TypeCorrect, PTL DEF Spec

\* A frame less than a window behind the newest one of its key, in the same turn
\* of the counter, is opened, whatever was lost, reordered or repeated before it
\* and whichever rekeys happened (check_and_mark, open).
THEOREM FreshFramesOpen == Spec => []FreshOpens
  <1>1. Init => Numbered /\ AllFounded
    BY DEF Init, Numbered, AllFounded, Founded, NewWindow
  <1> QED  BY <1>1, NumberedStep, FoundedStep, FreshFromWindow, TypeCorrect, PTL DEF Spec

\* Whatever is repeated, a frame that was handed up is opened again only while it
\* is inside a window that moved after it, for a frame less than a window ahead
\* of it (check_and_mark clears its bitmap then); frames that the window left
\* behind stay out, and rekeys never make a frame acceptable again.
THEOREM ReplaysAreConfined == Spec => []ReplaysConfined
  <1>1. Init => AllFounded /\ AllSeen
    BY DEF Init, AllFounded, Founded, AllSeen, Seen, NewWindow
  <1>2. TypeOK /\ AllFounded /\ AllSeen => ReplaysConfined
    <2> SUFFICES ASSUME TypeOK, AllFounded, AllSeen, NEW f \in got, Opens(f)
                 PROVE  \E g \in got : /\ g.epoch = f.epoch /\ g.seq >= WindowSize
                                       /\ g.seq - WindowSize < f.seq /\ f.seq < g.seq
      BY DEF ReplaysConfined
    <2>1. f.seq \in Nat /\ \A g \in got : g.seq \in Nat
      BY DEF TypeOK, Frames
    <2>2. PICK w \in Windows : /\ Founded(w, f.epoch, got) /\ Seen(w, f.epoch, got)
                               /\ Accepts(w, f.seq)
      <3>1. CASE OpensNew(f)
        BY <3>1 DEF OpensNew, TypeOK, AllFounded, AllSeen
      <3>2. CASE OpensOld(f)
        BY <3>2 DEF OpensOld, TypeOK, AllFounded, AllSeen
      <3> QED  BY <3>1, <3>2 DEF Opens
    <2>3. f.seq < w.base + WindowSize /\ f.seq >= w.base
      BY <2>2 DEF Seen, Accepts
    <2>4. Advanced(w, f.seq) = w
      BY <2>1, <2>3, WindowAssumption DEF Advanced, Windows
    <2>5. w.base > 0 /\ f.seq < w.base + WindowSize - 1
      BY <2>1, <2>2, <2>3, <2>4 DEF Seen, Accepts, Windows
    <2>6. PICK g \in got : g.epoch = f.epoch /\ w.base = g.seq - WindowSize + 1
      BY <2>2, <2>5 DEF Founded, Windows
    <2>7. g.seq = w.base + WindowSize - 1
      BY <2>1, <2>6, WindowAssumption DEF Windows
    <2>8. g.seq >= WindowSize /\ g.seq - WindowSize < f.seq /\ f.seq < g.seq
      BY <2>1, <2>3, <2>5, <2>7, WindowAssumption DEF Windows
    <2> QED  BY <2>6, <2>8
  <1> QED  BY <1>1, <1>2, FoundedStep, SeenStep, TypeCorrect, PTL DEF Spec
=============================================================================
