-------------------------------- MODULE Session --------------------------------
(***************************************************************************)
(* One direction of an established session between two nodes: the counter  *)
(* and key chain of the sender, the key chain, replay window and residual   *)
(* old key of the receiver.  Each end rekeys on a timer of its own, started *)
(* with its process.  The network loses, reorders and duplicates frames.   *)
(*                                                                         *)
(* A frame carries the epoch (position in the rekey chain) of its key and   *)
(* its sequence number; num, its place in the stream, tells frames apart    *)
(* whose sequence number wrapped.                                          *)
(***************************************************************************)
EXTENDS ReplayWindow

CONSTANTS
    SeqModulus,   \* 2^32 in the code
    MaxFrames,    \* bound on frames sent
    MaxEpoch      \* bound on rekeys of one end

ASSUME StreamAssumption ==
    SeqModulus \in Nat \ {0} /\ MaxFrames \in Nat /\ MaxEpoch \in Nat

VARIABLES
    txEpoch,      \* Session.keys.tx_key of the sender
    txCounter,    \* Session.tx_counter of the sender
    rxEpoch,      \* Session.keys.rx_key of the receiver
    rxWindow,     \* Session.rx_window of the receiver
    oldRx,        \* Session.old_rx: {} or one [epoch, window, expired]
    nsent,        \* number of frames sent
    sent,         \* frames sent; any of them may arrive, at any time, repeatedly
    got           \* frames handed to the receiver

vars == <<txEpoch, txCounter, rxEpoch, rxWindow, oldRx, nsent, sent, got>>

Frames == [num : Nat, epoch : Nat, seq : Nat]

\* Faulty variant of NextSeq: the counter sticks near its largest value.
NextSeqSaturates(c) == IF c + 2 >= SeqModulus THEN c ELSE c + 1

\* next_seq: a 32-bit counter that wraps.
NextSeq(c) == IF c + 1 = SeqModulus THEN 0 ELSE c + 1

\* build_typed_frame.
Send ==
    /\ nsent < MaxFrames
    /\ nsent' = nsent + 1
    /\ sent' = sent \cup {[num |-> nsent, epoch |-> txEpoch, seq |-> txCounter]}
    /\ txCounter' = NextSeq(txCounter)
    /\ UNCHANGED <<txEpoch, rxEpoch, rxWindow, oldRx, got>>

\* The timer of the sender's node: the key moves on, the counter does not.
RekeySender ==
    /\ txEpoch < MaxEpoch
    /\ txEpoch' = txEpoch + 1
    /\ UNCHANGED <<txCounter, rxEpoch, rxWindow, oldRx, nsent, sent, got>>

\* Faulty variant of Residue: the old key starts with an empty window.
ResidueForgets == [epoch |-> rxEpoch, window |-> NewWindow, expired |-> FALSE]

\* The old key keeps the window it was used with.
Residue == [epoch |-> rxEpoch, window |-> rxWindow, expired |-> FALSE]

\* The timer of the receiver's node (rekey).
RekeyReceiver ==
    /\ rxEpoch < MaxEpoch
    /\ rxEpoch' = rxEpoch + 1
    /\ oldRx' = {Residue}
    /\ rxWindow' = NewWindow
    /\ UNCHANGED <<txEpoch, txCounter, nsent, sent, got>>

\* REKEY_RESIDUE passes.
ResidueEnds ==
    /\ \E o \in oldRx : ~o.expired
    /\ oldRx' = {[epoch |-> o.epoch, window |-> o.window, expired |-> TRUE] : o \in oldRx}
    /\ UNCHANGED <<txEpoch, txCounter, rxEpoch, rxWindow, nsent, sent, got>>

\* Would open() hand the frame up?
OpensNew(f) == f.epoch = rxEpoch /\ Accepts(rxWindow, f.seq)
OpensOld(f) ==
    \E o \in oldRx : /\ f.epoch # rxEpoch /\ ~o.expired
                     /\ f.epoch = o.epoch /\ Accepts(o.window, f.seq)
Opens(f) == OpensNew(f) \/ OpensOld(f)

\* open / open_in_place: the current key first, then the old one, which is
\* discarded when it is found expired.
Receive(f) ==
    /\ f \in sent
    /\ \/ /\ OpensNew(f)
          /\ rxWindow' = Marked(rxWindow, f.seq)
          /\ UNCHANGED oldRx
       \/ /\ OpensOld(f)
          /\ oldRx' = {[epoch |-> o.epoch, window |-> Marked(o.window, f.seq),
                        expired |-> o.expired] : o \in oldRx}
          /\ UNCHANGED rxWindow
       \/ /\ ~Opens(f)
          /\ oldRx' = IF f.epoch = rxEpoch THEN oldRx ELSE {o \in oldRx : ~o.expired}
          /\ UNCHANGED rxWindow
    /\ got' = IF Opens(f) THEN got \cup {f} ELSE got
    /\ UNCHANGED <<txEpoch, txCounter, rxEpoch, nsent, sent>>

Init ==
    /\ txEpoch = 0 /\ txCounter = 0 /\ rxEpoch = 0
    /\ rxWindow = NewWindow
    /\ oldRx = {} /\ nsent = 0 /\ sent = {} /\ got = {}

Next ==
    \/ Send
    \/ \E f \in sent : Receive(f)
    \/ RekeySender \/ RekeyReceiver \/ ResidueEnds

Spec == Init /\ [][Next]_vars
-----------------------------------------------------------------------------
(* Properties                                                              *)

\* Every variable keeps its type, and the old key is the previous one.
TypeOK ==
    /\ txEpoch \in Nat /\ rxEpoch \in Nat /\ txCounter \in 0..SeqModulus - 1
    /\ rxWindow \in Windows
    /\ oldRx \subseteq [epoch : {rxEpoch - 1}, window : Windows, expired : BOOLEAN]
    /\ \A o, q \in oldRx : o = q
    /\ nsent \in Nat /\ sent \subseteq Frames /\ got \subseteq sent

\* A frame that was handed up is not opened again (frame-header.md: the window
\* keeps replayed frames out).
NoReplay == \A f \in got : ~Opens(f)

\* What check_and_mark does keep out: a frame that was handed up is opened again
\* only while it is inside a window that moved after it, for a later frame g less
\* than a window ahead.  A frame that is the newest of its key, one that the
\* window left behind and one of a discarded key stay out; and no rekey lets a
\* frame in again, neither through the new window nor through that of the old key.
ReplaysConfined ==
    \A f \in got : Opens(f) =>
        \E g \in got : /\ g.epoch = f.epoch /\ g.seq >= WindowSize
                       /\ g.seq - WindowSize < f.seq /\ f.seq < g.seq

\* Two frames of a key have the same sequence number (the AEAD nonce) only if the
\* counter went through its whole range between them.
NonceRepeatsLate ==
    \A f, g \in sent :
        f.epoch = g.epoch /\ f.seq = g.seq /\ f.num < g.num => g.num - f.num >= SeqModulus

\* The receiver holds the key of f: the current one, or the old one within its
\* residual time.
HasKey(f) == f.epoch = rxEpoch \/ \E o \in oldRx : ~o.expired /\ f.epoch = o.epoch

\* The counter did not wrap between f and g.
SameTurn(f, g) == f.num - g.num = f.seq - g.seq

\* A frame that arrives for the first time, less than a window behind the newest
\* one received under its key, is opened, provided that the counter did not wrap
\* between it and a frame received under its key: after a wrap the window refuses
\* everything until the next rekey.
FreshOpens ==
    \A f \in sent \ got :
        /\ HasKey(f)
        /\ \A g \in got : g.epoch = f.epoch => f.num > g.num - WindowSize /\ SameTurn(f, g)
        => Opens(f)
=============================================================================
