----------------------------- MODULE ReplayWindow -----------------------------
(***************************************************************************)
(* The replay window of the frame layer (ReplayWindow::check_and_mark): a   *)
(* base and a bitmap of the WindowSize sequence numbers from the base on.  *)
(* The bitmap is the set of the slots whose bit is set.                    *)
(***************************************************************************)
EXTENDS Integers

CONSTANT WindowSize     \* 1024 in the code

ASSUME WindowAssumption == WindowSize \in Nat \ {0}

Windows == [base : Nat, bits : SUBSET (0..WindowSize - 1)]

NewWindow == [base |-> 0, bits |-> {}]

\* Faulty variant of Advanced: the base moves one slot too far.
AdvancedFar(w, seq) ==
    IF seq >= w.base + WindowSize
    THEN [base |-> seq - WindowSize + 2, bits |-> {}]
    ELSE w

\* A number beyond the window moves the base and clears the whole bitmap.
Advanced(w, seq) ==
    IF seq >= w.base + WindowSize
    THEN [base |-> seq - WindowSize + 1, bits |-> {}]
    ELSE w

\* Does check_and_mark accept seq, and what is the window then?
Accepts(w, seq) == seq >= w.base /\ seq - Advanced(w, seq).base \notin Advanced(w, seq).bits

Marked(w, seq) ==
    LET a == Advanced(w, seq) IN [base |-> a.base, bits |-> a.bits \cup {seq - a.base}]
=============================================================================
