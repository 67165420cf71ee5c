------------------------------ MODULE Dn42Session ------------------------------
(***************************************************************************)
(* One BGP peer of the dn42 leg: run_peer, the rounds of session_round,    *)
(* the protocol machine BgpFsm, the import policy with its prefix limit,   *)
(* the RIB, and the routes that the runtime holds for the peer.            *)
(*                                                                         *)
(* The peer is any BGP speaker behind a TCP connection that may end        *)
(* cleanly, break or go silent.  A poll handles every byte that has        *)
(* arrived, so several messages may be handled before the code that        *)
(* follows the read loop runs.                                             *)
(*                                                                         *)
(* Abstractions.  A prefix is a number, admitted or not by the stateless   *)
(* checks of the policy.  Each round has its own RIB with one peer, so     *)
(* best-path selection is trivial and an entry is a member of a set.  The  *)
(* event channel is a FIFO with one reader: an event is applied at once.   *)
(* The WireGuard tunnel below is part of what may break.                   *)
(***************************************************************************)
EXTENDS Integers, Sequences, FiniteSets

CONSTANTS
    Prefixes,       \* numbers, in the order of an UPDATE
    Admitted,       \* those ImportPolicy::admit accepts
    MaxPrefixes,    \* BgpSessionConfig.max_prefixes
    OwnHold,        \* is our hold time positive?
    Environments,   \* what the peer may do, see Environment
    Messages,       \* messages the peer may send
    MaxMessages     \* bound on their number

\* hold of an OPEN: "none" (zero), "short" (1 or 2 s) or "long"
\* acceptable: the expected AS, a BGP identifier and the three capabilities
Message ==
    [type : {"OPEN"}, acceptable : BOOLEAN, hold : {"none", "short", "long"}]
    \cup [type : {"UPDATE"}, announced : SUBSET Prefixes, withdrawn : SUBSET Prefixes]
    \cup [type : {"KEEPALIVE", "NOTIFICATION", "REFRESH", "garbage"}]

\* batch: how many messages may arrive between two polls
\* udp: may the UDP socket of the tunnel report an error?
Environment == [batch : Nat, udp : BOOLEAN]

ASSUME SessionConstants ==
    /\ IsFiniteSet(Prefixes) /\ Prefixes \subseteq Nat
    /\ Admitted \subseteq Prefixes
    /\ MaxPrefixes \in Nat /\ OwnHold \in BOOLEAN
    /\ Environments \subseteq Environment
    /\ MaxMessages \in Nat /\ Messages \subseteq Message

VARIABLES
    env,        \* the environment of this behaviour, fixed
    tcp,        \* the socket: "closed", "open" or "half" (the peer sent FIN)
    inbox,      \* messages that arrived since the last poll
    fsm,        \* BgpFsm.state
    hold,       \* BgpFsm.negotiated_hold > 0
    rib,        \* LocRib: prefixes with a path of the peer
    accepted,   \* ImportPolicy.accepted
    jammed,     \* FrameReader.buf starts with bytes that do not parse
    open_sent, was_established,
    out,        \* bgp_out: types of the messages queued
    routes,     \* RouteEngine: Dn42 routes of the peer
    established,\* Dn42PeerLeg.established
    greeted,    \* history: the peer's OPEN was accepted on the present connection
    silent,     \* the peer will never be heard of again
    budget

socketVars == <<tcp, inbox, silent, budget>>
fsmVars == <<fsm, hold>>
roundVars == <<rib, accepted, jammed, open_sent, was_established, out>>
runtimeVars == <<routes, established>>
vars == <<env, socketVars, fsmVars, roundVars, runtimeVars, greeted>>

\* The driver never calls start(): Connect does not occur.

\* The locals of session_round.
FreshRound ==
    /\ tcp' = "closed" /\ inbox' = <<>>
    /\ fsm' = "Idle" /\ hold' = OwnHold
    /\ rib' = {} /\ accepted' = 0 /\ jammed' = FALSE
    /\ open_sent' = FALSE /\ was_established' = FALSE
    /\ out' = {} /\ greeted' = FALSE

Init ==
    /\ env \in Environments
    /\ tcp = "closed" /\ inbox = <<>>
    /\ fsm = "Idle" /\ hold = OwnHold
    /\ rib = {} /\ accepted = 0 /\ jammed = FALSE
    /\ open_sent = FALSE /\ was_established = FALSE
    /\ out = {}
    /\ routes = {} /\ established = FALSE
    /\ greeted = FALSE /\ silent = FALSE /\ budget = MaxMessages

-----------------------------------------------------------------------------
(* The protocol machine, on a record of what a message changes.            *)

Here ==
    [fsm |-> fsm, hold |-> hold, rib |-> rib, accepted |-> accepted, out |-> out,
     routes |-> routes, greeted |-> greeted, cut |-> FALSE]

\* A NOTIFICATION is queued, the state is Idle, and the action Close follows.
Fail(S) == [S EXCEPT !.fsm = "Idle", !.out = @ \cup {"NOTIFICATION"}, !.cut = TRUE]

\* Faulty variant of on_tcp_established: a new connection continues the old session.
continue_on_tcp_established(S) ==
    IF S.fsm = "Idle"
    THEN [S EXCEPT !.fsm = "OpenSent", !.hold = OwnHold, !.out = @ \cup {"OPEN"}]
    ELSE S

\* In any state but Idle this is an error; the Close that it asks for is not obeyed.
on_tcp_established(S) ==
    IF S.fsm = "Idle"
    THEN [S EXCEPT !.fsm = "OpenSent", !.hold = OwnHold, !.out = @ \cup {"OPEN"}]
    ELSE [Fail(S) EXCEPT !.cut = FALSE]

on_open(S, m) ==
    IF S.fsm # "OpenSent" \/ m.hold = "short" \/ ~m.acceptable THEN Fail(S)
    ELSE [S EXCEPT !.fsm = "OpenConfirm", !.hold = OwnHold /\ m.hold # "none",
                   !.out = @ \cup {"KEEPALIVE"}, !.greeted = TRUE]

on_keepalive(S) ==
    CASE S.fsm = "OpenConfirm" -> [S EXCEPT !.fsm = "Established"]
      [] S.fsm = "Established" -> S
      [] OTHER -> Fail(S)

\* Those of some new admitted routes that note_accepted has room for.
Room(S, fresh) ==
    {p \in fresh : S.accepted + Cardinality({q \in fresh : q < p}) < MaxPrefixes}

\* Faulty variant of apply: withdrawals are not passed on.
apply_keeps_routes(S, m) ==
    LET fresh == (m.announced \cap Admitted) \ S.rib
        room == Room(S, fresh)
        gone == IF room # fresh THEN {} ELSE m.withdrawn \cap (S.rib \cup room)
    IN [S EXCEPT !.rib = (@ \cup room) \ gone,
                 !.accepted = @ + Cardinality(room) - Cardinality(gone),
                 !.routes = @ \cup room,
                 !.fsm = IF room # fresh THEN "Idle" ELSE @,
                 !.out = IF room # fresh THEN @ \cup {"NOTIFICATION"} ELSE @]

\* LocRib::apply and the Changes it leads to.  Announcements come first, in order, up to
\* the limit; the first one too many ends the UPDATE, its withdrawals included, and the
\* session.
apply(S, m) ==
    LET fresh == (m.announced \cap Admitted) \ S.rib
        room == Room(S, fresh)
        gone == IF room # fresh THEN {} ELSE m.withdrawn \cap (S.rib \cup room)
    IN [S EXCEPT !.rib = (@ \cup room) \ gone,
                 !.accepted = @ + Cardinality(room) - Cardinality(gone),
                 !.routes = (@ \cup room) \ gone,
                 !.fsm = IF room # fresh THEN "Idle" ELSE @,
                 !.out = IF room # fresh THEN @ \cup {"NOTIFICATION"} ELSE @]

\* The RIB sees an UPDATE before the machine does; a session that exceeded the limit
\* is Idle when the machine sees it.
on_update(S, m) ==
    LET A == IF S.fsm = "Established" THEN apply(S, m) ELSE S IN
    IF A.fsm = "Established" THEN A ELSE Fail(A)

on_message(S, m) ==
    CASE m.type = "OPEN" -> on_open(S, m)
      [] m.type = "KEEPALIVE" -> on_keepalive(S)
      [] m.type = "UPDATE" -> on_update(S, m)
      [] m.type = "NOTIFICATION" -> [S EXCEPT !.fsm = "Idle", !.cut = TRUE]
      [] m.type = "REFRESH" ->
            IF S.fsm = "Established" THEN [S EXCEPT !.out = @ \cup {"UPDATE"}] ELSE Fail(S)

Unreadable ==
    /\ inbox # <<>>
    /\ jammed \/ \E i \in DOMAIN inbox : inbox[i].type = "garbage"

\* The read loop: every message is handled, also those behind one that closed the
\* connection.  Bytes that do not parse discard the batch and close it.  They stay in
\* the reader, so that nothing parses in this round any more.  The result is the set of
\* outcomes, a singleton.
ReadAll(S) ==
    LET R[i \in 0..Len(inbox)] ==
            IF i = 0 THEN {S} ELSE {on_message(T, inbox[i]) : T \in R[i - 1]}
    IN
    IF Unreadable THEN {[S EXCEPT !.cut = TRUE]} ELSE R[Len(inbox)]

-----------------------------------------------------------------------------
(* The driver. *)

\* purge_peer, its Changes, SessionDown (remove_dn42_peer), and the next round.
SessionEnds ==
    /\ routes' = {} /\ established' = FALSE
    /\ FreshRound

\* The fast tick with an open socket: the machine learns of the connection, reads, writes
\* what is queued unless the socket was aborted, reports a new session, or ends one.
PollOpen ==
    /\ tcp = "open"
    /\ \E S \in ReadAll(IF open_sent THEN Here ELSE on_tcp_established(Here)) :
        LET up == S.fsm = "Established" /\ ~was_established IN
        IF S.fsm = "Idle" /\ was_established
        THEN SessionEnds
        ELSE /\ tcp' = (IF S.cut THEN "closed" ELSE "open") /\ inbox' = <<>>
             /\ fsm' = S.fsm /\ hold' = S.hold /\ rib' = S.rib /\ accepted' = S.accepted
             /\ jammed' = (jammed \/ Unreadable) /\ open_sent' = TRUE /\ was_established' = (was_established \/ up)
             /\ out' = (IF S.cut THEN S.out ELSE {}) \cup (IF up THEN {"UPDATE"} ELSE {})
             /\ routes' = S.routes /\ established' = (established \/ up)
             /\ greeted' = (S.greeted /\ ~S.cut)
    /\ UNCHANGED <<env, silent, budget>>

\* The fast tick with a closed socket dials or listens again.
PollClosed ==
    /\ tcp = "closed" /\ open_sent
    /\ open_sent' = FALSE
    /\ UNCHANGED <<env, socketVars, fsmVars, rib, accepted, jammed, was_established, out,
                   runtimeVars, greeted>>

\* An error of the UDP socket returns from the round: no purge_peer, no SessionDown.
UdpFails ==
    /\ env.udp
    /\ FreshRound
    /\ UNCHANGED <<env, silent, budget, runtimeVars>>

\* The slow tick, 90 s into a round without a session.
GiveUp ==
    /\ ~was_established
    /\ FreshRound
    /\ UNCHANGED <<env, silent, budget, runtimeVars>>

Keepalive ==
    /\ fsm = "Established" /\ hold
    /\ out' = out \cup {"KEEPALIVE"}
    /\ UNCHANGED <<env, socketVars, fsmVars, rib, accepted, jammed, open_sent, was_established,
                   runtimeVars, greeted>>

\* Faulty variant of HoldExpires: only an open connection is watched.
HoldExpiresOpen ==
    /\ fsm = "Established" /\ hold /\ was_established
    /\ tcp = "open" /\ inbox = <<>>
    /\ SessionEnds
    /\ UNCHANGED <<env, silent, budget>>

\* on_hold_timer: nothing was read for the negotiated time.
HoldExpires ==
    /\ fsm = "Established" /\ hold /\ was_established
    /\ tcp = "open" => inbox = <<>>
    /\ SessionEnds
    /\ UNCHANGED <<env, silent, budget>>

-----------------------------------------------------------------------------
(* The peer and the connection: dialled or accepted, closed by the peer (FIN), reset. *)

TcpOpens ==
    /\ tcp = "closed" /\ ~open_sent /\ ~silent
    /\ tcp' = "open"
    /\ UNCHANGED <<env, inbox, silent, budget, fsmVars, roundVars, runtimeVars, greeted>>

Arrives(m) ==
    /\ tcp = "open" /\ ~silent /\ Len(inbox) < env.batch /\ budget > 0
    /\ inbox' = Append(inbox, m) /\ budget' = budget - 1
    /\ UNCHANGED <<env, tcp, silent, fsmVars, roundVars, runtimeVars, greeted>>

PeerCloses ==
    /\ tcp = "open" /\ ~silent
    /\ tcp' = "half"
    /\ UNCHANGED <<env, inbox, silent, budget, fsmVars, roundVars, runtimeVars, greeted>>

\* A message may be cut in the middle: nothing parses behind the fragment.
TcpBreaks ==
    /\ tcp # "closed" /\ ~silent
    /\ tcp' = "closed" /\ inbox' = <<>> /\ greeted' = FALSE
    /\ jammed' \in {jammed, TRUE}
    /\ UNCHANGED <<env, silent, budget, fsmVars, rib, accepted, open_sent, was_established, out,
                   runtimeVars>>

GoesSilent ==
    /\ ~silent /\ silent' = TRUE
    /\ UNCHANGED <<env, tcp, inbox, budget, fsmVars, roundVars, runtimeVars, greeted>>

Next ==
    \/ PollOpen \/ PollClosed \/ GiveUp \/ UdpFails \/ Keepalive \/ HoldExpires
    \/ TcpOpens \/ PeerCloses \/ TcpBreaks \/ GoesSilent
    \/ \E m \in Messages : Arrives(m)

Spec == Init /\ [][Next]_vars

\* Both ticks of a round keep firing; time passes.
Fairness == WF_vars(PollOpen) /\ WF_vars(PollClosed) /\ WF_vars(HoldExpires) /\ WF_vars(GiveUp)
FairSpec == Spec /\ Fairness

-----------------------------------------------------------------------------
(* Properties *)

\* Messages come one at a time and the UDP socket reports no error.
Calm == env.batch = 1 /\ ~env.udp

\* The runtime routes over the peer what the RIB of the round holds, and in a calm
\* environment nothing else, only while a session is established, and thinks of the leg
\* as established exactly then (Changes events, purge_peer, SessionDown).  The counter the
\* prefix limit is tested against is the size of the RIB, also after repeated and refused
\* announcements and an overflow in the middle of an UPDATE (note_accepted,
\* note_withdrawn).
RoutesAreRib ==
    /\ rib \subseteq routes /\ accepted = Cardinality(rib)
    /\ Calm => /\ routes = rib
               /\ routes # {} => fsm = "Established"
               /\ established <=> fsm = "Established"

\* A session belongs to one TCP connection: on an open connection that the machine knows
\* of, it is past OpenSent only if the peer's OPEN was accepted on that very connection,
\* although nobody tells the machine that a connection ended.
SessionPerConnection ==
    tcp = "open" /\ open_sent /\ fsm \in {"OpenConfirm", "Established"} => greeted

\* The routes of a peer that was never heard of again are withdrawn, if a hold time was
\* negotiated and the UDP socket reports no error, whatever the connection looks like.
SilentPeerWithdrawn == ~env.udp /\ silent /\ hold /\ was_established ~> routes = {}
=============================================================================
