--------------------------- MODULE MCPeerSessions ---------------------------
(***************************************************************************)
(* Small instances of PeerSessions: two nodes, a handful of handshakes.    *)
(***************************************************************************)
EXTENDS PeerSessions

Two == {1, 2}

\* Two talkers on a network that delivers.
CalmNetwork ==
    [talkers |-> Two, steady |-> Two, broadcasters |-> {}, restarting |-> {},
     duplicates |-> FALSE, prompt |-> FALSE, sendFails |-> FALSE, timers |-> FALSE,
     history |-> TRUE, losses |-> 0, reboots |-> 0, ephs |-> 1..5]

\* Everything goes wrong at once; a message that stays in the network for ever is
\* also a lost one.
Hostile ==
    [talkers |-> Two, steady |-> Two, broadcasters |-> {1}, restarting |-> Two,
     duplicates |-> TRUE, prompt |-> FALSE, sendFails |-> TRUE, timers |-> TRUE,
     history |-> TRUE, losses |-> 0, reboots |-> 1, ephs |-> 1..4]

\* Endless traffic both ways.
BothTalk ==
    [talkers |-> Two, steady |-> Two, broadcasters |-> {}, restarting |-> {},
     duplicates |-> FALSE, prompt |-> TRUE, sendFails |-> FALSE, timers |-> TRUE,
     history |-> FALSE, losses |-> 0, reboots |-> 0, ephs |-> 1..8]

\* Endless traffic to a silent peer that restarts, with a loss.
OneTalks ==
    [talkers |-> {1}, steady |-> {1}, broadcasters |-> {}, restarting |-> {2},
     duplicates |-> FALSE, prompt |-> TRUE, sendFails |-> FALSE, timers |-> TRUE,
     history |-> FALSE, losses |-> 1, reboots |-> 1, ephs |-> 1..8]

PassingEnvironments == {CalmNetwork, Hostile, BothTalk, OneTalks}
=============================================================================
