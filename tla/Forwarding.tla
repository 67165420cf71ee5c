----------------------------- MODULE Forwarding -----------------------------
(* The route engine and the paths of IP packets between the legs of a node: LAN (tun), mesh,    *)
(* dn42 and tailnet.  pump_lan_packet takes what the LAN sends, forward_transit what another    *)
(* leg delivers; what neither sends on is written to the tun (write_lan) and is the kernel's.   *)
(*                                                                                              *)
(* One address family of Width bits; the highest address is the multicast group.  A packet is   *)
(* its source and destination; size, ports and the MSS rewriting are left out, and so is the    *)
(* choice of a path inside the mesh (DataPlane): a frame to a node with a session arrives.      *)
(* The tables a node builds are those of the coordinator's netmap (Coordinator), of its route   *)
(* map (RouteReport), of the BGP sessions (Dn42Session) and of the tailnet netmap (Tailnet).    *)
EXTENDS Integers, Sequences, FiniteSets

CONSTANTS
    Width,          \* bits of an address
    Nodes,          \* mesh nodes
    DataEnvironments \* name -> environment, see data

LOCAL INSTANCE Functions

VARIABLES
    place,      \* the name of the environment of this behaviour, fixed
    head,       \* the coordinator's netmap is data.netmaps[head]
    routeMap,   \* the coordinator's route map: pairs <<prefix, node>>
    engine,     \* Node.engine: the entries of the LpmTable, in order
    exits,      \* Node.default_route: mesh_exits, self_exit, tailnet_exits
    acl,        \* Node.acl
    peers,      \* Node.netmap_peers
    fresh,      \* has the node applied the netmap as it is now?
    legs,       \* dn42 peers with established set
    tailPeers,  \* Ts2021Leg.peers: the peer ids
    advertise,  \* Ts2021Leg.advertise
    sessions,   \* pairs of nodes with a mesh session
    written,    \* Node.recent_multicast_writes: the fingerprints
    flight,     \* packets under way, see Packet
    floods,     \* history: how often the multicast packet under way was flooded
    lost,       \* history: a packet that a settled network serves got lost
    flaps       \* changes of BGP sessions so far

tables == <<engine, exits, acl, peers, fresh, legs, tailPeers, advertise>>
journey == <<flight, floods, lost, written>>
dataVars == <<place, head, routeMap, tables, sessions, journey, flaps>>

\* The members of a set in some order; the sequences of a sequence, joined.
InOrder(S) == CHOOSE s \in Injection(1..Cardinality(S), S) : TRUE
Joined(ss) ==
    LET upto[i \in 0..Len(ss)] == IF i = 0 THEN <<>> ELSE upto[i - 1] \o ss[i]
    IN  upto[Len(ss)]

Group == 2^Width - 1
is_multicast(a) == a = Group

\* tun: the prefixes of the tun addresses; owns: the prefixes of the LAN behind a node
\* netmaps: the netmaps the coordinator goes through, [acl, entries] with entries
\*     [node, routes, offline, exit] in order
\* dn42: the BGP peers of a node; serves: the prefixes a BGP peer announces
\* tailnet: its members, in order; tailAddr: the prefix the server assigned to a member;
\* fixed: advertise_routes of a member that is a node, all a host announces; summarize: nodes
\*     with advertise_mesh_routes
\* prefer: default_route_preference; looping: nodes whose kernel has its default route in the tun
\* linked: do all nodes have sessions at the start?
\* sends: packets that hosts may send; flaps: bound on changes of BGP sessions
data == DataEnvironments[place]

Via(leg, to) == [leg |-> leg, to |-> to]
NoVia == Via("none", "none")
Entry(prefix, source, via) == [prefix |-> prefix, source |-> source, via |-> via]

------------------------------------------------------------------------------
(* Prefixes and the table. *)

(* Prefix::new clears the bits behind len *)
new(bits, len) == [bits |-> (bits \div 2^(Width - len)) * 2^(Width - len), len |-> len]
from_ip(a) == new(a, Width)
significant(p) == p.bits \div 2^(Width - p.len)
contains(p, q) == q.len >= p.len /\ significant(q) \div 2^(q.len - p.len) = significant(p)
matches(p, a) == contains(p, from_ip(a))
is_default(p) == p.len = 0

priority == [lan |-> 0, mesh |-> 1, dn42 |-> 2, dyn |-> 3, tailnet |-> 4]

remove_where(t, gone) == SelectSeq(t, LAMBDA e : e \notin gone)

(* lookup sorts, stably, by length and then by the priority of the source *)
Ahead(e, f) ==
    \/ e.prefix.len > f.prefix.len
    \/ e.prefix.len = f.prefix.len /\ priority[e.source] < priority[f.source]

(* lookup_best: the first entry that matches and is reachable, which open is the set of *)
lookup_best(t, a, open) ==
    LET hits == {i \in DOMAIN t : matches(t[i].prefix, a) /\ t[i].via \in open} IN
    IF hits = {} THEN NoVia
    ELSE t[CHOOSE i \in hits : \A j \in hits \ {i} :
             Ahead(t[i], t[j]) \/ (~Ahead(t[j], t[i]) /\ i < j)].via

------------------------------------------------------------------------------
(* Who can be sent to. *)

TailAddr(m) == IF m \in DOMAIN data.tailAddr THEN {data.tailAddr[m]} ELSE {}

(* Faulty variant of accepts_source: every source. *)
accepts_sourceAny(n, src) == TRUE
(* The tailnet accepts from a node its own address and what it has advertised. *)
accepts_source(n, src) == \E p \in TailAddr(n) \cup advertise[n] : matches(p, src)

reachable(n, via, src) ==
    CASE via.leg = "dn42" -> via.to \in legs[n]
      [] via.leg = "tailnet" -> via.to \in tailPeers[n] /\ accepts_source(n, src)
      [] OTHER -> TRUE

OpenVias(n, src) == {v \in {e.via : e \in Range(engine[n])} : reachable(n, v, src)}

Linked(n, m) == {n, m} \in sessions

(* The candidates of one element of the preference: an exit does not use mesh exits. *)
ExitCandidates(n, source) ==
    CASE source = "mesh" /\ exits[n].self -> <<>>
      [] source = "mesh" -> exits[n].mesh
      [] OTHER -> exits[n].tailnet

(* DefaultRouteResolver::resolve: the first source of the preference with a reachable candidate *)
resolve(n, src) ==
    LET chain == Joined([i \in DOMAIN data.prefer[n] |->
                     [j \in DOMAIN ExitCandidates(n, data.prefer[n][i]) |->
                         Via(data.prefer[n][i], ExitCandidates(n, data.prefer[n][i])[j])]])
        open == SelectSeq(chain, LAMBDA v : reachable(n, v, src))
    IN IF open = <<>> THEN NoVia ELSE Head(open)

------------------------------------------------------------------------------
(* Access control. *)

subject_matches(policy, s, from) ==
    s \in {"any", from} \/ (s \in DOMAIN policy.groups /\ from \in policy.groups[s])

(* The first rule that matches decides; no rule is a refusal. *)
allows(policy, from, dst) ==
    LET hit == SelectSeq(policy.rules, LAMBDA r : 
                   matches(r.prefix, dst) /\ \E s \in r.subjects : subject_matches(policy, s, from))
    IN policy.enabled => hit # <<>> /\ Head(hit).allow

------------------------------------------------------------------------------
(* Packets.  A packet is at a node, come from a leg; from is the mesh node that sent it.  trail *)
(* is history: where it was since the tables last changed.  sure is history: it was sent while  *)
(* the network was settled and serves its destination, and nothing has changed since.           *)
Fingerprint(pk) == <<pk.src, pk.dst>>

To(pk, n, leg) == [pk EXCEPT !.at = n, !.leg = leg, !.from = pk.at, !.trail = @ \cup {<<pk.at, pk.leg>>}]

(* What becomes of a packet: it goes on as the packets of on, it is done, or it is lost. *)
On(S) == [on |-> S, lost |-> FALSE]
Done == On({})
Lost == [on |-> {}, lost |-> TRUE]
EndsIn(good) == IF good THEN Done ELSE Lost

Covered(S, a) == \E p \in S : matches(p, a)
Specific(S) == {p \in S : ~is_default(p)}
Internet(a) ==
    /\ \A n \in Nodes : ~Covered(data.owns[n], a)
    /\ \A p \in DOMAIN data.serves : ~Covered(data.serves[p], a)
    /\ \A m \in DOMAIN data.tailAddr : ~Covered(TailAddr(m) \cup Specific(data.fixed[m]), a)
Netmap == data.netmaps[head]
Listed == {Netmap.entries[i].node : i \in DOMAIN Netmap.entries}
Online == {Netmap.entries[i].node : i \in {j \in DOMAIN Netmap.entries : ~Netmap.entries[j].offline}}
Exits == {Netmap.entries[i].node : i \in {j \in DOMAIN Netmap.entries : Netmap.entries[j].exit}}

(* The kernel of n, given a packet by the tun: its LAN, its default route, or the WAN. *)
Kernel(n, pk) ==
    IF Covered(data.owns[n], pk.dst) THEN Done
    ELSE IF n \in data.looping THEN On({To(pk, n, "lan")})
    ELSE EndsIn(Internet(pk.dst) /\ n \in Exits)

(* A tailnet peer takes from n only the sources that the server lets n use. *)
PeerAccepts(n, src) == Covered(TailAddr(n) \cup advertise[n], src)

IntoDn42(p, pk) == EndsIn(Covered(data.serves[p], pk.dst))
IntoTailnet(n, m, pk) ==
    IF ~PeerAccepts(n, pk.src) THEN Lost
    ELSE IF m \in Nodes THEN On({To(pk, m, "tailnet")})
    ELSE EndsIn(Covered(TailAddr(m) \cup data.fixed[m], pk.dst))
IntoMesh(m, pk) == On({To(pk, m, "mesh")})

(* forward_transit, then write_lan for what it does not take.  Only the pairs of legs below are *)
(* edges; a tailnet packet does not go back into the tailnet.                                   *)
forward_transit(n, pk) ==
    LET via == lookup_best(engine[n], pk.dst, OpenVias(n, pk.src)) IN
    CASE via.leg = "dn42" /\ pk.leg \in {"mesh", "tailnet"} -> IntoDn42(via.to, pk)
      [] via.leg = "mesh" /\ pk.leg \in {"dn42", "tailnet"} /\ Linked(n, via.to) -> IntoMesh(via.to, pk)
      [] via.leg = "tailnet" /\ pk.leg = "mesh" -> IntoTailnet(n, via.to, pk)
      [] via.leg = "tailnet" /\ pk.leg = "tailnet" -> Lost
      [] OTHER -> Kernel(n, pk)

(* pump_lan_packet, unicast: the table, then the chain of exits *)
LanVia(n, pk) ==
    LET via == lookup_best(engine[n], pk.dst, OpenVias(n, pk.src)) IN
    IF via = NoVia THEN resolve(n, pk.src) ELSE via

LanOutcome(n, pk, via) ==
    CASE via.leg = "mesh" /\ Linked(n, via.to) -> IntoMesh(via.to, pk)
      [] via.leg = "dn42" -> IntoDn42(via.to, pk)
      [] via.leg = "tailnet" -> IntoTailnet(n, via.to, pk)
      [] via.leg = "direct" -> EndsIn(Covered(data.owns[n], pk.dst))
      [] OTHER -> Lost

Settle(pk, o) ==
    /\ flight' = (flight \ {pk}) \cup o.on
    /\ lost' = (lost \/ (pk.sure /\ o.lost))

(* From the LAN to one address.  Without a session the packet starts a handshake (PeerSessions) *)
(* and is dropped; whether the handshake succeeds is open.                                      *)
pump_lan_packet(n) ==
    \E pk \in flight :
      /\ pk.at = n /\ pk.leg = "lan" /\ ~is_multicast(pk.dst)
      /\ LET via == LanVia(n, pk) IN
           /\ Settle(pk, LanOutcome(n, pk, via))
           /\ \/ UNCHANGED sessions
              \/ via.leg = "mesh" /\ via.to \in peers[n] /\ sessions' = sessions \cup {{n, via.to}}
      /\ UNCHANGED <<place, head, routeMap, tables, written, floods, flaps>>

(* From the LAN to the group: the echo of what was just written to the tun is not flooded. *)
LanMulticast(n) ==
    \E pk \in flight :
      /\ pk.at = n /\ pk.leg = "lan" /\ is_multicast(pk.dst)
      /\ LET echo == Fingerprint(pk) \in written[n] IN
           /\ flight' = (flight \ {pk}) \cup
                  IF echo THEN {} ELSE {To(pk, m, "mesh") : m \in {m \in Nodes : m # n /\ Linked(n, m)}}
           /\ floods' = IF echo THEN floods ELSE floods + 1
      /\ UNCHANGED <<place, head, routeMap, tables, sessions, written, lost, flaps>>

(* write_lan of a multicast packet remembers its fingerprint *)
write_lan(n, pk) == written' = [written EXCEPT ![n] = @ \cup {Fingerprint(pk)}]

(* A broadcast frame is written to the tun, and the kernel sends it back into the tun. *)
MeshBroadcast(n) ==
    \E pk \in flight :
      /\ pk.at = n /\ pk.leg = "mesh" /\ is_multicast(pk.dst)
      /\ write_lan(n, pk)
      /\ flight' = (flight \ {pk}) \cup {To(pk, n, "lan")}
      /\ UNCHANGED <<place, head, routeMap, tables, sessions, floods, lost, flaps>>

(* A data frame of the mesh: access control, then transit. *)
acl_deliver(n) ==
    \E pk \in flight :
      /\ pk.at = n /\ pk.leg = "mesh" /\ ~is_multicast(pk.dst)
      /\ Settle(pk, IF allows(acl[n], pk.from, pk.dst) THEN forward_transit(n, pk) ELSE Lost)
      /\ UNCHANGED <<place, head, routeMap, tables, sessions, floods, written, flaps>>

(* What a dn42 or tailnet tunnel delivers: pump_dn42, pump_ts2021. *)
Inbound(n) ==
    \E pk \in flight :
      /\ pk.at = n /\ pk.leg \in {"dn42", "tailnet"}
      /\ Settle(pk, forward_transit(n, pk))
      /\ UNCHANGED <<place, head, routeMap, tables, sessions, floods, written, flaps>>

(* MULTICAST_REWRITE_GUARD is longer than an echo takes. *)
Expire(n) ==
    /\ flight = {} /\ written[n] # {}
    /\ written' = [written EXCEPT ![n] = {}]
    /\ UNCHANGED <<place, head, routeMap, tables, sessions, flight, floods, lost, flaps>>

------------------------------------------------------------------------------
(* The tables. *)

insert_lan_routes(n) ==
    LET ps == InOrder(data.tun[n]) IN [i \in DOMAIN ps |-> Entry(ps[i], "lan", Via("direct", n))]

RoutesOf(e) == [i \in DOMAIN e.routes |-> Entry(e.routes[i], "mesh", Via("mesh", e.node))]

(* apply_netmap replaces what an earlier netmap brought; offline nodes have no routes and are   *)
(* no exits; a node that is gone loses its session and its dynamic routes.                      *)
Others(n, nm) == SelectSeq(nm.entries, LAMBDA e : e.node # n)
Live(n, nm) == SelectSeq(Others(n, nm), LAMBDA e : ~e.offline)
MeshRoutes(n, nm) == LET es == Live(n, nm) IN Joined([i \in DOMAIN es |-> RoutesOf(es[i])])
NodesIn(es) == {es[i].node : i \in DOMAIN es}

NetmapEngine(n, t, nm) ==
    remove_where(t, {e \in Range(t) : \/ e.source = "mesh"
                                      \/ e.source = "dyn" /\ e.via.to \notin NodesIn(Live(n, nm))})
    \o MeshRoutes(n, nm)

NetmapExits(n, x, nm) ==
    LET es == SelectSeq(Live(n, nm), LAMBDA e : e.exit) IN
    [x EXCEPT !.mesh = [i \in DOMAIN es |-> es[i].node],
              !.self = \E i \in DOMAIN nm.entries : nm.entries[i].node = n /\ nm.entries[i].exit]

(* Ts2021Leg::set_mesh_routes *)
set_mesh_routes(n, old, nm) ==
    IF n \in data.summarize
    THEN data.fixed[n] \cup {e.prefix : e \in Range(MeshRoutes(n, nm))}
    ELSE old

(* The RouteMap event: the dynamic routes are rebuilt, without the node's own. *)
RouteMapEngine(n, t, rm) ==
    LET es == InOrder({x \in rm : x[2] # n}) IN
    remove_where(t, {e \in Range(t) : e.source = "dyn"})
    \o [i \in DOMAIN es |-> Entry(es[i][1], "dyn", Via("mesh", es[i][2]))]

(* Whatever a table change does to a packet under way, it starts a new journey. *)
Restart == flight' = {[pk EXCEPT !.trail = {}, !.sure = FALSE] : pk \in flight}

ApplyNetmap(n, nm) ==
    /\ engine' = [engine EXCEPT ![n] = NetmapEngine(n, @, nm)]
    /\ acl' = [acl EXCEPT ![n] = nm.acl]
    /\ exits' = [exits EXCEPT ![n] = NetmapExits(n, @, nm)]
    /\ peers' = [peers EXCEPT ![n] = NodesIn(Others(n, nm))]
    /\ advertise' = [advertise EXCEPT ![n] = set_mesh_routes(n, @, nm)]
    /\ sessions' = sessions \ {{n, m} : m \in peers[n] \ NodesIn(Others(n, nm))}
    /\ fresh' = [fresh EXCEPT ![n] = nm = Netmap]
    /\ Restart
    /\ UNCHANGED <<place, head, routeMap, legs, tailPeers, floods, lost, written, flaps>>
ApplyRouteMap(n, rm) ==
    /\ engine' = [engine EXCEPT ![n] = RouteMapEngine(n, @, rm)]
    /\ Restart
    /\ UNCHANGED <<place, head, routeMap, exits, acl, peers, fresh, legs, tailPeers, advertise, sessions, floods, lost, written, flaps>>

(* Has the node the dynamic routes of the route map as it is now? *)
RoutesCurrent(n) ==
    {<<e.prefix, e.via.to>> : e \in {x \in Range(engine[n]) : x.source = "dyn"}}
        = {x \in routeMap : x[2] # n}

apply_netmap(n) == ~fresh[n] /\ n \in Listed /\ ApplyNetmap(n, Netmap)
apply_route_map(n) == ~RoutesCurrent(n) /\ n \in Listed /\ ApplyRouteMap(n, routeMap)

Stale == fresh' = [n \in Nodes |-> FALSE]

(* The coordinator's netmap changes; a node that is no longer online loses its route map entries. *)
NextNetmap ==
    /\ head < Len(data.netmaps)
    /\ head' = head + 1
    /\ LET nm == data.netmaps[head + 1] IN
       routeMap' = {x \in routeMap : \E i \in DOMAIN nm.entries : nm.entries[i].node = x[2] /\ ~nm.entries[i].offline}
    /\ Stale /\ Restart
    /\ UNCHANGED <<place, engine, exits, acl, peers, legs, tailPeers, advertise, sessions, floods, lost, written, flaps>>

LearnedBy(n) == {e.prefix : e \in {x \in Range(engine[n]) : x.source = "dn42"}}
Reported(n) == {x \in routeMap : x[2] = n} = LearnedBy(n) \X {n}

(* The route report of a node that is online (RouteReport). *)
Report(n) ==
    /\ n \in Online /\ ~Reported(n)
    /\ routeMap' = {x \in routeMap : x[2] # n} \cup (LearnedBy(n) \X {n})
    /\ Restart
    /\ UNCHANGED <<place, head, engine, exits, acl, peers, fresh, legs, tailPeers, advertise, sessions, floods, lost, written, flaps>>

(* A BGP session comes up and brings the peer's routes, or goes down and takes them. *)
SessionUp(n, p) ==
    /\ p \in data.dn42[n] \ legs[n] /\ flaps < data.flaps
    /\ flaps' = flaps + 1
    /\ legs' = [legs EXCEPT ![n] = @ \cup {p}]
    /\ LET ps == InOrder(data.serves[p]) IN
       engine' = [engine EXCEPT ![n] = @ \o [i \in DOMAIN ps |-> Entry(ps[i], "dn42", Via("dn42", p))]]
    /\ Restart
    /\ UNCHANGED <<place, head, routeMap, exits, acl, peers, fresh, tailPeers, advertise, sessions, floods, lost, written>>

remove_dn42_peer(t, p) == remove_where(t, {e \in Range(t) : e.source = "dn42" /\ e.via.to = p})
SessionEnds(n, p) ==
    /\ p \in legs[n] /\ flaps < data.flaps
    /\ flaps' = flaps + 1
    /\ legs' = [legs EXCEPT ![n] = @ \ {p}]
    /\ engine' = [engine EXCEPT ![n] = remove_dn42_peer(@, p)]
    /\ Restart
    /\ UNCHANGED <<place, head, routeMap, exits, acl, peers, fresh, tailPeers, advertise, sessions, floods, lost, written>>

(* The tailnet as the server shows it to n: the address and the routes of every other member. *)
AllowedIps(m) == TailAddr(m) \cup IF m \in Nodes THEN advertise[m] ELSE data.fixed[m]
Members(n) == SelectSeq(data.tailnet, LAMBDA m : m # n)
TailEntries(n) ==
    Joined([i \in DOMAIN Members(n) |->
        LET m == Members(n)[i]
            ps == InOrder(Specific(AllowedIps(m)))
        IN [j \in DOMAIN ps |-> Entry(ps[j], "tailnet", Via("tailnet", m))]])
TailExits(n) == SelectSeq(Members(n), LAMBDA m : \E p \in AllowedIps(m) : is_default(p))
TailTable(n) == SelectSeq(engine[n], LAMBDA e : e.source = "tailnet")
TailCurrent(n) ==
    n \in Range(data.tailnet) =>
        /\ TailTable(n) = TailEntries(n) /\ exits[n].tailnet = TailExits(n)
        /\ tailPeers[n] = Range(Members(n))

(* pump_ts2021, Netmap: default routes are for the chain of exits only *)
pump_ts2021(n) ==
    /\ ~TailCurrent(n)
    /\ engine' = [engine EXCEPT ![n] = remove_where(@, {e \in Range(@) : e.source = "tailnet"}) \o TailEntries(n)]
    /\ exits' = [exits EXCEPT ![n].tailnet = TailExits(n)]
    /\ tailPeers' = [tailPeers EXCEPT ![n] = Range(Members(n))]
    /\ Restart
    /\ UNCHANGED <<place, head, routeMap, acl, peers, fresh, legs, advertise, sessions, floods, lost, written, flaps>>

------------------------------------------------------------------------------
Settled ==
    /\ \A n \in Nodes : fresh[n] /\ RoutesCurrent(n) /\ TailCurrent(n) /\ Reported(n)
    /\ \A n, m \in Nodes : n # m => Linked(n, m)

Everyone(dst) == \A m \in Nodes : allows(Netmap.acl, m, dst)

(* Someone who is online has the destination: a LAN, a BGP session, a tailnet member that may   *)
(* send for this source, or an exit.                                                            *)
Served(s) ==
    /\ Everyone(s.dst) /\ ~is_multicast(s.dst)
    /\ \/ \E m \in Online : m # s.at /\ Covered(data.owns[m], s.dst)
       \/ s.leg = "lan" /\ \E m \in Online : \E p \in legs[m] : Covered(data.serves[p], s.dst)
       \/ s.leg = "lan" /\ \E m \in Online \cap Range(data.tailnet) :
              PeerAccepts(m, s.src) /\ \E h \in DOMAIN data.tailAddr \ Nodes : Covered(TailAddr(h), s.dst)
       \/ /\ s.leg = "lan" /\ Internet(s.dst) /\ "mesh" \in Range(data.prefer[s.at])
          /\ s.at \notin Exits /\ Exits \cap Online # {} /\ data.looping = {}

Send ==
    /\ flight = {}
    /\ \E s \in data.sends :
         flight' = {[src |-> s.src, dst |-> s.dst, at |-> s.at, leg |-> s.leg, from |-> s.at,
                     trail |-> {}, sure |-> Settled /\ Served(s)]}
    /\ floods' = 0
    /\ UNCHANGED <<place, head, routeMap, tables, sessions, lost, written, flaps>>

NoExits == [mesh |-> <<>>, self |-> FALSE, tailnet |-> <<>>]
NoPolicy == [enabled |-> FALSE, rules |-> <<>>, groups |-> [g \in {} |-> {}]]
Advertised0(n) == IF n \in DOMAIN data.fixed THEN data.fixed[n] ELSE {}

(* Either all daemons have just started, or all are connected and have applied the netmap. *)
DataInit ==
    /\ place \in DOMAIN DataEnvironments
    /\ head = 1 /\ routeMap = {}
    /\ legs = [n \in Nodes |-> {}] /\ tailPeers = [n \in Nodes |-> {}]
    /\ LET on == data.linked IN
       /\ engine = [n \in Nodes |-> IF on THEN NetmapEngine(n, insert_lan_routes(n), Netmap) ELSE insert_lan_routes(n)]
       /\ exits = [n \in Nodes |-> IF on THEN NetmapExits(n, NoExits, Netmap) ELSE NoExits]
       /\ acl = [n \in Nodes |-> IF on THEN Netmap.acl ELSE NoPolicy]
       /\ peers = [n \in Nodes |-> IF on THEN NodesIn(Others(n, Netmap)) ELSE {}]
       /\ fresh = [n \in Nodes |-> on]
       /\ advertise = [n \in Nodes |-> IF on THEN set_mesh_routes(n, Advertised0(n), Netmap) ELSE Advertised0(n)]
       /\ sessions = IF on THEN {{n, m} : n, m \in Nodes} ELSE {}
    /\ written = [n \in Nodes |-> {}]
    /\ flight = {} /\ floods = 0 /\ lost = FALSE /\ flaps = 0

(* The daemon of n starts anew. *)
Reboot(n) ==
    /\ engine' = [engine EXCEPT ![n] = insert_lan_routes(n)]
    /\ exits' = [exits EXCEPT ![n] = NoExits]
    /\ acl' = [acl EXCEPT ![n] = NoPolicy]
    /\ peers' = [peers EXCEPT ![n] = {}] /\ fresh' = [fresh EXCEPT ![n] = FALSE]
    /\ legs' = [legs EXCEPT ![n] = {}] /\ tailPeers' = [tailPeers EXCEPT ![n] = {}]
    /\ advertise' = [advertise EXCEPT ![n] = Advertised0(n)]
    /\ sessions' = {s \in sessions : n \notin s}
    /\ written' = [written EXCEPT ![n] = {}]
    /\ Restart
    /\ UNCHANGED <<place, head, routeMap, floods, lost, flaps>>

Carry(n) ==
    \/ pump_lan_packet(n)
    \/ LanMulticast(n)
    \/ MeshBroadcast(n)
    \/ acl_deliver(n)
    \/ Inbound(n)
    \/ Expire(n)
Tables(n) ==
    \/ Report(n)
    \/ \E p \in data.dn42[n] : SessionUp(n, p) \/ SessionEnds(n, p)
    \/ pump_ts2021(n)
DataNext ==
    \/ Send
    \/ NextNetmap
    \/ \E n \in Nodes : Carry(n) \/ Tables(n) \/ apply_netmap(n) \/ apply_route_map(n)
DataSpec == DataInit /\ [][DataNext]_dataVars

------------------------------------------------------------------------------

(* In a settled network no packet gets lost whose destination someone serves: a LAN, a peer of  *)
(* a BGP session that is up, a tailnet host that takes this source, the Internet behind an exit.*)
NoBlackhole == ~lost
=============================================================================
