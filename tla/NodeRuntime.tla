---------------------------- MODULE NodeRuntime ----------------------------
(* One node's daemon as a whole: what its control connection delivers (NodeControl) is what its *)
(* route engine applies (Forwarding), while packets go on.  run serves the mesh, the tun and    *)
(* the BGP and tailnet legs between the steps of the control connection and while it waits to   *)
(* reconnect (sleep_with_timers), so every step of one part can fall between any two of the     *)
(* other.  The other nodes apply every netmap and route map at some time.                       *)
EXTENDS Forwarding, NodeControl

CONSTANT
    Me,       \* the node whose control connection is modelled
    Pairs     \* the combinations of environments: pairs <<place, setting>>

VARIABLE
    pushed    \* replica -> {the route map it last sent to Me}, {}: none (route_map_pushed)

vars == <<dataVars, ctlVars, pushed>>

(* take_route_map_push: nothing is sent again.  The cursor is one of the node and not of its    *)
(* connection: RouteReport has what a broken connection makes of that.  The route map is soft   *)
(* state of the leader, so the pairs with BGP sessions are those in which the leader stays.     *)
push_route_map == IF routeMap \in pushed[target] THEN <<>> ELSE <<RouteMapMsg(routeMap)>>

handle_message ==
    /\ Serve(head, push_route_map)
    /\ pushed' = IF conn'.beat /\ ~conn.beat THEN [pushed EXCEPT ![target] = {routeMap}] ELSE pushed

handle_control_event ==
    /\ \/ NetmapEvent /\ ApplyNetmap(Me, data.netmaps[Head(toNode).snap])
       \/ RouteMapEvent /\ ApplyRouteMap(Me, Head(toNode).routes)
    /\ UNCHANGED pushed

(* A daemon that starts again has only its configuration. *)
Restarted == Respawn /\ Reboot(Me) /\ UNCHANGED pushed

(* A replica that dies loses what is not in its log. *)
Died(r) == Die(r) /\ pushed' = [pushed EXCEPT ![r] = {}]

Control ==
    \/ NodeStep
    \/ Tick
    \/ ClusterStep
    \/ \E r \in Rs : Freeze(r) \/ Handover(r)
    \/ Break
Traffic ==
    \/ Send
    \/ NextNetmap
    \/ \E n \in Nodes : Carry(n) \/ Tables(n)
    \/ \E n \in Nodes \ {Me} : apply_netmap(n) \/ apply_route_map(n)

Init ==
    /\ DataInit /\ CtlInit
    /\ <<place, setting>> \in Pairs
    /\ pushed = [r \in Rs |-> IF env.member /\ r = leader THEN {routeMap} ELSE {}]
Next ==
    \/ Control /\ UNCHANGED <<dataVars, pushed>>
    \/ (handle_message \/ \E r \in Rs : Died(r)) /\ UNCHANGED dataVars
    \/ Traffic /\ UNCHANGED <<ctlVars, pushed>>
    \/ handle_control_event
    \/ Restarted

(* The daemon's loop, replicas that are up and time go on; a majority elects a leader; a        *)
(* replica that froze or crashed comes back, unless it is gone for good.                        *)
Fair ==
    LET elsewhere == <<dataVars, pushed>> IN
    /\ WF_vars(NodeStep /\ UNCHANGED elsewhere)
    /\ WF_vars(handle_control_event)
    /\ WF_vars(handle_message /\ UNCHANGED dataVars)
    /\ WF_vars(Tick /\ UNCHANGED elsewhere)
    /\ WF_vars((\E r \in Rs : Elect(r)) /\ UNCHANGED elsewhere)
    /\ \A r \in Rs : /\ WF_vars(Follow(r) /\ UNCHANGED elsewhere)
                     /\ WF_vars(Forget(r) /\ UNCHANGED elsewhere)
                     /\ WF_vars(Revive(r) /\ UNCHANGED elsewhere)
Spec == Init /\ [][Next]_vars /\ Fair

(* In the end the node routes by the coordinator's last netmap, whatever happened to the        *)
(* connection, the replicas and the daemon in between: every answered HEARTBEAT has all of it   *)
(* (push_snapshot).  Nothing like it holds of the route map, which is sent once (RouteReport).  *)
ViewApplied == <>[]fresh[Me]
=============================================================================
