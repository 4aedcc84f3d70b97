------------------------------ MODULE MCClient ------------------------------
(***************************************************************************)
(* The parts of the client that connect it to servers and to other         *)
(* sessions, checked together: one behaviour exercises one part, and the   *)
(* others keep their initial state.  So the state spaces of the parts add  *)
(* up, and each part is seen in isolation, as its module describes it.  The*)
(* module extends the parts, so that the run checks their properties as they*)
(* are proved.                                                             *)
(***************************************************************************)
EXTENDS ServerConnections, ServiceDiscovery, RtcNegotiation, ServerRouting, TLC

CONSTANTS
  near, far, \* RtcNegotiation: the two ends
  first      \* ServerRouting: a message

VARIABLE focus \* the part that moves

(* The users of the two ends, and the connections that each creates.       *)
Users == (near :> 1) @@ (far :> 2)
Connections == (near :> 2) @@ (far :> 1)

(* The users that the messages are for.                                    *)
Addressees == [j \in Jobs |-> IF j = first THEN "t1" ELSE "t2"]

ClientInit ==
  /\ focus \in {"rtc", "connections", "routing", "discovery"}
  /\ RtcInit /\ Init /\ RoutingInit /\ DiscoveryInit

ClientNext ==
  \/ focus = "rtc" /\ RtcNext /\ UNCHANGED <<focus, connVars, routeVars, discoveryVars>>
  \/ focus = "connections" /\ Next /\ UNCHANGED <<focus, rtcVars, routeVars, discoveryVars>>
  \/ focus = "routing" /\ RoutingNext /\ UNCHANGED <<focus, rtcVars, connVars, discoveryVars>>
  \/ focus = "discovery" /\ DiscoveryNext /\ UNCHANGED <<focus, rtcVars, connVars, routeVars>>

ClientSpec == ClientInit /\ [][ClientNext]_<<focus, rtcVars, connVars, routeVars, discoveryVars>>

(* Every part keeps its types.                                             *)
TypesOK ==
  CASE focus = "rtc" -> RtcTypeOK
    [] focus = "connections" -> TypeOK
    [] focus = "routing" -> RoutingTypeOK
    [] focus = "discovery" -> DiscoveryTypeOK
=============================================================================
