----------------------------- MODULE MCOutbound ------------------------------
(***************************************************************************)
(* The two goroutines of a process that call out, side by side: the watch  *)
(* with what it exports, and a request that the server takes to Prometheus *)
(* once the startup snapshot is delivered.  One driver runs and succeeds.  *)
(***************************************************************************)
EXTENDS Publisher, Gateway

Driver(phase) ==
  [uid |-> "d1", app |-> "a1", role |-> "driver", phase |-> phase,
   created |-> 1, finished |-> NoTime]

MCLives == [d1 |-> <<Driver("Running"), Driver("Succeeded")>>]
MCApps == {"a1"}
MCUids == DOMAIN MCLives
MCPods == UNION {{MCLives[u][v] : v \in DOMAIN MCLives[u]} : u \in MCUids}

OutboundInit == PubInit /\ GatewayInit

OutboundNext ==
  \/ Publish /\ UNCHANGED gatewayVars
  \/ ~seeding /\ GatewayNext /\ UNCHANGED pubVars
  \/ Die /\ Ended

OutboundSpec ==
  /\ OutboundInit
  /\ [][OutboundNext]_<<pubVars, gatewayVars>>
  /\ PubFairness
  /\ GatewayFairness
=============================================================================
