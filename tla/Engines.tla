------------------------------- MODULE Engines ------------------------------
(* The engines behind the desktop, side by side and on small instances:    *)
(* the parts of the daemon beside its workflows (integration sandboxes,    *)
(* verdicts on configurations, the store, tasks and jobs), and the two     *)
(* routers of the board.  They share no state, so a behaviour is one of a  *)
(* single engine, chosen at the start; what one router does to the         *)
(* document under the other is an action of each.                          *)
EXTENDS IntegrationMC, ReleaseMC, Store, AgentTasks, InteractiveRoute, AutoRouteMC

VARIABLE engine

enginesVars == <<engine, vars, releaseVars, storeVars, taskVars, routeVars, autoVars>>

\* Points are interchangeable, so a route starts beside any one of them.
AnyPoint == CHOOSE p \in Point : TRUE

EnginesInit ==
  /\ engine \in {"integration", "release", "store", "tasks", "mouse", "router"}
  /\ Init /\ ReleaseInit /\ StoreInit /\ TasksInit /\ RouteInit /\ AutoInit
  /\ start.at = AnyPoint /\ project = <<Trace(AnyPoint, AnyPoint, 1)>>

(* A step of the chosen engine; nothing of the others changes.             *)
Only(name, others) == engine = name /\ UNCHANGED <<engine, others>>

EnginesNext ==
  \/ /\ Only("integration", <<releaseVars, storeVars, taskVars, routeVars, autoVars>>)
     /\ Next
  \/ /\ Only("release", <<vars, storeVars, taskVars, routeVars, autoVars>>)
     /\ ReleaseNext
  \/ /\ Only("store", <<vars, releaseVars, taskVars, routeVars, autoVars>>)
     /\ StoreNext
  \/ /\ Only("tasks", <<vars, releaseVars, storeVars, routeVars, autoVars>>)
     /\ TasksNext
  \/ /\ Only("mouse", <<vars, releaseVars, storeVars, taskVars, autoVars>>)
     /\ RouteNext
  \/ /\ Only("router", <<vars, releaseVars, storeVars, taskVars, routeVars>>)
     /\ AutoNext

EnginesSpec == EnginesInit /\ [][EnginesNext]_enginesVars

-----------------------------------------------------------------------------
(* Every engine keeps its types.                                           *)
EnginesTypeOK ==
  /\ TypeOK /\ ReleaseTypeOK /\ StoreTypeOK /\ TasksTypeOK
  /\ RouteTypeOK /\ AutoTypeOK
=============================================================================
