----------------------------- MODULE MCServerLife -----------------------------
(* The parts of the server that come and go, one at a time as in MCServer:   *)
(* liveness of the watchers of the cluster and of the pod monitor, each      *)
(* under its own fairness, and the starts of the database.                   *)
EXTENDS MCPodMonitor, ClusterWatch, DatabaseStart

VARIABLE part           \* the component that acts

lifeVars == <<part, watchVars, podMonitorVars, startVars>>

LifeInit ==
    /\ part \in {"watch", "monitor", "start"}
    /\ WatchInit
    /\ MonitorInit
    /\ part # "monitor" => row = NoRow /\ \A p \in Pods : cluster[p] = "running"
    /\ StartInit
    /\ part # "start" => tables = {}

WatchActs == part = "watch" /\ UNCHANGED <<podMonitorVars, startVars>> /\ WatchNext
MonitorActs == part = "monitor" /\ UNCHANGED <<watchVars, startVars>> /\ MonitorNext
StartActs == part = "start" /\ UNCHANGED <<watchVars, podMonitorVars>> /\ StartNext

LifeNext == UNCHANGED part /\ (WatchActs \/ MonitorActs \/ StartActs)

\* No task is enabled in the initial state of a component, so that the fairness
\* of those that do not act asks for nothing.
LifeSpec == LifeInit /\ [][LifeNext]_lifeVars /\ WatchFairness /\ MonitorFairness
=============================================================================
