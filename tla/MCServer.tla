------------------------------- MODULE MCServer -------------------------------
(* Safety of four parts of the server: the watchers of the cluster, the pod  *)
(* monitor, the history that it keeps of a pod's CPU and the refresh tokens. *)
(* They share no variable here.  A behaviour is one of a single part, the    *)
(* others stay in an initial state: the state space is the sum of the parts' *)
(* and what holds of it holds of each part.  The watchers count as two, the  *)
(* metrics loop and the watches, neither of which reads what the other one   *)
(* writes: where one acts, the tasks of the other stay where their start has *)
(* put them.                                                                 *)
EXTENDS MCPodMonitor, ClusterWatch, RefreshTokens, CpuHistory

VARIABLE part           \* the component that acts

serverVars == <<part, watchVars, podMonitorVars, tokenVars, historyVars>>

ServerInit ==
    /\ part \in {"metrics", "watches", "monitor", "tokens", "history"}
    /\ WatchInit
    /\ MonitorInit
    /\ part # "monitor" => row = NoRow /\ \A p \in Pods : cluster[p] = "running"
    /\ TokensInit
    /\ HistoryInit

Resting == IF part = "metrics" THEN Watches ELSE {"metrics"}

WatchActs ==
    /\ part \in {"metrics", "watches"}
    /\ UNCHANGED <<podMonitorVars, tokenVars, historyVars>>
    /\ WatchNext
    /\ \A g \in Gens, ch \in Resting :
          task'[g][ch] # task[g][ch] => genMade' # genMade
MonitorActs ==
    /\ part = "monitor"
    /\ UNCHANGED <<watchVars, tokenVars, historyVars>>
    /\ MonitorNext
TokensAct ==
    /\ part = "tokens"
    /\ UNCHANGED <<watchVars, podMonitorVars, historyVars>>
    /\ TokensNext
HistoryActs ==
    /\ part = "history"
    /\ UNCHANGED <<watchVars, podMonitorVars, tokenVars>>
    /\ HistoryNext

ServerNext ==
    /\ UNCHANGED part
    /\ WatchActs \/ MonitorActs \/ TokensAct \/ HistoryActs

ServerSpec == ServerInit /\ [][ServerNext]_serverVars
=============================================================================
