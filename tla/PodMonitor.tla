------------------------------ MODULE PodMonitor ------------------------------
(***************************************************************************)
(* PodMonitorService on top of MonitorSettingsService: the log scan and    *)
(* the metrics poll fill caches that REST handlers read.  A pass of either *)
(* loop works on the settings and on the list of pods it began with, while *)
(* the settings are saved, pods come and go, and the loops are stopped and *)
(* started again (ClusterWatch models who does that).                      *)
(***************************************************************************)
EXTENDS MonitorSettings

CONSTANTS
    SettingsRequests,       \* HTTP requests that get or save the settings
    Scans, Polls,   \* tasks of the two loops, one of each per start
    Phases          \* the phases of a pod in this instance

Tasks == Scans \cup Polls

ASSUME CallersAssumption ==
    /\ Callers = SettingsRequests \cup Tasks
    /\ SettingsRequests \cap Tasks = {} /\ Scans \cap Polls = {}

\* "running" stands for Running and Failed, "pending" for the other phases of a
\* pod that is there.
ASSUME PhasesAssumption == Phases \subseteq {"absent", "running", "pending"}

\* _counts, _metrics and _history, in the order OnSettingsChanged clears them.
Caches == 1..3
Counts == 1
Metrics == 2
History == 3
CachesOf(t) == IF t \in Scans THEN {Counts} ELSE {Metrics, History}

VARIABLES
    cluster,        \* cluster[p]: the phase of a pod
    caches,          \* caches[k]: the pods with an entry in caches k
    live,           \* the tasks whose token is not cancelled
    step,           \* step[t]: where a task is
    listed,         \* listed[t]: the pods of its pass
    todo,           \* todo[t]: the entries its pass has still to write
    cleared,        \* cleared[c]: the caches c's Changed event has been through
    straddled       \* history: settings replaced while a pass was under way

monitorVars == <<cluster, caches, live, step, listed, todo, cleared, straddled>>
podMonitorVars == <<settingsVars, monitorVars>>

Steps == {"unmade", "queued", "head", "listing", "writing", "dropping",
          "delay", "ended"}
PassSteps == {"head", "listing", "writing"}

Alive == {p \in Pods : cluster[p] # "absent"}

MonitorInit ==
    /\ SettingsInit
    /\ cluster \in [Pods -> Phases]
    /\ caches = [k \in Caches |-> {}]
    /\ live = {}
    /\ step = [t \in Tasks |-> "unmade"]
    /\ listed = [t \in Tasks |-> {}]
    /\ todo = [t \in Tasks |-> {}]
    /\ cleared = [c \in Callers |-> 0]
    /\ straddled = FALSE

-----------------------------------------------------------------------------
(* Settings requests.                                                      *)

\* The pods without monitoring under settings s.
Hidden(s) == IF s.Enabled THEN s.ExcludedPods ELSE Pods

\* Calls that the caches do not notice.
SettingsCall(c) ==
    /\ \/ GetCached(c) \/ ReadRow(c) \/ ReadFails(c) \/ CacheLoaded(c)
       \/ /\ c \in SettingsRequests
          /\ Release(c) \/ Save(c) \/ StoreFails(c) \/ StoreRow(c)
    /\ c \in Tasks => step[c] = "head"
    /\ UNCHANGED monitorVars

\* A pass holds settings that it still has to apply.
InPass(t) == op[t] = "holding" /\ step[t] \in PassSteps

SettingsCached(c) ==
    /\ CacheSaved(c)
    /\ straddled' = (straddled \/ \E t \in Tasks : InPass(t))
    /\ UNCHANGED <<cluster, caches, live, step, listed, todo, cleared>>

\* Variant: only a disabled monitor is dealt with.
OnSettingsChanged_DisabledOnly(c) ==
    /\ op[c] = "cached" /\ cleared[c] < 3
    /\ cleared' = [cleared EXCEPT ![c] = @ + 1]
    /\ caches' = [caches EXCEPT ![cleared'[c]] =
                    IF val[c].Enabled THEN @ ELSE {}]
    /\ UNCHANGED <<settingsVars, cluster, live, step, listed, todo, straddled>>

\* OnSettingsChanged, run by the saving request, one cache after the other.
OnSettingsChanged(c) ==
    /\ op[c] = "cached" /\ cleared[c] < 3
    /\ cleared' = [cleared EXCEPT ![c] = @ + 1]
    /\ caches' = [caches EXCEPT ![cleared'[c]] = @ \ Hidden(val[c])]
    /\ UNCHANGED <<settingsVars, cluster, live, step, listed, todo, straddled>>

SaveDone(c) ==
    /\ cleared[c] = 3
    /\ SaveReturns(c)
    /\ cleared' = [cleared EXCEPT ![c] = 0]
    /\ UNCHANGED <<cluster, caches, live, step, listed, todo, straddled>>

-----------------------------------------------------------------------------
(* Start and Stop, as the watch manager calls them.                        *)

Start ==
    /\ live = {}
    /\ \E s \in Scans, p \in Polls :
          /\ step[s] = "unmade" /\ step[p] = "unmade"
          /\ live' = {s, p}
          /\ step' = [step EXCEPT ![s] = "queued", ![p] = "queued"]
    /\ UNCHANGED <<settingsVars, cluster, caches, listed, todo, cleared, straddled>>

\* The tasks are cancelled and not waited for.
Stop ==
    /\ live # {}
    /\ live' = {}
    /\ UNCHANGED <<settingsVars, cluster, caches, step, listed, todo, cleared,
                   straddled>>

-----------------------------------------------------------------------------
(* A task: LogScanLoop with ScanLogsOnce, or MetricsLoop with              *)
(* PollMetricsOnce.                                                        *)

Cancelled(t) == t \notin live

Go(t, from, to) ==
    /\ step[t] = from
    /\ step' = [step EXCEPT ![t] = to]
    /\ UNCHANGED <<cluster, live, cleared, straddled>>

\* The task runs; the scan waits five seconds first.
Begin(t) ==
    /\ Go(t, "queued", IF Cancelled(t) THEN "ended" ELSE "head")
    /\ UNCHANGED <<settingsVars, caches, listed, todo>>

LoopEnds(t) ==
    /\ Cancelled(t) /\ op[t] = "idle"
    /\ Go(t, "head", "ended")
    /\ UNCHANGED <<settingsVars, caches, listed, todo>>

\* Get has returned.
PassBegins(t) ==
    /\ op[t] = "holding"
    /\ Go(t, "head", IF val[t].Enabled THEN "listing" ELSE "delay")
    /\ UNCHANGED <<settingsVars, caches, listed, todo>>

\* The pods of the list whose entries a pass writes: the scan reads pods that
\* run (or failed), the poll those that metrics.k8s.io knows.
Wanted(t) ==
    LET monitored == Alive \ val[t].ExcludedPods
    IN  IF t \in Scans THEN {p \in monitored : cluster[p] = "running"}
                       ELSE monitored

\* The API server answers with the list of pods (for the poll: and with nodes
\* and metrics, which may leave any pod out).
ListPods(t) ==
    /\ Go(t, "listing", "writing")
    /\ listed' = [listed EXCEPT ![t] = Alive]
    /\ \E known \in SUBSET Wanted(t) :
          /\ t \in Scans => known = Wanted(t)
          /\ todo' = [todo EXCEPT ![t] = CachesOf(t) \X known]
    /\ UNCHANGED <<settingsVars, caches>>

\* A call fails: the pass is over and nothing is dropped.
PassFails(t) ==
    /\ Go(t, "listing", IF Cancelled(t) THEN "ended" ELSE "delay")
    /\ UNCHANGED <<settingsVars, caches, listed, todo>>

\* A call is cancelled, by the token or by its own HTTP timeout: both loops
\* break on an OperationCanceledException.
PassBreaks(t) ==
    /\ step[t] = "listing" \/ (step[t] = "writing" /\ t \in Scans)
    /\ Go(t, step[t], "ended")
    /\ todo' = [todo EXCEPT ![t] = {}]
    /\ UNCHANGED <<settingsVars, caches, listed>>

\* A pod's log has been read, or its usage computed.
WriteEntry(t) ==
    /\ \E e \in todo[t] :
          /\ caches' = [caches EXCEPT ![e[1]] = @ \cup {e[2]}]
          /\ todo' = [todo EXCEPT ![t] = @ \ {e}]
    /\ Go(t, "writing", "writing")
    /\ UNCHANGED <<settingsVars, listed>>

\* The scan leaves its loop over the pods when it is done or cancelled.
Written(t) ==
    /\ todo[t] = {} \/ (t \in Scans /\ Cancelled(t))
    /\ Go(t, "writing", "dropping")
    /\ todo' = [todo EXCEPT ![t] = {}]
    /\ UNCHANGED <<settingsVars, caches, listed>>

\* Variant: only the first of the caches is cleaned up.
DropGone_FirstOnly(t) ==
    /\ Go(t, "dropping", "delay")
    /\ caches' = [k \in Caches |->
                    IF k \in CachesOf(t) \ {History} THEN caches[k] \cap listed[t]
                                                     ELSE caches[k]]
    /\ UNCHANGED <<settingsVars, listed, todo>>

\* Entries of pods that are not on the list go.
DropGone(t) ==
    /\ Go(t, "dropping", "delay")
    /\ caches' = [k \in Caches |->
                    IF k \in CachesOf(t) THEN caches[k] \cap listed[t] ELSE caches[k]]
    /\ UNCHANGED <<settingsVars, listed, todo>>

\* Task.Delay, and the settings of this round go out of scope.
DelayEnds(t) ==
    /\ Release(t)
    /\ Go(t, "delay", IF Cancelled(t) THEN "ended" ELSE "head")
    /\ listed' = [listed EXCEPT ![t] = {}]
    /\ UNCHANGED <<caches, todo>>

-----------------------------------------------------------------------------
PodChanges ==
    /\ \E p \in Pods, s \in Phases : cluster' = [cluster EXCEPT ![p] = s]
    /\ UNCHANGED <<settingsVars, caches, live, step, listed, todo, cleared,
                   straddled>>

TaskStep(t) ==
    \/ SettingsCall(t)
    \/ Begin(t) \/ LoopEnds(t) \/ PassBegins(t) \/ ListPods(t) \/ PassFails(t)
    \/ PassBreaks(t) \/ WriteEntry(t) \/ Written(t) \/ DropGone(t) \/ DelayEnds(t)

RequestStep(c) ==
    SettingsCall(c) \/ SettingsCached(c) \/ OnSettingsChanged(c) \/ SaveDone(c)

MonitorNext ==
    \/ \E t \in Tasks : TaskStep(t)
    \/ \E c \in SettingsRequests : RequestStep(c)
    \/ Start \/ Stop \/ PodChanges

\* Loops run on and a save that has begun is carried out; a call to the API
\* server that is repeated for ever succeeds at times.  Nobody is made to save,
\* to connect or to create pods.
MonitorFairness ==
    /\ \A t \in Tasks : WF_podMonitorVars(TaskStep(t)) /\ SF_podMonitorVars(ListPods(t))
    /\ \A c \in SettingsRequests :
          WF_podMonitorVars(SettingsCached(c) \/ OnSettingsChanged(c)
                                     \/ SaveDone(c))

MonitorSpec == MonitorInit /\ [][MonitorNext]_podMonitorVars /\ MonitorFairness

-----------------------------------------------------------------------------
MonitorTypeOK ==
    /\ SettingsTypeOK
    /\ cluster \in [Pods -> Phases]
    /\ caches \in [Caches -> SUBSET Pods]
    /\ live \subseteq Tasks
    /\ step \in [Tasks -> Steps]
    /\ listed \in [Tasks -> SUBSET Pods]
    /\ todo \in [Tasks -> SUBSET (Caches \X Pods)]
    /\ cleared \in [Callers -> 0..3]
    /\ straddled \in BOOLEAN

SavePending == \E c \in Callers : op[c] \in {"stored", "cached"}

\* Once a Save is done, no cache has an entry of a pod that the settings
\* exclude, and none at all while monitoring is off, unless a pass was under
\* way when the settings were replaced (or the copy and the row came apart).
HiddenPodsAreDropped ==
    ~raced /\ ~straddled /\ ~SavePending
       => \A k \in Caches : caches[k] \cap Hidden(cached) = {}

LoopsRun == live # {} /\ \A t \in live : step[t] # "ended"

\* Entries of a pod that is gone do not stay while the loops run and
\* monitoring is on.
GonePodsAreDropped ==
    \A p \in Pods, k \in Caches :
       p \in caches[k] /\ p \notin Alive
          ~> p \notin caches[k] \/ p \in Alive \/ ~LoopsRun \/ ~cached.Enabled

\* "Drop cached entries for newly-excluded pods so stale data doesn't linger":
\* while the loops run and the settings are in order, the entry of an excluded
\* pod goes or the pod is included again.
ExcludedPodsAreDropped ==
    \A p \in Pods, k \in Caches :
       p \in cached.ExcludedPods /\ p \in caches[k]
          ~> p \notin caches[k] \/ p \notin cached.ExcludedPods
               \/ ~LoopsRun \/ raced
=============================================================================
