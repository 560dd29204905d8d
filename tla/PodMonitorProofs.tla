--------------------------- MODULE PodMonitorProofs ---------------------------
(***************************************************************************)
(* Proofs about the pod monitor and the settings service below it, for any *)
(* number of requests, loop tasks and pods and any settings clients send,  *)
(* and about the history of the processors and the line drawn of it.       *)
(***************************************************************************)
EXTENDS PodMonitor, CpuHistory, SequenceTheorems, DataLemmas

-----------------------------------------------------------------------------
(* The settings service.                                                   *)

LEMMA ClampBounds ==
  ASSUME NEW low \in Int, NEW high \in Int, NEW n \in Int, low <= high
  PROVE  Clamp(low, n, high) \in low..high /\ (n \in low..high => Clamp(low, n, high) = n)
  BY DEF Clamp

LEMMA Limits ==
  /\ MaxLogScan \in Int /\ 30 <= MaxLogScan
  /\ MaxMetricsPoll \in Int /\ 15 <= MaxMetricsPoll
  BY DEF MaxLogScan, MaxMetricsPoll

LEMMA RawFields ==
  ASSUME NEW s \in RawSettings
  PROVE /\ s.LogScanIntervalSeconds \in Int
        /\ s.MetricsPollIntervalSeconds \in Int
        /\ s.LogWindowSeconds \in Int
        /\ s.ExcludedPods \in {NoList} \cup SUBSET Pods
  BY Zenon DEF RawSettings

LEMMA NormalFields ==
  ASSUME NEW s \in NormalSettings
  PROVE /\ s.LogScanIntervalSeconds \in LogScanRange
        /\ s.MetricsPollIntervalSeconds \in MetricsPollRange
        /\ s.LogWindowSeconds \in LogWindowRange
        /\ s.ExcludedPods \in SUBSET Pods
        /\ s = [Enabled |-> s.Enabled,
                LogScanIntervalSeconds |-> s.LogScanIntervalSeconds,
                MetricsPollIntervalSeconds |-> s.MetricsPollIntervalSeconds,
                LogWindowSeconds |-> s.LogWindowSeconds,
                ExcludedPods |-> s.ExcludedPods]
  BY Zenon DEF NormalSettings

LEMMA DefaultIsNormal == Default \in NormalSettings
<1>1. 300 \in LogScanRange /\ 60 \in MetricsPollRange /\ 86400 \in LogWindowRange
  BY DEF LogScanRange, MetricsPollRange, LogWindowRange, MaxLogScan, MaxMetricsPoll
<1>2. {} \in SUBSET Pods /\ TRUE \in BOOLEAN
  OBVIOUS
<1> QED  BY <1>1, <1>2, SMT DEF Default, NormalSettings

LEMMA NormalizeIsNormal ==
  ASSUME NEW s \in RawSettings
  PROVE  Normalize(s) \in NormalSettings
<1> DEFINE scan == Clamp(30, s.LogScanIntervalSeconds, MaxLogScan)
           poll == Clamp(15, s.MetricsPollIntervalSeconds, MaxMetricsPoll)
           window == IF s.LogWindowSeconds < 60 THEN 60 ELSE s.LogWindowSeconds
           pods == IF s.ExcludedPods = NoList THEN {} ELSE s.ExcludedPods
<1>1. scan \in LogScanRange /\ poll \in MetricsPollRange
  <2>1. s.LogScanIntervalSeconds \in Int /\ s.MetricsPollIntervalSeconds \in Int
    BY RawFields
  <2>2. scan \in LogScanRange
    BY Limits, <2>1 DEF Clamp, LogScanRange
  <2>3. poll \in MetricsPollRange
    BY Limits, <2>1 DEF Clamp, MetricsPollRange
  <2> QED  BY <2>2, <2>3
<1>2. window \in LogWindowRange
  BY RawFields DEF LogWindowRange
<1>3. pods \in SUBSET Pods
  <2>1. CASE s.ExcludedPods = NoList
    BY <2>1
  <2>2. CASE s.ExcludedPods # NoList
    BY <2>2, RawFields
  <2> QED BY <2>1, <2>2
<1>4. s.Enabled \in BOOLEAN
  BY Zenon DEF RawSettings
<1> HIDE DEF scan, poll, window, pods
<1>5. [Enabled |-> s.Enabled,
       LogScanIntervalSeconds |-> scan,
       MetricsPollIntervalSeconds |-> poll,
       LogWindowSeconds |-> window,
       ExcludedPods |-> pods] \in NormalSettings
  BY <1>1, <1>2, <1>3, <1>4, Zenon DEF NormalSettings
<1> QED  BY <1>5, Zenon DEF Normalize, scan, poll, window, pods

LEMMA NormalizeKeepsNormal ==
  ASSUME NEW s \in NormalSettings
  PROVE  Normalize(s) = s
<1>1. /\ Clamp(30, s.LogScanIntervalSeconds, MaxLogScan) = s.LogScanIntervalSeconds
      /\ Clamp(15, s.MetricsPollIntervalSeconds, MaxMetricsPoll) = s.MetricsPollIntervalSeconds
  BY NormalFields, ClampBounds, Limits, SMT DEF LogScanRange, MetricsPollRange
<1>2. (IF s.LogWindowSeconds < 60 THEN 60 ELSE s.LogWindowSeconds) = s.LogWindowSeconds
  BY NormalFields DEF LogWindowRange
<1>3. (IF s.ExcludedPods = NoList THEN {} ELSE s.ExcludedPods) = s.ExcludedPods
  <2>1. s.ExcludedPods # NoList
    BY NormalFields, NoListAssumption, Zenon
  <2> QED BY <2>1, Zenon
<1> QED  BY <1>1, <1>2, <1>3, NormalFields, Zenon DEF Normalize
\* What every call leaves in order between the row and the copy.
Agreement ==
    /\ \A c \in Callers : op[c] \in {"read", "stored"} => val[c] = RowValue
    /\ loaded /\ (\A c \in Callers : op[c] # "stored") => cached = RowValue

SettingsInv ==
    /\ SettingsTypeOK
    /\ ~raced => Agreement
    /\ ~loaded => \A c \in Callers : op[c] \notin {"holding", "cached"}

LEMMA RowValueType == SettingsTypeOK => RowValue \in NormalSettings
  BY DefaultIsNormal DEF SettingsTypeOK, RowValue

LEMMA SettingsInitInv == SettingsInit => SettingsInv
<1> SUFFICES ASSUME SettingsInit  PROVE SettingsInv
  OBVIOUS
<1>1. \A s \in Inputs : Normalize(s) \in NormalSettings
  BY InputsAssumption, NormalizeIsNormal
<1>2. SettingsTypeOK
  BY <1>1, DefaultIsNormal DEF SettingsInit, SettingsTypeOK, OpStates
<1> QED  BY <1>2 DEF SettingsInit, SettingsInv, Agreement


\* A call that leaves the row and the copy as they are.
LEMMA QuietCallInv ==
  ASSUME SettingsInv, NEW c \in Callers, NEW to \in OpStates \ {"stored"},
         NEW v \in NormalSettings, UNCHANGED <<row, cached, loaded, raced>>,
         op' = [op EXCEPT ![c] = to], val' = [val EXCEPT ![c] = v],
         to = "read" => v = RowValue \/ raced,
         op[c] # "stored", to \in {"holding", "cached"} => loaded
  PROVE  SettingsInv'
<1>1. SettingsTypeOK'
  <2>1. raced' \in BOOLEAN /\ loaded' \in BOOLEAN
    BY Zenon DEF SettingsInv, SettingsTypeOK
  <2>2. /\ row' \in {NoRow} \cup NormalSettings /\ cached' \in NormalSettings
        /\ op' \in [Callers -> OpStates] /\ val' \in [Callers -> NormalSettings]
    BY DEF SettingsInv, SettingsTypeOK
  <2> QED  BY <2>1, <2>2, Zenon DEF SettingsTypeOK
<1>2. RowValue' = RowValue
  BY DEF RowValue
<1>3. ~raced' => Agreement'
  BY <1>2 DEF SettingsInv, SettingsTypeOK, Agreement
<1>4. ~loaded' => \A d \in Callers : op'[d] \notin {"holding", "cached"}
  BY DEF SettingsInv, SettingsTypeOK
<1> QED  BY <1>1, <1>3, <1>4 DEF SettingsInv

LEMMA QuietCalls ==
  ASSUME SettingsInv, NEW c \in Callers,
         \/ GetCached(c) \/ ReadRow(c) \/ Release(c)
         \/ Save(c) \/ StoreFails(c) \/ SaveReturns(c)
  PROVE  SettingsInv'
<1>0. /\ op \in [Callers -> OpStates] /\ val \in [Callers -> NormalSettings]
      /\ cached \in NormalSettings /\ Default \in NormalSettings
      /\ RowValue \in NormalSettings
  BY DefaultIsNormal, RowValueType DEF SettingsInv, SettingsTypeOK
<1>1. CASE GetCached(c)
  <2>1. CASE loaded
    BY <1>0, <1>1, <2>1, QuietCallInv DEF GetCached, OpStates
  <2>2. CASE ~loaded
    <3>1. val' = [val EXCEPT ![c] = val[c]]
      BY <1>0, <1>1, <2>2 DEF GetCached
    <3> QED  BY <1>0, <1>1, <2>2, <3>1, QuietCallInv DEF GetCached, OpStates
  <2> QED  BY <2>1, <2>2
<1>2. CASE ReadRow(c)
  <2>1. Normalize(RowValue) = RowValue
    BY <1>0, NormalizeKeepsNormal
  <2> QED  BY <1>0, <1>2, <2>1, QuietCallInv DEF ReadRow, OpStates
<1>3. CASE Release(c)
  BY <1>0, <1>3, QuietCallInv DEF Release, OpStates
<1>4. CASE Save(c)
  <2>1. PICK s \in Inputs : val' = [val EXCEPT ![c] = Normalize(s)]
    BY <1>4 DEF Save
  <2>2. Normalize(s) \in NormalSettings
    BY InputsAssumption, NormalizeIsNormal
  <2> QED  BY <1>0, <1>4, <2>1, <2>2, QuietCallInv DEF Save, OpStates
<1>5. CASE StoreFails(c) \/ SaveReturns(c)
  BY <1>0, <1>5, QuietCallInv DEF StoreFails, SaveReturns, OpStates
<1> QED  BY <1>1, <1>2, <1>3, <1>4, <1>5

LEMMA ReadFailsInv ==
  ASSUME SettingsInv, NEW c \in Callers, ReadFails(c)
  PROVE  SettingsInv'
<1>1. /\ row' \in {NoRow} \cup NormalSettings /\ cached' \in NormalSettings
      /\ op' \in [Callers -> OpStates] /\ val' \in [Callers -> NormalSettings]
  BY DefaultIsNormal DEF ReadFails, SettingsInv, SettingsTypeOK, OpStates
<1>2. raced' = TRUE /\ loaded' \in BOOLEAN
  BY Zenon DEF ReadFails, SettingsInv, SettingsTypeOK
<1>3. ~loaded' => \A d \in Callers : op'[d] \notin {"holding", "cached"}
  BY DEF ReadFails, SettingsInv, SettingsTypeOK
<1> QED  BY <1>1, <1>2, <1>3, Zenon DEF SettingsInv, SettingsTypeOK

LEMMA CopyWrittenInv ==
  ASSUME SettingsInv, NEW c \in Callers, CacheLoaded(c) \/ CacheSaved(c)
  PROVE  SettingsInv'
<1>1. /\ row' \in {NoRow} \cup NormalSettings /\ cached' \in NormalSettings
      /\ op' \in [Callers -> OpStates] /\ val' \in [Callers -> NormalSettings]
  BY DEF CacheLoaded, CacheSaved, SettingsInv, SettingsTypeOK, OpStates
<1>2. raced' \in BOOLEAN /\ loaded' = TRUE
  BY Zenon DEF CacheLoaded, CacheSaved, SettingsInv, SettingsTypeOK
<1>3. ~raced' => Agreement'
  BY DEF CacheLoaded, CacheSaved, SettingsInv, SettingsTypeOK, Agreement, RowValue
<1> QED  BY <1>1, <1>2, <1>3, Zenon DEF SettingsInv, SettingsTypeOK

LEMMA StoreRowInv ==
  ASSUME SettingsInv, NEW c \in Callers, StoreRow(c)
  PROVE  SettingsInv'
<1>1. /\ row' \in {NoRow} \cup NormalSettings /\ cached' \in NormalSettings
      /\ op' \in [Callers -> OpStates] /\ val' \in [Callers -> NormalSettings]
  BY DEF StoreRow, SettingsInv, SettingsTypeOK, OpStates
<1>2. raced' \in BOOLEAN /\ loaded' \in BOOLEAN
  BY Zenon DEF StoreRow, SettingsInv, SettingsTypeOK
<1>3. ASSUME ~raced'  PROVE  Agreement'
  <2>1. ~Crosses(c)
    BY <1>3, Zenon DEF StoreRow
  <2>2. RowValue' = val[c]
    BY NoRowAssumption DEF StoreRow, SettingsInv, SettingsTypeOK, RowValue
  <2>3. op' = [op EXCEPT ![c] = "stored"] /\ val' = val /\ op \in [Callers -> OpStates]
    BY DEF StoreRow, SettingsInv, SettingsTypeOK
  <2> QED  BY <2>1, <2>2, <2>3 DEF Crosses, Agreement
<1>4. ~loaded' => \A d \in Callers : op'[d] \notin {"holding", "cached"}
  BY DEF StoreRow, SettingsInv, SettingsTypeOK
<1> QED  BY <1>1, <1>2, <1>3, <1>4, Zenon DEF SettingsInv, SettingsTypeOK

LEMMA SettingsNextInv == SettingsInv /\ [SettingsNext]_settingsVars => SettingsInv'
<1> SUFFICES ASSUME SettingsInv, [SettingsNext]_settingsVars  PROVE SettingsInv'
  OBVIOUS
<1>1. CASE UNCHANGED settingsVars
  BY <1>1, Zenon DEF settingsVars, SettingsInv, SettingsTypeOK, Agreement, RowValue
<1>2. ASSUME NEW c \in Callers,
             GetStep(c) \/ Release(c) \/ SaveStep(c) \/ SaveReturns(c)
      PROVE  SettingsInv'
  BY <1>2, QuietCalls, ReadFailsInv, CopyWrittenInv, StoreRowInv DEF GetStep, SaveStep
<1> QED  BY <1>1, <1>2 DEF SettingsNext

LEMMA SettingsInvariance == SettingsSpec => []SettingsInv
  BY SettingsInitInv, SettingsNextInv, PTL DEF SettingsSpec

\* The limits of Normalize hold for whatever is stored, cached or handed out.
THEOREM SettingsTypeCorrect == SettingsSpec => []SettingsTypeOK
<1>1. SettingsInv => SettingsTypeOK
  BY DEF SettingsInv
<1> QED  BY SettingsInvariance, <1>1, PTL

\* Any number of Gets and Saves: the copy equals the row outside Saves unless
\* two calls crossed between row and copy, or a load failed.
THEOREM CopyAgrees == SettingsSpec => []CopyAgreesWithRow
<1>1. SettingsInv => CopyAgreesWithRow
  BY DEF SettingsInv, Agreement, CopyAgreesWithRow
<1> QED  BY SettingsInvariance, <1>1, PTL

-----------------------------------------------------------------------------
(* The pod monitor.  Whatever it does, the settings service below it sees   *)
(* calls of Get and Save and nothing else.                                  *)

LEMMA TasksAreCallers == Tasks \subseteq Callers /\ SettingsRequests \subseteq Callers
                         /\ SettingsRequests \cap Tasks = {}
  BY CallersAssumption DEF Tasks

LEMMA TaskSettings ==
  ASSUME NEW t \in Tasks, TaskStep(t)
  PROVE  [SettingsNext]_settingsVars
<1>1. t \in Callers
  BY TasksAreCallers
<1>2. CASE SettingsCall(t)
  BY <1>1, <1>2, Zenon DEF SettingsCall, SettingsNext, GetStep, SaveStep
<1>3. CASE DelayEnds(t)
  BY <1>1, <1>3, Zenon DEF DelayEnds, SettingsNext
<1>4. CASE \/ Begin(t) \/ LoopEnds(t) \/ PassBegins(t) \/ ListPods(t) \/ PassFails(t) \/ PassBreaks(t)
           \/ WriteEntry(t) \/ Written(t) \/ DropGone(t)
  BY <1>4, Zenon DEF Begin, LoopEnds, PassBegins, ListPods, PassFails, PassBreaks,
     WriteEntry, Written, DropGone
<1> QED  BY <1>2, <1>3, <1>4 DEF TaskStep

LEMMA RequestSettings ==
  ASSUME NEW c \in SettingsRequests, RequestStep(c)
  PROVE  [SettingsNext]_settingsVars
<1>1. c \in Callers
  BY TasksAreCallers
<1>2. CASE SettingsCall(c)
  BY <1>1, <1>2, Zenon DEF SettingsCall, SettingsNext, GetStep, SaveStep
<1>3. CASE SettingsCached(c) \/ SaveDone(c)
  BY <1>1, <1>3, Zenon DEF SettingsCached, SaveDone, SettingsNext, SaveStep
<1>4. CASE OnSettingsChanged(c)
  BY <1>4, Zenon DEF OnSettingsChanged
<1> QED  BY <1>2, <1>3, <1>4 DEF RequestStep

LEMMA NextSettings == [MonitorNext]_podMonitorVars => [SettingsNext]_settingsVars
<1> SUFFICES ASSUME [MonitorNext]_podMonitorVars  PROVE [SettingsNext]_settingsVars
  OBVIOUS
<1>1. CASE Start \/ Stop \/ PodChanges \/ UNCHANGED podMonitorVars
  BY <1>1, Zenon DEF Start, Stop, PodChanges, podMonitorVars
<1> QED  BY <1>1, TaskSettings, RequestSettings, Zenon DEF MonitorNext

\* The pod monitor is a client of the settings service: every behaviour of the
\* two together is one of the service.
THEOREM ImplementsSettings == MonitorSpec => SettingsSpec
<1>1. MonitorInit => SettingsInit
  BY DEF MonitorInit
<1> QED  BY <1>1, NextSettings, PTL DEF MonitorSpec, SettingsSpec

-----------------------------------------------------------------------------
(* Types.                                                                  *)

MonitorStateOK ==
    /\ cluster \in [Pods -> Phases]
    /\ caches \in [Caches -> SUBSET Pods]
    /\ live \subseteq Tasks
    /\ step \in [Tasks -> Steps]
    /\ listed \in [Tasks -> SUBSET Pods]
    /\ todo \in [Tasks -> SUBSET (Caches \X Pods)]
    /\ cleared \in [Callers -> 0..3]

TypeInv == SettingsInv /\ MonitorStateOK /\ straddled \in BOOLEAN

LEMMA CachesOfType == \A t \in Tasks : CachesOf(t) \subseteq Caches
  BY DEF CachesOf, Caches, Counts, Metrics, History

LEMMA TypeInit == MonitorInit => TypeInv
<1> SUFFICES ASSUME MonitorInit  PROVE TypeInv
  OBVIOUS
<1>1. MonitorStateOK
  BY DEF MonitorInit, MonitorStateOK, Steps
<1>2. straddled \in BOOLEAN
  BY Zenon DEF MonitorInit
<1> QED  BY <1>1, <1>2, SettingsInitInv DEF MonitorInit, TypeInv

LEMMA TaskTypes ==
  ASSUME MonitorStateOK, NEW t \in Tasks, TaskStep(t)
  PROVE  MonitorStateOK' /\ UNCHANGED straddled
<1> USE DEF MonitorStateOK, Go, Steps
<1>1. CASE SettingsCall(t)
  BY <1>1 DEF SettingsCall, monitorVars
<1>2. CASE Begin(t)
  BY <1>2 DEF Begin
<1>3. CASE LoopEnds(t)
  BY <1>3 DEF LoopEnds
<1>4. CASE PassBegins(t)
  <2>1. (IF val[t].Enabled THEN "listing" ELSE "delay") \in Steps
    BY Zenon
  <2> QED  BY <1>4, <2>1 DEF PassBegins
<1>5. CASE ListPods(t)
  <2>1. PICK known \in SUBSET Wanted(t) :
           todo' = [todo EXCEPT ![t] = CachesOf(t) \X known]
    BY <1>5 DEF ListPods
  <2>2. known \subseteq Pods /\ Alive \subseteq Pods
    BY DEF Wanted, Alive
  <2>3. CachesOf(t) \X known \subseteq Caches \X Pods
    BY <2>2, CachesOfType
  <2> QED  BY <1>5, <2>1, <2>2, <2>3 DEF ListPods
<1>6. CASE PassFails(t) \/ PassBreaks(t)
  BY <1>6 DEF PassFails, PassBreaks
<1>7. CASE WriteEntry(t)
  <2>1. PICK e \in todo[t] : /\ caches' = [caches EXCEPT ![e[1]] = @ \cup {e[2]}]
                             /\ todo' = [todo EXCEPT ![t] = @ \ {e}]
    BY <1>7 DEF WriteEntry
  <2>2. e[1] \in Caches /\ e[2] \in Pods
    BY <2>1
  <2> QED  BY <1>7, <2>1, <2>2 DEF WriteEntry
<1>8. CASE Written(t)
  BY <1>8 DEF Written
<1>9. CASE DropGone(t)
  BY <1>9 DEF DropGone
<1>10. CASE DelayEnds(t)
  BY <1>10 DEF DelayEnds
<1> QED
  BY <1>1, <1>2, <1>3, <1>4, <1>5, <1>6, <1>7, <1>8, <1>9, <1>10, Zenon DEF TaskStep

LEMMA RequestTypes ==
  ASSUME MonitorStateOK, NEW c \in SettingsRequests, RequestStep(c)
  PROVE  MonitorStateOK'
<1> USE DEF MonitorStateOK
<1>1. c \in Callers
  BY TasksAreCallers
<1>2. CASE SettingsCall(c)
  BY <1>2 DEF SettingsCall, monitorVars
<1>3. CASE SettingsCached(c)
  BY <1>3 DEF SettingsCached
<1>4. CASE OnSettingsChanged(c)
  <2>1. cleared[c] \in 0..3 /\ cleared[c] < 3
        /\ cleared' = [cleared EXCEPT ![c] = cleared[c] + 1]
        /\ caches' = [caches EXCEPT ![cleared'[c]] = @ \ Hidden(val[c])]
    BY <1>1, <1>4 DEF OnSettingsChanged
  <2>2. cleared[c] + 1 \in 0..3 /\ cleared'[c] \in Caches
    BY <1>1, <2>1 DEF Caches
  <2>3. cleared' \in [Callers -> 0..3]
    BY <2>1, <2>2
  <2>4. caches' \in [Caches -> SUBSET Pods]
    BY <2>1, <2>2
  <2>5. UNCHANGED <<cluster, live, step, listed, todo>>
    BY <1>4 DEF OnSettingsChanged
  <2> QED  BY <2>3, <2>4, <2>5
<1>5. CASE SaveDone(c)
  <2>1. cleared' = [cleared EXCEPT ![c] = 0]
        /\ UNCHANGED <<cluster, caches, live, step, listed, todo>>
    BY <1>5 DEF SaveDone
  <2>2. 0 \in 0..3
    OBVIOUS
  <2>3. cleared' \in [Callers -> 0..3]
    BY <2>1, <2>2
  <2> QED  BY <2>1, <2>3
<1> QED  BY <1>2, <1>3, <1>4, <1>5 DEF RequestStep

LEMMA RequestStraddled ==
  ASSUME straddled \in BOOLEAN, NEW c \in SettingsRequests, RequestStep(c)
  PROVE  straddled' \in BOOLEAN
  BY Zenon DEF RequestStep, SettingsCall, monitorVars, SettingsCached, OnSettingsChanged,
     SaveDone

LEMMA OtherTypes ==
  ASSUME MonitorStateOK, Start \/ Stop \/ PodChanges \/ UNCHANGED podMonitorVars
  PROVE  MonitorStateOK' /\ UNCHANGED straddled
<1> USE DEF MonitorStateOK
<1>1. CASE Start
  BY <1>1 DEF Start, Steps, Tasks
<1>2. CASE Stop
  BY <1>2 DEF Stop
<1>3. CASE PodChanges
  BY <1>3 DEF PodChanges
<1>4. CASE UNCHANGED podMonitorVars
  BY <1>4 DEF podMonitorVars, monitorVars
<1> QED  BY <1>1, <1>2, <1>3, <1>4

LEMMA TypeNext == TypeInv /\ [MonitorNext]_podMonitorVars => TypeInv'
<1> SUFFICES ASSUME TypeInv, [MonitorNext]_podMonitorVars  PROVE TypeInv'
  OBVIOUS
<1>1. SettingsInv'
  BY NextSettings, SettingsNextInv DEF TypeInv
<1>2. MonitorStateOK' /\ straddled' \in BOOLEAN
  <2>1. CASE \E t \in Tasks : TaskStep(t)
    BY <2>1, TaskTypes, Zenon DEF TypeInv
  <2>2. CASE \E c \in SettingsRequests : RequestStep(c)
    BY <2>2, RequestTypes, RequestStraddled, Zenon DEF TypeInv
  <2>3. CASE Start \/ Stop \/ PodChanges \/ UNCHANGED podMonitorVars
    BY <2>3, OtherTypes, Zenon DEF TypeInv
  <2> QED  BY <2>1, <2>2, <2>3, Zenon DEF MonitorNext
<1> QED  BY <1>1, <1>2 DEF TypeInv

\* The caches hold pods, a task is in one of its steps, a pass works on pods.
THEOREM TypeCorrect == MonitorSpec => []MonitorTypeOK
<1>1. TypeInv => MonitorTypeOK
  BY Zenon DEF TypeInv, MonitorTypeOK, MonitorStateOK, SettingsInv
<1> QED  BY TypeInit, TypeNext, <1>1, PTL DEF MonitorSpec

-----------------------------------------------------------------------------
(* Excluded pods.  A pass writes entries that its own settings allow.  As   *)
(* long as nothing raced or straddled, these are the cached settings, or a  *)
(* Save is about to replace them.  A cache is settled if it holds nothing   *)
(* that the cached settings hide, or if the Save that cached them still has *)
(* to go through it.                                                        *)

Stored == \E c \in Callers : op[c] = "stored"

Settled(k) ==
    \/ caches[k] \cap Hidden(cached) = {}
    \/ Stored
    \/ \E c \in Callers : op[c] = "cached" /\ cleared[c] < k /\ val[c] = cached

InTime ==
    /\ \A t \in Tasks : InPass(t) => val[t] = cached \/ Stored
    /\ \A k \in Caches : Settled(k)

PassInv ==
    /\ \A t \in Tasks : step[t] \in {"unmade", "queued"} => op[t] = "idle"
    /\ \A t \in Tasks : step[t] \in {"listing", "writing"} =>
          op[t] = "holding" /\ Hidden(val[t]) = val[t].ExcludedPods
    /\ \A t \in Tasks : \A e \in todo[t] :
          step[t] = "writing" /\ e[2] \notin val[t].ExcludedPods
    /\ \A c \in Callers : cleared[c] # 0 => op[c] = "cached"
    /\ ~loaded => \A k \in Caches : caches[k] = {}

HiddenInv == TypeInv /\ PassInv /\ (~raced /\ ~straddled => InTime)

LEMMA HiddenInit == MonitorInit => HiddenInv
<1> SUFFICES ASSUME MonitorInit  PROVE HiddenInv
  OBVIOUS
<1>1. TypeInv
  BY TypeInit
<1>2. PassInv
  BY TasksAreCallers DEF MonitorInit, SettingsInit, PassInv
<1>3. InTime
  BY TasksAreCallers DEF MonitorInit, SettingsInit, InTime, InPass, PassSteps, Settled
<1> QED  BY <1>1, <1>2, <1>3 DEF HiddenInv

\* The types a step lemma needs, without the Boolean variables.
LEMMA StepTypes ==
  ASSUME TypeInv
  PROVE  /\ op \in [Callers -> OpStates] /\ val \in [Callers -> NormalSettings]
         /\ caches \in [Caches -> SUBSET Pods] /\ step \in [Tasks -> Steps]
         /\ todo \in [Tasks -> SUBSET (Caches \X Pods)]
         /\ cleared \in [Callers -> 0..3]
         /\ Tasks \subseteq Callers /\ SettingsRequests \subseteq Callers
         /\ SettingsRequests \cap Tasks = {} /\ Caches = 1..3
  BY TasksAreCallers DEF TypeInv, SettingsInv, SettingsTypeOK, MonitorStateOK, Caches

-----------------------------------------------------------------------------
(* Calls of the settings service.                                          *)

\* A call that leaves the cached settings alone and whose caller is neither
\* raising the event nor in the middle of a pass.
LEMMA CallKeeps ==
  ASSUME TypeInv, PassInv, NEW c \in Callers, NEW to, NEW v,
         c \in Tasks => step[c] \notin {"unmade", "queued", "listing", "writing"},
         op' = [op EXCEPT ![c] = to], val' = [val EXCEPT ![c] = v],
         op[c] \notin {"cached", "stored"}, UNCHANGED <<cached, loaded, monitorVars>>,
         c \in Tasks /\ to = "holding" /\ step[c] \in PassSteps => v = cached
  PROVE  PassInv' /\ (InTime => InTime')
<1>1. UNCHANGED <<caches, step, todo, cleared>>
  BY DEF monitorVars
<1>2. PassInv'
  BY <1>1, StepTypes DEF PassInv
<1>3. ASSUME InTime  PROVE InTime'
  <2>1. Stored => Stored'
    BY StepTypes DEF Stored
  <2>2. \A t \in Tasks : InPass(t)' => val'[t] = cached' \/ Stored'
    BY <1>1, <1>3, <2>1, StepTypes DEF InTime, InPass, PassSteps
  <2>3. \A k \in Caches : Settled(k)'
    BY <1>1, <1>3, <2>1, StepTypes DEF InTime, Settled
  <2> QED  BY <2>2, <2>3 DEF InTime
<1> QED  BY <1>2, <1>3

LEMMA GetKeeps ==
  ASSUME HiddenInv, NEW c \in Callers, GetCached(c) \/ ReadRow(c),
         c \in Tasks => step[c] = "head", UNCHANGED monitorVars
  PROVE  PassInv' /\ (InTime => InTime')
<1>1. CASE GetCached(c) /\ loaded
  BY <1>1, CallKeeps DEF GetCached, HiddenInv
<1>2. CASE GetCached(c) /\ ~loaded
  <2>1. val' = [val EXCEPT ![c] = val[c]]
    BY <1>2, StepTypes DEF GetCached, HiddenInv
  <2> QED  BY <1>2, <2>1, CallKeeps DEF GetCached, HiddenInv
<1>3. CASE ReadRow(c)
  BY <1>3, CallKeeps DEF ReadRow, HiddenInv
<1> QED  BY <1>1, <1>2, <1>3

LEMMA ReadFailsKeeps ==
  ASSUME HiddenInv, NEW c \in Callers, ReadFails(c),
         c \in Tasks => step[c] = "head", UNCHANGED monitorVars
  PROVE  PassInv' /\ raced' = TRUE
<1>1. PassInv'
  BY CallKeeps DEF ReadFails, HiddenInv
<1> QED  BY <1>1, Zenon DEF ReadFails

LEMMA CacheLoadedKeeps ==
  ASSUME HiddenInv, NEW c \in Callers, CacheLoaded(c),
         c \in Tasks => step[c] = "head", UNCHANGED monitorVars
  PROVE  PassInv' /\ (~raced' /\ ~straddled' => InTime')
<1>1. /\ op[c] = "read" /\ op' = [op EXCEPT ![c] = "holding"] /\ val' = val
      /\ cached' = val[c] /\ UNCHANGED <<row, caches, step, todo, cleared>>
  BY DEF CacheLoaded, monitorVars
<1>2. loaded' /\ (raced' <=> raced) /\ (straddled' <=> straddled)
  BY Zenon DEF CacheLoaded, monitorVars
<1>3. PassInv'
  BY <1>1, <1>2, StepTypes DEF HiddenInv, PassInv
<1>4. ASSUME ~raced, ~straddled  PROVE InTime'
  <2>1. InTime /\ Agreement
    BY <1>4 DEF HiddenInv, TypeInv, SettingsInv
  <2>2. Stored' <=> Stored
    BY <1>1, StepTypes DEF Stored, HiddenInv
  <2>3. CASE loaded /\ ~Stored
    <3>1. cached' = cached
      BY <1>1, <2>1, <2>3 DEF Agreement, Stored
    <3>2. \A t \in Tasks : InPass(t)' => val'[t] = cached'
      BY <1>1, <2>1, <2>3, <3>1, StepTypes DEF InTime, InPass, HiddenInv
    <3>3. \A k \in Caches : Settled(k)'
      BY <1>1, <2>1, <2>3, <3>1, StepTypes DEF InTime, Settled, HiddenInv
    <3> QED  BY <3>2, <3>3 DEF InTime
  <2>4. CASE ~loaded
    <3>1. \A d \in Callers : op[d] \notin {"holding", "cached"}
      BY <2>4 DEF HiddenInv, TypeInv, SettingsInv
    <3>2. \A t \in Tasks : InPass(t)' => val'[t] = cached'
      BY <1>1, <3>1, StepTypes DEF InPass, HiddenInv
    <3>3. \A k \in Caches : caches'[k] = {}
      BY <1>1, <2>4 DEF HiddenInv, PassInv
    <3> QED  BY <3>2, <3>3 DEF InTime, Settled
  <2>5. CASE Stored
    BY <2>2, <2>5 DEF InTime, Settled
  <2> QED  BY <2>3, <2>4, <2>5
<1> QED  BY <1>2, <1>3, <1>4, Zenon

LEMMA RequestCallKeeps ==
  ASSUME HiddenInv, NEW c \in SettingsRequests, Release(c) \/ Save(c) \/ StoreFails(c),
         UNCHANGED monitorVars
  PROVE  PassInv' /\ (InTime => InTime')
<1>1. c \in Callers /\ c \notin Tasks
  BY TasksAreCallers
<1>2. CASE Release(c) \/ StoreFails(c)
  BY <1>1, <1>2, CallKeeps DEF Release, StoreFails, HiddenInv
<1>3. CASE Save(c)
  BY <1>1, <1>3, CallKeeps DEF Save, HiddenInv
<1> QED  BY <1>2, <1>3

LEMMA StoreRowKeeps ==
  ASSUME HiddenInv, NEW c \in SettingsRequests, StoreRow(c), UNCHANGED monitorVars
  PROVE  PassInv' /\ InTime'
<1>1. /\ op[c] = "saving" /\ op' = [op EXCEPT ![c] = "stored"] /\ val' = val
      /\ UNCHANGED <<loaded, cached, caches, step, todo, cleared>>
      /\ c \in Callers /\ c \notin Tasks
  BY TasksAreCallers DEF StoreRow, monitorVars
<1>2. Stored'
  BY <1>1, StepTypes DEF Stored, HiddenInv
<1>3. PassInv'
  BY <1>1, StepTypes DEF HiddenInv, PassInv
<1>4. InTime'
  BY <1>2 DEF InTime, Settled
<1> QED  BY <1>3, <1>4

LEMMA SettingsCallKeeps ==
  ASSUME HiddenInv, NEW c \in Callers, SettingsCall(c)
  PROVE  PassInv' /\ (~raced' /\ ~straddled' => InTime')
<1>1. UNCHANGED monitorVars /\ (c \in Tasks => step[c] = "head")
  BY DEF SettingsCall
<1>2. CASE GetCached(c) \/ ReadRow(c)
  <2>1. UNCHANGED <<raced, straddled>>
    BY <1>1, <1>2 DEF GetCached, ReadRow, monitorVars
  <2> QED  BY <1>1, <1>2, <2>1, GetKeeps, Zenon DEF HiddenInv
<1>3. CASE ReadFails(c)
  BY <1>1, <1>3, ReadFailsKeeps, Zenon
<1>4. CASE CacheLoaded(c)
  BY <1>1, <1>4, CacheLoadedKeeps
<1>5. CASE c \in SettingsRequests /\ (Release(c) \/ Save(c) \/ StoreFails(c))
  <2>1. UNCHANGED <<raced, straddled>>
    BY <1>1, <1>5 DEF Release, Save, StoreFails, monitorVars
  <2> QED  BY <1>1, <1>5, <2>1, RequestCallKeeps, Zenon DEF HiddenInv
<1>6. CASE c \in SettingsRequests /\ StoreRow(c)
  BY <1>1, <1>6, StoreRowKeeps
<1> QED  BY <1>2, <1>3, <1>4, <1>5, <1>6, Zenon DEF SettingsCall

-----------------------------------------------------------------------------
(* Saves and their event.                                                  *)

LEMMA SettingsCachedKeeps ==
  ASSUME HiddenInv, NEW c \in SettingsRequests, SettingsCached(c)
  PROVE  PassInv' /\ (~raced' /\ ~straddled' => InTime')
<1>1. /\ op[c] = "stored" /\ op' = [op EXCEPT ![c] = "cached"] /\ val' = val
      /\ cached' = val[c] /\ UNCHANGED <<caches, step, todo, cleared>>
      /\ c \in Callers /\ c \notin Tasks
  BY TasksAreCallers DEF SettingsCached, CacheSaved
<1>2. loaded' /\ (~straddled' => ~\E t \in Tasks : InPass(t))
  BY Zenon DEF SettingsCached, CacheSaved
<1>3. PassInv'
  BY <1>1, <1>2, StepTypes DEF HiddenInv, PassInv
<1>4. ASSUME ~straddled'  PROVE InTime'
  <2>1. \A t \in Tasks : ~InPass(t)'
    BY <1>1, <1>2, <1>4, StepTypes DEF InPass, HiddenInv
  <2>2. cleared[c] = 0
    BY <1>1 DEF HiddenInv, PassInv
  <2>3. \A k \in Caches : Settled(k)'
    BY <1>1, <2>2, StepTypes DEF Settled, HiddenInv
  <2> QED  BY <2>1, <2>3 DEF InTime
<1> QED  BY <1>3, <1>4

LEMMA EventKeeps ==
  ASSUME HiddenInv, NEW c \in SettingsRequests, OnSettingsChanged(c)
  PROVE  PassInv' /\ (InTime => InTime')
<1> DEFINE n == cleared[c] + 1
<1>1. /\ op[c] = "cached" /\ cleared[c] \in 0..2 /\ n \in Caches
      /\ cleared' = [cleared EXCEPT ![c] = n]
      /\ caches' = [caches EXCEPT ![n] = caches[n] \ Hidden(val[c])]
      /\ UNCHANGED <<op, val, cached, step, todo>>
      /\ c \in Callers
  <2>1. c \in Callers /\ cleared \in [Callers -> 0..3]
    BY StepTypes DEF HiddenInv
  <2>2. /\ op[c] = "cached" /\ cleared[c] < 3
        /\ cleared' = [cleared EXCEPT ![c] = n]
        /\ caches' = [caches EXCEPT ![cleared'[c]] = @ \ Hidden(val[c])]
        /\ UNCHANGED <<op, val, cached, step, todo>>
    BY DEF OnSettingsChanged, settingsVars
  <2>3. cleared'[c] = n /\ cleared[c] \in 0..2 /\ n \in Caches
    BY <2>1, <2>2 DEF Caches
  <2> QED  BY <2>1, <2>2, <2>3
<1>2. loaded' <=> loaded
  BY Zenon DEF OnSettingsChanged, settingsVars
<1>3. \A k \in Caches : caches'[k] \subseteq caches[k]
  BY <1>1, StepTypes DEF HiddenInv
<1>4. PassInv'
  <2>1. \A d \in Callers : cleared'[d] # 0 => op'[d] = "cached"
    BY <1>1, StepTypes DEF HiddenInv, PassInv
  <2>2. ~loaded' => \A k \in Caches : caches'[k] = {}
    BY <1>2, <1>3 DEF HiddenInv, PassInv
  <2> QED  BY <1>1, <2>1, <2>2 DEF HiddenInv, PassInv
<1>5. ASSUME InTime  PROVE InTime'
  <2>1. Stored' <=> Stored
    BY <1>1 DEF Stored
  <2>2. \A t \in Tasks : InPass(t)' => val'[t] = cached' \/ Stored'
    BY <1>1, <1>5, <2>1 DEF InTime, InPass
  <2>3. ASSUME NEW k \in Caches  PROVE Settled(k)'
    <3>1. CASE caches[k] \cap Hidden(cached) = {} \/ Stored
      BY <1>1, <1>3, <2>1, <3>1 DEF Settled
    <3>2. ASSUME NEW d \in Callers, op[d] = "cached", cleared[d] < k, val[d] = cached
          PROVE  Settled(k)'
      <4>1. CASE d = c /\ k = n
        BY <1>1, <3>2, <4>1, StepTypes DEF Settled, HiddenInv
      <4>2. CASE d = c /\ k # n
        <5>1. cleared'[d] < k
          BY <1>1, <3>2, <4>2, StepTypes DEF HiddenInv
        <5> QED  BY <1>1, <3>2, <5>1 DEF Settled
      <4>3. CASE d # c
        <5>1. cleared'[d] = cleared[d]
          BY <1>1, <4>3, StepTypes DEF HiddenInv
        <5> QED  BY <1>1, <3>2, <5>1 DEF Settled
      <4> QED  BY <4>1, <4>2, <4>3
    <3> QED  BY <1>5, <3>1, <3>2 DEF InTime, Settled
  <2> QED  BY <2>2, <2>3 DEF InTime
<1> QED  BY <1>4, <1>5

LEMMA SaveDoneKeeps ==
  ASSUME HiddenInv, NEW c \in SettingsRequests, SaveDone(c)
  PROVE  PassInv' /\ (InTime => InTime')
<1>1. /\ op[c] = "cached" /\ cleared[c] = 3
      /\ op' = [op EXCEPT ![c] = "idle"] /\ val' = [val EXCEPT ![c] = Default]
      /\ cleared' = [cleared EXCEPT ![c] = 0]
      /\ UNCHANGED <<cached, caches, step, todo>>
      /\ c \in Callers /\ c \notin Tasks
  BY TasksAreCallers DEF SaveDone, SaveReturns
<1>2. loaded' <=> loaded
  BY Zenon DEF SaveDone, SaveReturns
<1>3. PassInv'
  BY <1>1, <1>2, StepTypes DEF HiddenInv, PassInv
<1>4. ASSUME InTime  PROVE InTime'
  <2>1. Stored => Stored'
    BY <1>1, StepTypes DEF Stored, HiddenInv
  <2>2. \A t \in Tasks : InPass(t)' => val'[t] = cached' \/ Stored'
    BY <1>1, <1>4, <2>1, StepTypes DEF InTime, InPass, HiddenInv
  <2>3. ASSUME NEW k \in Caches  PROVE Settled(k)'
    <3>1. k <= 3
      BY DEF Caches
    <3> QED  BY <1>1, <1>4, <2>1, <3>1, StepTypes DEF InTime, Settled, HiddenInv
  <2> QED  BY <2>2, <2>3 DEF InTime
<1> QED  BY <1>3, <1>4

-----------------------------------------------------------------------------
(* Tasks.                                                                  *)

\* A step of t that writes no entry and leaves the settings calls alone.
LEMMA QuietTask ==
  ASSUME HiddenInv, NEW t \in Tasks, UNCHANGED settingsVars, UNCHANGED <<cleared>>,
         NEW s, step' = [step EXCEPT ![t] = s],
         s \in PassSteps => step[t] \in PassSteps \/ op[t] # "holding",
         s \in {"unmade", "queued"} => op[t] = "idle",
         s \in {"listing", "writing"} =>
            op[t] = "holding" /\ Hidden(val[t]) = val[t].ExcludedPods,
         \A u \in Tasks \ {t} : todo'[u] = todo[u],
         \A e \in todo'[t] : s = "writing" /\ e[2] \notin val[t].ExcludedPods,
         \A k \in Caches : caches'[k] \subseteq caches[k]
  PROVE  PassInv' /\ (InTime => InTime')
<1>1. UNCHANGED <<op, val, cached, cleared>> /\ (loaded' <=> loaded)
  BY Zenon DEF settingsVars
<1>2. PassInv'
  <2>1. \A u \in Tasks : step'[u] \in {"listing", "writing"} =>
           op'[u] = "holding" /\ Hidden(val'[u]) = val'[u].ExcludedPods
    BY <1>1, StepTypes DEF HiddenInv, PassInv
  <2>2. \A u \in Tasks : \A e \in todo'[u] :
           step'[u] = "writing" /\ e[2] \notin val'[u].ExcludedPods
    BY <1>1, StepTypes DEF HiddenInv, PassInv
  <2>3. ~loaded' => \A k \in Caches : caches'[k] = {}
    BY <1>1 DEF HiddenInv, PassInv
  <2>4. \A c \in Callers : cleared'[c] # 0 => op'[c] = "cached"
    BY <1>1 DEF HiddenInv, PassInv
  <2>5. \A u \in Tasks : step'[u] \in {"unmade", "queued"} => op'[u] = "idle"
    BY <1>1, StepTypes DEF HiddenInv, PassInv
  <2> QED  BY <1>1, <2>1, <2>2, <2>3, <2>4, <2>5 DEF PassInv
<1>3. ASSUME InTime  PROVE InTime'
  <2>1. Stored' <=> Stored
    BY <1>1 DEF Stored
  <2>2. \A u \in Tasks : InPass(u)' => InPass(u)
    BY <1>1, StepTypes DEF InPass, HiddenInv
  <2>3. \A u \in Tasks : InPass(u)' => val'[u] = cached' \/ Stored'
    BY <1>1, <1>3, <2>1, <2>2 DEF InTime
  <2>4. \A k \in Caches : Settled(k)'
    BY <1>1, <1>3, <2>1 DEF InTime, Settled
  <2> QED  BY <2>3, <2>4 DEF InTime
<1> QED  BY <1>2, <1>3

LEMMA WriteEntryKeeps ==
  ASSUME HiddenInv, NEW t \in Tasks, WriteEntry(t)
  PROVE  PassInv' /\ (InTime => InTime')
<1>1. PICK e \in todo[t] : /\ caches' = [caches EXCEPT ![e[1]] = @ \cup {e[2]}]
                           /\ todo' = [todo EXCEPT ![t] = @ \ {e}]
  BY DEF WriteEntry
<1>2. /\ step[t] = "writing" /\ step' = [step EXCEPT ![t] = "writing"]
      /\ UNCHANGED <<cleared, op, val, cached>>
  BY DEF WriteEntry, Go, settingsVars
<1>3. loaded' <=> loaded
  BY Zenon DEF WriteEntry, settingsVars
<1>4. /\ op[t] = "holding" /\ Hidden(val[t]) = val[t].ExcludedPods
      /\ e[2] \notin Hidden(val[t]) /\ e[1] \in Caches /\ InPass(t)
  BY <1>1, <1>2, StepTypes DEF HiddenInv, PassInv, InPass, PassSteps
<1>5. loaded
  BY <1>4, StepTypes DEF HiddenInv, TypeInv, SettingsInv
<1>6. PassInv'
  BY <1>1, <1>2, <1>3, <1>5, StepTypes DEF HiddenInv, PassInv
<1>7. ASSUME InTime  PROVE InTime'
  <2>1. Stored' <=> Stored
    BY <1>2 DEF Stored
  <2>2. \A u \in Tasks : InPass(u)' => val'[u] = cached' \/ Stored'
    BY <1>2, <1>7, <2>1, StepTypes DEF InTime, InPass, PassSteps, HiddenInv
  <2>3. ASSUME NEW k \in Caches  PROVE Settled(k)'
    <3>1. CASE Stored
      BY <2>1, <3>1 DEF Settled
    <3>2. CASE ~Stored
      <4>1. val[t] = cached
        BY <1>4, <1>7, <3>2 DEF InTime
      <4>2. caches'[k] \cap Hidden(cached) = caches[k] \cap Hidden(cached)
        BY <1>1, <1>4, <4>1, StepTypes DEF HiddenInv
      <4> QED  BY <1>2, <1>7, <4>2, <2>1 DEF InTime, Settled
    <3> QED  BY <3>1, <3>2
  <2> QED  BY <2>2, <2>3 DEF InTime
<1> QED  BY <1>6, <1>7

LEMMA DelayEndsKeeps ==
  ASSUME HiddenInv, NEW t \in Tasks, DelayEnds(t)
  PROVE  PassInv' /\ (InTime => InTime')
<1>1. PICK s \in {"ended", "head"} : step' = [step EXCEPT ![t] = s]
  BY DEF DelayEnds, Go
<1>2. /\ op[t] = "holding" /\ step[t] = "delay"
      /\ op' = [op EXCEPT ![t] = "idle"] /\ val' = [val EXCEPT ![t] = Default]
      /\ UNCHANGED <<cached, caches, todo, cleared>>
      /\ t \in Callers
  BY TasksAreCallers DEF DelayEnds, Release, Go
<1>3. loaded' <=> loaded
  BY Zenon DEF DelayEnds, Release
<1>4. PassInv'
  BY <1>1, <1>2, <1>3, StepTypes DEF HiddenInv, PassInv
<1>5. ASSUME InTime  PROVE InTime'
  <2>1. Stored => Stored'
    BY <1>2, StepTypes DEF Stored, HiddenInv
  <2>2. \A u \in Tasks : InPass(u)' => val'[u] = cached' \/ Stored'
    BY <1>1, <1>2, <1>5, <2>1, StepTypes DEF InTime, InPass, HiddenInv
  <2>3. \A k \in Caches : Settled(k)'
    BY <1>2, <1>5, <2>1, StepTypes DEF InTime, Settled, HiddenInv
  <2> QED  BY <2>2, <2>3 DEF InTime
<1> QED  BY <1>4, <1>5

LEMMA TaskKeeps ==
  ASSUME HiddenInv, NEW t \in Tasks, TaskStep(t)
  PROVE  PassInv' /\ (~raced' /\ ~straddled' => InTime')
<1>1. CASE SettingsCall(t)
  BY <1>1, TasksAreCallers, SettingsCallKeeps
<1>2. CASE WriteEntry(t) \/ DelayEnds(t)
  <2>1. UNCHANGED <<raced, straddled>>
    BY <1>2 DEF WriteEntry, DelayEnds, Release, Go, settingsVars
  <2>2. PassInv' /\ (InTime => InTime')
    BY <1>2, WriteEntryKeeps, DelayEndsKeeps
  <2> QED  BY <2>1, <2>2, Zenon DEF HiddenInv
<1>3. CASE \/ Begin(t) \/ LoopEnds(t) \/ PassBegins(t) \/ ListPods(t) \/ PassFails(t) \/ PassBreaks(t)
           \/ Written(t) \/ DropGone(t)
  <2>0. UNCHANGED settingsVars /\ UNCHANGED <<raced, straddled, cleared>>
    BY <1>3 DEF Begin, LoopEnds, PassBegins, ListPods, PassFails, PassBreaks, Written,
       DropGone, Go, settingsVars
  <2> SUFFICES PassInv' /\ (InTime => InTime')
    BY <2>0, Zenon DEF HiddenInv
  <2> USE StepTypes
  <2>1. todo[t] = {} \/ step[t] = "writing"
    BY DEF HiddenInv, PassInv
  <2>2. CASE Begin(t)
    <3>1. CASE Cancelled(t)
      BY <2>0, <2>1, <2>2, <3>1, QuietTask DEF Begin, Go, PassSteps, HiddenInv
    <3>2. CASE ~Cancelled(t)
      <4>1. op[t] # "holding"
        BY <2>2 DEF Begin, Go, HiddenInv, PassInv
      <4> QED  BY <2>0, <2>1, <2>2, <3>2, <4>1, QuietTask DEF Begin, Go, PassSteps, HiddenInv
    <3> QED  BY <3>1, <3>2
  <2>3. CASE LoopEnds(t)
    BY <2>0, <2>1, <2>3, QuietTask DEF LoopEnds, Go, PassSteps, HiddenInv
  <2>4. CASE PassBegins(t)
    <3>1. CASE val[t].Enabled
      <4>1. Hidden(val[t]) = val[t].ExcludedPods
        BY <3>1, Zenon DEF Hidden
      <4>2. step' = [step EXCEPT ![t] = "listing"]
        BY <2>4, <3>1, Zenon DEF PassBegins, Go
      <4> QED  BY <2>0, <2>1, <2>4, <4>1, <4>2, QuietTask DEF PassBegins, Go, PassSteps, HiddenInv
    <3>2. CASE ~val[t].Enabled
      <4>1. step' = [step EXCEPT ![t] = "delay"]
        BY <2>4, <3>2, Zenon DEF PassBegins, Go
      <4> QED  BY <2>0, <2>1, <2>4, <4>1, QuietTask DEF PassBegins, Go, PassSteps, HiddenInv
    <3> QED  BY <3>1, <3>2
  <2>5. CASE ListPods(t)
    <3>1. PICK known \in SUBSET Wanted(t) :
             todo' = [todo EXCEPT ![t] = CachesOf(t) \X known]
      BY <2>5 DEF ListPods
    <3>2. \A e \in CachesOf(t) \X known : e[2] \notin val[t].ExcludedPods
      BY DEF Wanted
    <3>3. op[t] = "holding" /\ Hidden(val[t]) = val[t].ExcludedPods
      BY <2>5 DEF ListPods, Go, HiddenInv, PassInv
    <3> QED  BY <2>0, <2>5, <3>1, <3>2, <3>3, QuietTask DEF ListPods, Go, PassSteps, HiddenInv
  <2>6. CASE PassFails(t)
    <3>0. todo[t] = {}
      BY <2>6 DEF PassFails, Go, HiddenInv, PassInv
    <3>1. PICK s \in {"ended", "delay"} : step' = [step EXCEPT ![t] = s]
      BY <2>6 DEF PassFails, Go
    <3> QED  BY <2>0, <2>6, <3>0, <3>1, QuietTask DEF PassFails, Go, PassSteps, HiddenInv
  <2>7. CASE Written(t)
    BY <2>0, <2>7, QuietTask DEF Written, Go, PassSteps, HiddenInv
  <2>8. CASE DropGone(t)
    BY <2>0, <2>1, <2>8, QuietTask DEF DropGone, Go, PassSteps, HiddenInv
  <2>9. CASE PassBreaks(t)
    BY <2>0, <2>9, QuietTask DEF PassBreaks, Go, PassSteps, HiddenInv
  <2> QED  BY <1>3, <2>2, <2>3, <2>4, <2>5, <2>6, <2>7, <2>8, <2>9
<1> QED  BY <1>1, <1>2, <1>3, Zenon DEF TaskStep

LEMMA OtherKeeps ==
  ASSUME HiddenInv, Start \/ Stop \/ PodChanges \/ UNCHANGED podMonitorVars
  PROVE  PassInv' /\ (~raced' /\ ~straddled' => InTime')
<1>1. /\ UNCHANGED settingsVars /\ UNCHANGED <<caches, todo, cleared, straddled>>
      /\ UNCHANGED <<op, val, cached, raced>>
  BY DEF Start, Stop, PodChanges, podMonitorVars, monitorVars, settingsVars
<1>2. loaded' <=> loaded
  BY <1>1, Zenon DEF settingsVars
<1>3. \A t \in Tasks : \/ step'[t] = step[t]
                       \/ step[t] = "unmade" /\ step'[t] = "queued"
  <2>1. CASE Start
    BY <2>1, StepTypes DEF Start, Tasks, HiddenInv
  <2>2. CASE Stop \/ PodChanges \/ UNCHANGED podMonitorVars
    BY <2>2 DEF Stop, PodChanges, podMonitorVars, monitorVars
  <2> QED  BY <2>1, <2>2
<1>4. PassInv'
  BY <1>1, <1>2, <1>3 DEF HiddenInv, PassInv
<1>5. InTime => InTime'
  <2>1. Stored' <=> Stored
    BY <1>1 DEF Stored
  <2>2. \A t \in Tasks : InPass(t)' => InPass(t)
    BY <1>1, <1>3 DEF InPass, PassSteps
  <2> QED  BY <1>1, <2>1, <2>2 DEF InTime, Settled
<1> QED  BY <1>1, <1>4, <1>5, Zenon DEF HiddenInv

LEMMA RequestKeeps ==
  ASSUME HiddenInv, NEW c \in SettingsRequests, RequestStep(c)
  PROVE  PassInv' /\ (~raced' /\ ~straddled' => InTime')
<1>1. CASE SettingsCall(c)
  BY <1>1, TasksAreCallers, SettingsCallKeeps
<1>2. CASE SettingsCached(c)
  BY <1>2, SettingsCachedKeeps
<1>3. CASE OnSettingsChanged(c) \/ SaveDone(c)
  <2>1. UNCHANGED <<raced, straddled>>
    BY <1>3 DEF OnSettingsChanged, SaveDone, SaveReturns, settingsVars
  <2>2. PassInv' /\ (InTime => InTime')
    BY <1>3, EventKeeps, SaveDoneKeeps
  <2> QED  BY <2>1, <2>2, Zenon DEF HiddenInv
<1> QED  BY <1>1, <1>2, <1>3, Zenon DEF RequestStep

LEMMA HiddenNext == HiddenInv /\ [MonitorNext]_podMonitorVars => HiddenInv'
<1> SUFFICES ASSUME HiddenInv, [MonitorNext]_podMonitorVars  PROVE HiddenInv'
  OBVIOUS
<1>1. TypeInv'
  BY TypeNext DEF HiddenInv
<1>2. PassInv' /\ (~raced' /\ ~straddled' => InTime')
  BY TaskKeeps, RequestKeeps, OtherKeeps, Zenon DEF MonitorNext
<1> QED  BY <1>1, <1>2, Zenon DEF HiddenInv

\* The exclusion of pods works: for any number of requests, starts and pods, no
\* cache keeps an entry that the settings hide once the Saves are done, unless
\* a pass was under way when settings were replaced, or a load raced a Save.
THEOREM HiddenPods == MonitorSpec => []HiddenPodsAreDropped
<1>1. HiddenInv => HiddenPodsAreDropped
  <2> SUFFICES ASSUME HiddenInv, ~raced, ~straddled, ~SavePending, NEW k \in Caches
               PROVE  caches[k] \cap Hidden(cached) = {}
    BY DEF HiddenPodsAreDropped
  <2>1. Settled(k)
    BY DEF HiddenInv, InTime
  <2> QED  BY <2>1 DEF Settled, Stored, SavePending
<1> QED  BY HiddenInit, HiddenNext, <1>1, PTL DEF MonitorSpec

-----------------------------------------------------------------------------
(* The history of the cluster's processors: the queue of samples.           *)

Samples == [at : Nat, cpu : Percents]

Ordered(q) == \A i, j \in 1..Len(q) : i < j => q[i].at <= q[j].at

\* A sample of the clock so far; the cutoff is the window's before the last sample.
QueueInv ==
    /\ now \in Nat /\ cutoff \in Int /\ overtaken \in BOOLEAN
    /\ reading \in [Pollers -> Samples \cup {NoReading}]
    /\ taken \in Seq(Samples)
    /\ samples \in Seq(Samples)
    /\ taken = <<>> => cutoff = -Window /\ samples = <<>>
    /\ ~overtaken =>
        /\ Ordered(taken)
        /\ taken # <<>> => cutoff = taken[Len(taken)].at - Window

CpuInv == QueueInv /\ QueueIsTheWindow

LEMMA CpuConstants ==
    Window \in Nat /\ Window > 0 /\ BucketCount \in Nat /\ BucketCount > 0
BY CpuAssumption

\* What pruning leaves of a queue in order is its end from the first sample that is
\* young enough.
LEMMA PrunedIsTheEnd ==
    ASSUME NEW q \in Seq(Samples), Ordered(q), NEW limit \in Int,
           NEW young \in 1..Len(q), q[young].at >= limit
    PROVE  \E k \in 0..(Len(q) - 1) :
              /\ Pruned(q, limit) = SubSeq(q, k + 1, Len(q))
              /\ \A i \in 1..Len(q) : q[i].at >= limit <=> i > k
<1>. DEFINE kept == {i \in 1..Len(q) : q[i].at >= limit}
<1>1. kept \in SUBSET Nat /\ kept # {}
    OBVIOUS
<1>2. Min(kept) \in kept /\ \A m \in kept : Min(kept) <= m
    BY <1>1, MinIsLeast
<1>3. \A i : i \in kept <=> i \in 1..Len(q) /\ q[i].at >= limit
    OBVIOUS
<1>4. Pruned(q, limit) = SubSeq(q, Min(kept), Len(q))
    BY <1>1 DEF Pruned
<1>. HIDE DEF kept
<1>5. PICK k \in 0..(Len(q) - 1) : Min(kept) = k + 1
  <2>1. Min(kept) \in 1..Len(q) /\ Len(q) \in Nat
      BY <1>2, <1>3
  <2>2. \A m \in 1..Len(q) : m - 1 \in 0..(Len(q) - 1) /\ m = (m - 1) + 1
      BY <2>1
  <2>. QED
      BY <2>1, <2>2, Zenon
<1>6. k + 1 \in 1..Len(q) /\ q[k + 1].at >= limit /\ k \in Nat
    BY <1>2, <1>3, <1>5
<1>7. \A i \in 1..Len(q) : q[i].at \in Nat
  <2>1. \A i \in 1..Len(q) : q[i] \in Samples
      BY ElementOfSeq
  <2>. QED
      BY <2>1 DEF Samples
<1>8. ASSUME NEW i \in 1..Len(q) PROVE q[i].at >= limit <=> i > k
  <2>1. CASE i <= k
    <3>1. ~(k + 1 <= i)
        BY <1>6, <2>1
    <3>2. i \notin kept
        BY <1>2, <1>5, <3>1
    <3>. QED
        BY <1>3, <1>6, <2>1, <3>2
  <2>2. CASE i > k
    <3>1. q[k + 1].at <= q[i].at
      <4>1. CASE i = k + 1
          BY <1>7, <4>1
      <4>2. CASE k + 1 < i
          BY <1>6, <4>2 DEF Ordered
      <4>. QED
          BY <1>6, <2>2, <4>1, <4>2
    <3>. QED
      <4>1. q[k + 1].at \in Nat /\ q[i].at \in Nat
          BY <1>6, <1>7
      <4>2. q[i].at >= limit
        <5>1. \A a, b \in Nat : a >= limit /\ a <= b => b >= limit
            OBVIOUS
        <5>. QED
            BY <1>6, <3>1, <4>1, <5>1, Zenon
      <4>. QED
          BY <2>2, <4>2
  <2>. QED
      BY <1>6, <2>1, <2>2
<1>. QED
    BY <1>4, <1>5, <1>8

LEMMA PrunedIsASequence ==
    ASSUME NEW q \in Seq(Samples), NEW limit \in Int
    PROVE  Pruned(q, limit) \in Seq(Samples)
<1>. DEFINE kept == {i \in 1..Len(q) : q[i].at >= limit}
<1>1. CASE kept = {}
    BY <1>1 DEF Pruned
<1>2. CASE kept # {}
  <2>1. kept \in SUBSET Nat
      OBVIOUS
  <2>2. Min(kept) \in 1..Len(q) /\ Len(q) \in Nat
    <3>1. Min(kept) \in kept
        BY <1>2, <2>1, MinIsLeast
    <3>. QED
        BY <3>1
  <2>3. \A i \in Min(kept)..Len(q) : q[i] \in Samples
      BY <2>2, ElementOfSeq
  <2>4. SubSeq(q, Min(kept), Len(q)) \in Seq(Samples)
      BY <2>2, <2>3, SubSeqProperties
  <2>. QED
      BY <1>2, <2>4 DEF Pruned
<1>. QED
    BY <1>1, <1>2

\* The end of a queue, element by element.
LEMMA EndIs ==
    ASSUME NEW S, NEW q \in Seq(S), NEW k \in 0..Len(q), NEW e
    PROVE  e = SubSeq(q, k + 1, Len(q)) <=>
              /\ e \in Seq(S) /\ Len(e) = Len(q) - k
              /\ \A i \in 1..Len(e) : e[i] = q[k + i]
<1>. DEFINE n == Len(q)
            end == SubSeq(q, k + 1, n)
<1>1. n \in Nat /\ k \in Nat /\ k <= n /\ (\A i \in (k + 1)..n : q[i] \in S)
    BY ElementOfSeq
<1>2. /\ end \in Seq(S) /\ Len(end) = IF k + 1 <= n THEN n - (k + 1) + 1 ELSE 0
      /\ \A i \in 1..(n - (k + 1) + 1) : end[i] = q[(k + 1) + i - 1]
  <2>. HIDE DEF n
  <2>. QED
      BY <1>1, SubSeqProperties
<1>. HIDE DEF n, end
<1>3. Len(end) = n - k
    BY <1>1, <1>2
<1>4. \A i \in 1..Len(end) : end[i] = q[k + i]
  <2>. TAKE i \in 1..Len(end)
  <2>1. i \in 1..(n - (k + 1) + 1) /\ (k + 1) + i - 1 = k + i
      BY <1>1, <1>3
  <2>. QED
      BY <1>2, <2>1
<1>5. ASSUME e \in Seq(S), Len(e) = n - k, \A i \in 1..Len(e) : e[i] = q[k + i]
      PROVE  e = end
    BY <1>2, <1>3, <1>4, <1>5, SeqEqual
<1>. QED
    BY <1>2, <1>3, <1>4, <1>5 DEF n, end

LEMMA CpuStart == ASSUME HistoryInit PROVE CpuInv
<1>1. QueueInv
  <2>1. now \in Nat /\ cutoff \in Int /\ cutoff = -Window
      BY CpuConstants DEF HistoryInit
  <2>2. taken = <<>> /\ samples = <<>> /\ <<>> \in Seq(Samples) /\ Ordered(<<>>)
      BY DEF HistoryInit, Ordered
  <2>3. reading \in [Pollers -> Samples \cup {NoReading}] /\ overtaken \in BOOLEAN
      BY DEF HistoryInit
  <2>. QED
      BY <2>1, <2>2, <2>3 DEF QueueInv
<1>2. QueueIsTheWindow
  <2>1. samples = SubSeq(taken, 0 + 1, Len(taken)) /\ 0 \in 0..Len(taken)
      BY DEF HistoryInit
  <2>. QED
      BY <2>1 DEF HistoryInit, QueueIsTheWindow
<1>. QED
    BY <1>1, <1>2 DEF CpuInv

LEMMA UnchangedQueue ==
    ASSUME CpuInv, UNCHANGED <<samples, cutoff, taken, overtaken>>,
           now' \in Nat, reading' \in [Pollers -> Samples \cup {NoReading}]
    PROVE  CpuInv'
BY DEF CpuInv, QueueInv, QueueIsTheWindow, Ordered, Samples

LEMMA DroppingIsKept ==
    ASSUME CpuInv, Dropped
    PROVE  CpuInv'
<1>1. QueueInv'
  <2>1. cutoff' \in Int /\ cutoff' = -Window
      BY CpuConstants DEF Dropped
  <2>3. overtaken' \in BOOLEAN /\ UNCHANGED <<now, reading>>
      BY DEF Dropped
  <2>2. taken' = <<>> /\ samples' = <<>> /\ <<>> \in Seq(Samples) /\ Ordered(<<>>)
      BY DEF Dropped, Ordered
  <2>. QED
      BY <2>1, <2>2, <2>3 DEF CpuInv, QueueInv
<1>2. QueueIsTheWindow'
  <2>1. samples' = SubSeq(taken', 0 + 1, Len(taken')) /\ 0 \in 0..Len(taken')
      BY DEF Dropped
  <2>. QED
      BY <2>1 DEF Dropped, QueueIsTheWindow
<1>. QED
    BY <1>1, <1>2 DEF CpuInv

LEMMA ReadingIsKept ==
    ASSUME CpuInv, NEW p \in Pollers, NEW cpu \in Percents, PollReads(p, cpu)
    PROVE  CpuInv'
<1>1. [at |-> now, cpu |-> cpu] \in Samples
    BY DEF CpuInv, QueueInv, Samples
<1>2. reading' \in [Pollers -> Samples \cup {NoReading}] /\ now' \in Nat
    BY <1>1 DEF CpuInv, QueueInv, PollReads
<1>. QED
    BY <1>2, UnchangedQueue DEF PollReads

\* A sample put behind an end of the samples taken makes an end of those taken then,
\* and pruning makes a shorter one.
LEMMA EnqueuingIsKept ==
    ASSUME CpuInv, NEW p \in Pollers, PollEnqueues(p)
    PROVE  CpuInv'
<1>. DEFINE r == reading[p]
            n == Len(taken)
            q == Append(samples, r)
<1>1. r \in Samples /\ r.at \in Nat
    BY DEF CpuInv, QueueInv, PollEnqueues, Samples
<1>2. /\ taken \in Seq(Samples) /\ samples \in Seq(Samples) /\ n \in Nat
      /\ now \in Nat /\ cutoff \in Int /\ overtaken \in BOOLEAN
    BY DEF CpuInv, QueueInv
<1>3. /\ cutoff' = r.at - Window /\ samples' = Pruned(q, cutoff')
      /\ taken' = Append(taken, r) /\ overtaken' = (overtaken \/ cutoff' < cutoff)
      /\ reading' = [reading EXCEPT ![p] = NoReading] /\ now' = now
    BY DEF PollEnqueues
<1>. HIDE DEF r
<1>4. cutoff' \in Int /\ r.at >= cutoff'
    BY <1>1, <1>3, CpuConstants
<1>5. /\ taken' \in Seq(Samples) /\ Len(taken') = n + 1
      /\ \A i \in 1..n : taken'[i] = taken[i]
      /\ taken'[n + 1] = r
    BY <1>1, <1>2, <1>3
<1>6. /\ q \in Seq(Samples) /\ Len(q) = Len(samples) + 1
      /\ \A i \in 1..Len(samples) : q[i] = samples[i]
      /\ q[Len(samples) + 1] = r
    BY <1>1, <1>2
<1>. HIDE DEF q
<1>7. \A i \in 1..n : taken[i].at \in Nat
  <2>1. \A i \in 1..n : taken[i] \in Samples
      BY <1>2, ElementOfSeq
  <2>. QED
      BY <2>1 DEF Samples
<1>8. samples' \in Seq(Samples)
    BY <1>3, <1>4, <1>6, PrunedIsASequence
<1>9. reading' \in [Pollers -> Samples \cup {NoReading}]
    BY <1>3 DEF CpuInv, QueueInv
<1>10. taken' # <<>>
    BY <1>2, <1>5
<1>11. ASSUME ~overtaken'
       PROVE  /\ ~overtaken /\ cutoff <= cutoff' /\ Ordered(taken) /\ Ordered(samples)
              /\ taken # <<>> => cutoff = taken[n].at - Window
              /\ \E k \in 0..n : /\ samples = SubSeq(taken, k + 1, n)
                                 /\ \A i \in 1..n : taken[i].at >= cutoff <=> i > k
  <2>1. ~overtaken /\ ~(cutoff' < cutoff)
      BY <1>3, <1>11, Zenon
  <2>2. cutoff <= cutoff'
      BY <1>2, <1>4, <2>1
  <2>. QED
      BY <2>1, <2>2 DEF CpuInv, QueueInv, QueueIsTheWindow, Ordered
<1>12. ASSUME ~overtaken' PROVE Ordered(taken')
  <2>1. ASSUME NEW i \in 1..n PROVE taken[i].at <= r.at
    <3>1. n \in 1..n /\ taken # <<>>
        BY <1>2
    <3>2. taken[n].at - Window <= r.at - Window
        BY <1>3, <1>11, <1>12, <3>1
    <3>3. taken[i].at <= taken[n].at
      <4>1. CASE i = n
          BY <1>7, <3>1, <4>1
      <4>2. CASE i < n
          BY <1>11, <1>12, <3>1, <4>2 DEF Ordered
      <4>. QED
          BY <1>2, <4>1, <4>2
    <3>4. taken[i].at \in Nat /\ taken[n].at \in Nat
        BY <1>7, <3>1
    <3>. QED
      <4>1. \A a, b, c \in Nat : a <= b /\ b - Window <= c - Window => a <= c
          BY CpuConstants
      <4>. QED
          BY <1>1, <3>2, <3>3, <3>4, <4>1, Zenon
  <2>2. SUFFICES ASSUME NEW i \in 1..(n + 1), NEW j \in 1..(n + 1), i < j
                 PROVE  taken'[i].at <= taken'[j].at
      BY <1>5 DEF Ordered
  <2>3. i \in 1..n /\ taken'[i] = taken[i]
      BY <1>2, <1>5, <2>2
  <2>4. CASE j = n + 1
      BY <1>5, <2>1, <2>3, <2>4
  <2>5. CASE j \in 1..n
      BY <1>5, <1>11, <1>12, <2>2, <2>3, <2>5 DEF Ordered
  <2>. QED
      BY <1>2, <2>4, <2>5
<1>13. QueueInv'
  <2>1. taken'[Len(taken')] = r
      BY <1>5
  <2>2. overtaken' \in BOOLEAN
      BY <1>2, <1>3, Zenon
  <2>. QED
      BY <1>2, <1>3, <1>4, <1>5, <1>8, <1>9, <1>10, <1>12, <2>1, <2>2 DEF QueueInv
<1>14. ASSUME ~overtaken'
       PROVE  \E k \in 0..Len(taken') :
                 /\ samples' = SubSeq(taken', k + 1, Len(taken'))
                 /\ \A i \in 1..Len(taken') : taken'[i].at >= cutoff' <=> i > k
  <2>1. PICK k \in 0..n : /\ samples = SubSeq(taken, k + 1, n)
                          /\ \A i \in 1..n : taken[i].at >= cutoff <=> i > k
      BY <1>11, <1>14
  <2>2. /\ Len(samples) = n - k
        /\ \A i \in 1..Len(samples) : samples[i] = taken[k + i]
      BY <1>2, <2>1, EndIs
  <2>3. Len(q) = n - k + 1 /\ \A i \in 1..Len(q) : q[i] = taken'[k + i]
    <3>1. Len(q) = n - k + 1 /\ k \in Nat /\ k <= n
        BY <1>2, <1>6, <2>2
    <3>2. ASSUME NEW i \in 1..Len(q) PROVE q[i] = taken'[k + i]
      <4>1. CASE i = Len(samples) + 1
        <5>1. k + i = n + 1
            BY <1>2, <2>2, <3>1, <4>1
        <5>. QED
            BY <1>5, <1>6, <4>1, <5>1
      <4>2. CASE i \in 1..Len(samples)
        <5>1. k + i \in 1..n
            BY <1>2, <2>2, <3>1, <4>2
        <5>. QED
            BY <1>5, <1>6, <2>2, <4>2, <5>1
      <4>. QED
          BY <1>2, <1>6, <3>1, <2>2, <4>1, <4>2
    <3>. QED
        BY <3>1, <3>2
  <2>4. k \in Nat /\ k <= n /\ Len(q) = n + 1 - k /\ Len(q) \in Nat
    <3>1. k \in Nat /\ k <= n /\ n \in Nat
        BY <1>2
    <3>2. Len(q) = n - k + 1
        BY <2>3
    <3>. QED
        BY <3>1, <3>2
  <2>5. Ordered(q)
    <3>1. ASSUME NEW i \in 1..Len(q), NEW j \in 1..Len(q), i < j PROVE q[i].at <= q[j].at
      <4>1. k + i \in 1..(n + 1) /\ k + j \in 1..(n + 1) /\ k + i < k + j
          BY <1>2, <2>4, <3>1
      <4>2. taken'[k + i].at <= taken'[k + j].at
          BY <1>5, <1>12, <1>14, <4>1 DEF Ordered
      <4>. QED
          BY <2>3, <4>2
    <3>. QED
        BY <3>1 DEF Ordered
  <2>6. Len(q) \in 1..Len(q) /\ q[Len(q)].at >= cutoff'
      BY <1>2, <1>4, <1>6, <2>4
  <2>7. PICK j \in 0..(Len(q) - 1) : /\ samples' = SubSeq(q, j + 1, Len(q))
                                     /\ \A i \in 1..Len(q) : q[i].at >= cutoff' <=> i > j
      BY <1>3, <1>4, <1>6, <2>5, <2>6, PrunedIsTheEnd
  <2>8. j \in 0..Len(q) /\ k + j \in 0..(n + 1) /\ j \in Nat
      BY <1>2, <2>4
  <2>9. /\ Len(samples') = Len(q) - j
        /\ \A i \in 1..Len(samples') : samples'[i] = q[j + i]
      BY <1>6, <2>7, <2>8, EndIs
  <2>10. samples' = SubSeq(taken', k + j + 1, Len(taken'))
    <3>1. Len(samples') = Len(taken') - (k + j)
        BY <1>2, <1>5, <2>4, <2>8, <2>9
    <3>2. ASSUME NEW i \in 1..Len(samples') PROVE samples'[i] = taken'[(k + j) + i]
      <4>1. j + i \in 1..Len(q) /\ k + (j + i) = (k + j) + i
          BY <2>4, <2>8, <2>9
      <4>. QED
          BY <2>3, <2>9, <4>1
    <3>3. k + j \in 0..Len(taken')
        BY <1>5, <2>8
    <3>. QED
        BY <1>5, <1>8, <3>1, <3>2, <3>3, EndIs
  <2>11. ASSUME NEW i \in 1..(n + 1) PROVE taken'[i].at >= cutoff' <=> i > k + j
    <3>1. CASE i <= k
      <4>1. i \in 1..n /\ ~(i > k) /\ ~(i > k + j)
          BY <1>2, <2>4, <2>8, <3>1
      <4>2. ~(taken[i].at >= cutoff)
          BY <2>1, <4>1
      <4>3. taken[i].at \in Nat
          BY <1>7, <4>1
      <4>4. ~(taken[i].at >= cutoff')
        <5>1. cutoff <= cutoff'
            BY <1>11, <1>14
        <5>2. \A a \in Nat : ~(a >= cutoff) => ~(a >= cutoff')
            BY <1>2, <1>4, <5>1
        <5>. QED
            BY <4>2, <4>3, <5>2, Zenon
      <4>. QED
          BY <1>5, <4>1, <4>4
    <3>2. CASE i > k
      <4>1. i - k \in 1..Len(q) /\ k + (i - k) = i /\ (i - k > j <=> i > k + j)
          BY <1>2, <2>4, <2>8, <3>2
      <4>. QED
          BY <2>3, <2>7, <4>1
    <3>. QED
        BY <2>4, <3>1, <3>2
  <2>. QED
      BY <1>5, <2>8, <2>10, <2>11
<1>15. ASSUME ~overtaken', NEW i \in 1..Len(samples'), NEW j \in 1..Len(samples'), i < j
       PROVE  samples'[i].at <= samples'[j].at
  <2>1. PICK k \in 0..Len(taken') : samples' = SubSeq(taken', k + 1, Len(taken'))
      BY <1>14, <1>15
  <2>2. /\ Len(samples') = Len(taken') - k
        /\ samples'[i] = taken'[k + i] /\ samples'[j] = taken'[k + j]
      BY <1>5, <2>1, EndIs
  <2>3. k + i \in 1..Len(taken') /\ k + j \in 1..Len(taken') /\ k + i < k + j
      BY <1>2, <1>5, <1>15, <2>2
  <2>. QED
      BY <1>12, <1>15, <2>2, <2>3 DEF Ordered
<1>16. QueueIsTheWindow'
    BY <1>14, <1>15 DEF QueueIsTheWindow
<1>. QED
    BY <1>13, <1>16 DEF CpuInv

LEMMA CpuStep == ASSUME CpuInv, [HistoryNext]_historyVars PROVE CpuInv'
<1>1. now \in Nat /\ reading \in [Pollers -> Samples \cup {NoReading}]
    BY DEF CpuInv, QueueInv
<1>2. CASE ClockTicks
  <2>1. now' \in Nat
      BY <1>1, <1>2 DEF ClockTicks
  <2>. QED
      BY <1>1, <1>2, <2>1, UnchangedQueue DEF ClockTicks
<1>3. CASE UNCHANGED historyVars
    BY <1>1, <1>3, UnchangedQueue DEF historyVars
<1>. QED
    BY <1>2, <1>3, DroppingIsKept, EnqueuingIsKept, ReadingIsKept DEF HistoryNext

\* RecordClusterCpu and GetClusterCpuHistory: as long as no sample is overtaken by a
\* younger one, the queue is what was taken within the window of the last sample.
THEOREM QueueIsTheWindowHolds == HistorySpec => []QueueIsTheWindow
<1>1. HistoryInit => CpuInv
    BY CpuStart
<1>2. CpuInv /\ [HistoryNext]_historyVars => CpuInv'
    BY CpuStep
<1>3. CpuInv => QueueIsTheWindow
    BY DEF CpuInv
<1>. QED
    BY <1>1, <1>2, <1>3, PTL DEF HistorySpec

-----------------------------------------------------------------------------
(* The line drawn of the history.                                           *)

\* What the drawing takes its scale from.
Top(series) == Max({series[k] : k \in 1..Len(series)} \cup {1})

LEMMA TopIsHighest ==
    ASSUME NEW series \in Seq(Nat), \A k \in 1..Len(series) : series[k] <= 100
    PROVE  /\ Top(series) \in Nat /\ 1 <= Top(series) /\ Top(series) <= 100
           /\ \A k \in 1..Len(series) : series[k] \in Nat /\ series[k] <= Top(series)
<1>. DEFINE T == {series[k] : k \in 1..Len(series)} \cup {1}
<1>1. \A k \in 1..Len(series) : series[k] \in Nat
    BY ElementOfSeq
<1>2. T \in SUBSET Nat /\ T # {}
    BY <1>1
<1>3. \A x \in T : x <= 100
    OBVIOUS
<1>4. Max(T) \in T /\ \A x \in T : x <= Max(T)
    BY <1>2, <1>3, MaxIsGreatest
<1>5. 1 \in T /\ \A k \in 1..Len(series) : series[k] \in T
    OBVIOUS
<1>6. Top(series) = Max(T)
    BY DEF Top
<1>. HIDE DEF T
<1>. QED
    BY <1>1, <1>2, <1>3, <1>4, <1>5, <1>6

\* The height a value of the row is drawn at, under the row's highest value.
HeightOf(top, value) == 100 + (1800 * (top - value)) \div top

LEMMA HeightFalls ==
    ASSUME NEW top \in Nat, top > 0, top <= 100,
           NEW x \in Nat, x <= top, NEW y \in Nat, y <= top
    PROVE  /\ HeightOf(top, x) \in Int
           /\ 100 <= HeightOf(top, x) /\ HeightOf(top, x) <= 1900
           /\ x > y => HeightOf(top, x) < HeightOf(top, y)
<1>. DEFINE a == 1800 * (top - x)
            b == 1800 * (top - y)
<1>1. a \in Nat /\ a <= 1800 * top /\ a \in Int /\ b \in Int
    OBVIOUS
<1>2. x > y => a + top <= b
    OBVIOUS
<1>3. HeightOf(top, x) = 100 + a \div top /\ HeightOf(top, y) = 100 + b \div top
    BY DEF HeightOf
<1>. HIDE DEF a, b
<1>4. a \div top \in Nat /\ a \div top <= 1800
    BY <1>1, QuotientWithin
<1>5. x > y => a \div top < b \div top
    BY <1>1, <1>2, QuotientRises
<1>6. b \div top \in Int
    BY <1>1, Quotient
<1>. QED
    BY <1>3, <1>4, <1>5, <1>6

Scale(top) == top \in Nat /\ top > 0 /\ top <= 100
InTheBox(y) == y \in Int /\ Border <= y /\ y <= Height - Border

LEMMA HeightsAreOrdered ==
    \A top, x, y : Scale(top) /\ x \in Nat /\ y \in Nat /\ x <= top /\ y <= top =>
        /\ InTheBox(HeightOf(top, x))
        /\ x > y => HeightOf(top, x) < HeightOf(top, y)
<1>1. Border = 100 /\ Height - Border = 1900
    BY DEF Border, Height
<1>. QED
    BY <1>1, HeightFalls DEF Scale, InTheBox

\* cpuSparkline: the line runs from border to border, each value further on than the
\* one before and higher than those it exceeds, within the box, as long as there is a
\* pixel in a hundred for each value.
THEOREM LineShowsTheRow ==
    ASSUME NEW series \in Seq(Nat), \A k \in 1..Len(series) : series[k] <= 100,
           Len(series) >= 2, Len(series) <= 5801
    PROVE  /\ Len(CpuSparkline(series)) = Len(series)
           /\ CpuSparkline(series)[1].x = Border
           /\ CpuSparkline(series)[Len(series)].x = Width - Border
           /\ \A i, j \in 1..Len(series) :
                 /\ InTheBox(CpuSparkline(series)[i].y)
                 /\ i < j => CpuSparkline(series)[i].x < CpuSparkline(series)[j].x
                 /\ series[i] > series[j] =>
                        CpuSparkline(series)[i].y < CpuSparkline(series)[j].y
<1>. DEFINE n == Len(series)
            m == n - 1
            top == Top(series)
            line == CpuSparkline(series)
<1>1. n \in Nat /\ m \in Nat /\ m > 0 /\ m <= 5800 /\ n = m + 1 /\ ~(n < 2)
    OBVIOUS
<1>2. top \in Nat /\ top > 0 /\ top <= 100
        /\ \A k \in 1..n : series[k] \in Nat /\ series[k] <= top
    BY TopIsHighest
<1>3. line = [i \in 1..n |-> [x |-> 100 + ((i - 1) * 5800) \div m,
                              y |-> HeightOf(top, series[i])]]
  <2>1. Width - 2 * Border = 5800 /\ Height - 2 * Border = 1800 /\ Border = 100
      BY DEF Width, Height, Border
  <2>2. \A i \in 1..n : PointAt(series, i) = [x |-> 100 + ((i - 1) * 5800) \div m,
                                     y |-> HeightOf(top, series[i])]
      BY <2>1 DEF PointAt, Top, HeightOf
  <2>3. line = [i \in 1..n |-> PointAt(series, i)]
      BY <1>1 DEF CpuSparkline
  <2>. HIDE DEF n, m, top, line
  <2>. QED
      BY <2>2, <2>3
<1>. HIDE DEF n, m, top, line
<1>4. Len(line) = n
    BY <1>1, <1>3
<1>5. \A i \in 1..n : /\ line[i].x = 100 + ((i - 1) * 5800) \div m
                      /\ line[i].y = HeightOf(top, series[i])
    BY <1>3
<1>6. line[1].x = 100
  <2>1. (m * 0) \div m = 0
      BY <1>1, QuotientOfMultiple
  <2>2. (1 - 1) * 5800 = m * 0 /\ 1 \in 1..n
      BY <1>1
  <2>. QED
      BY <1>5, <2>1, <2>2
<1>7. line[n].x = 5900
  <2>1. (m * 5800) \div m = 5800
      BY <1>1, QuotientOfMultiple
  <2>2. (n - 1) * 5800 = m * 5800 /\ n \in 1..n
      BY <1>1
  <2>. QED
      BY <1>5, <2>1, <2>2
<1>8. \A i, j \in 1..n : /\ InTheBox(line[i].y)
                         /\ series[i] > series[j] => line[i].y < line[j].y
  <2>1. Scale(top) /\ \A k \in 1..n : series[k] \in Nat /\ series[k] <= top
      BY <1>2 DEF Scale
  <2>2. \A i, j \in 1..n :
           /\ InTheBox(HeightOf(top, series[i]))
           /\ series[i] > series[j] => HeightOf(top, series[i]) < HeightOf(top, series[j])
      BY <2>1, HeightsAreOrdered
  <2>3. \A k \in 1..n : line[k].y = HeightOf(top, series[k])
      BY <1>5
  <2>. QED
      BY <2>2, <2>3
<1>9. ASSUME NEW i \in 1..n, NEW j \in 1..n, i < j PROVE line[i].x < line[j].x
  <2>1. (i - 1) * 5800 + m <= (j - 1) * 5800
      BY <1>1, <1>9
  <2>2. (i - 1) * 5800 \in Int /\ (j - 1) * 5800 \in Int
      BY <1>1
  <2>3. ((i - 1) * 5800) \div m < ((j - 1) * 5800) \div m
      BY <1>1, <2>1, <2>2, QuotientRises
  <2>4. ((i - 1) * 5800) \div m \in Int /\ ((j - 1) * 5800) \div m \in Int
      BY <1>1, <2>2, Quotient
  <2>. QED
      BY <1>5, <2>3, <2>4
<1>10. Border = 100 /\ Width - Border = 5900
    BY DEF Border, Width
<1>11. Len(line) = n /\ line[1].x = Border /\ line[n].x = Width - Border
    BY <1>4, <1>6, <1>7, <1>10
<1>12. \A i, j \in 1..n : i < j => line[i].x < line[j].x
    BY <1>9
<1>. QED
    BY <1>8, <1>11, <1>12 DEF line, n

-----------------------------------------------------------------------------
(* The buckets of the history.                                              *)

LEMMA QuotientReaches ==
    ASSUME NEW a \in Int, NEW k \in Int, NEW b \in Nat, b > 0
    PROVE  k <= a \div b <=> k * b <= a
<1>1. PICK r \in Int : r = a \div b /\ r * b <= a /\ a < (r + 1) * b
    BY Quotient
<1>2. k * b \in Int /\ r * b \in Int /\ (r + 1) * b \in Int
    OBVIOUS
<1>3. k <= r => k * b <= r * b
    OBVIOUS
<1>4. r + 1 <= k => (r + 1) * b <= k * b
    OBVIOUS
<1>. QED
    BY <1>1, <1>2, <1>3, <1>4

Span == Window \div BucketCount

LEMMA SpanIsPositive == Span \in Nat /\ Span > 0
<1>1. Window \in Nat /\ Window > 0 /\ BucketCount \in Nat /\ BucketCount > 0
        /\ Window % BucketCount = 0
    BY CpuAssumption, CpuConstants
<1>2. Span \in Int /\ Span * BucketCount <= Window /\ Window < (Span + 1) * BucketCount
    BY <1>1, Quotient DEF Span
<1>3. Window >= BucketCount
  <2>1. Window < BucketCount => Window % BucketCount = Window
      BY <1>1
  <2>. QED
      BY <1>1, <2>1
<1>4. ASSUME Span <= 0 PROVE FALSE
  <2>1. (Span + 1) * BucketCount <= 1 * BucketCount
      BY <1>1, <1>2, <1>4
  <2>. QED
      BY <1>1, <1>2, <1>3, <2>1
<1>. QED
    BY <1>2, <1>4

LEMMA SmallerOfTwo ==
    ASSUME NEW a \in Int, NEW b \in Int
    PROVE  Min({a, b}) = IF a <= b THEN a ELSE b
BY DEF Min

\* The slot of a sample is a bucket: the one whose time has the sample, where the
\* first has no beginning and the last no end.
LEMMA SlotHasTheSample ==
    ASSUME NEW s, s.at \in Int, NEW t \in Int
    PROVE  /\ SlotOf(s, t) \in 1..BucketCount
           /\ \A b \in 1..BucketCount :
                 SlotOf(s, t) = b <=>
                    /\ b > 1 => s.at >= t - Window + (b - 1) * Span
                    /\ b < BucketCount => s.at < t - Window + b * Span
<1>. DEFINE offset == s.at - (t - Window)
            index == IF offset < 0 THEN 0 ELSE offset \div Span
<1>1. BucketCount \in Nat /\ BucketCount > 0 /\ Window \in Int /\ offset \in Int
    BY CpuConstants
<1>2. Span \in Nat /\ Span > 0
    BY SpanIsPositive
<1>3. SlotOf(s, t) = 1 + Min({index, BucketCount - 1})
    BY DEF SlotOf, Span
<1>4. index \in Nat /\ \A k \in Int : k > 0 => (k <= index <=> k * Span <= offset)
  <2>1. CASE offset < 0
    <3>1. \A k \in Int : k > 0 => k * Span > 0
        BY <1>2
    <3>. HIDE DEF offset
    <3>. QED
        BY <1>1, <1>2, <2>1, <3>1
  <2>2. CASE offset >= 0
    <3>. HIDE DEF offset
    <3>1. \A k \in Int : k <= offset \div Span <=> k * Span <= offset
        BY <1>1, <1>2, QuotientReaches
    <3>2. offset \div Span \in Int
        BY <1>1, <1>2, Quotient
    <3>3. 0 * Span <= offset
        BY <1>2, <2>2
    <3>4. 0 <= offset \div Span
        BY <3>1, <3>3
    <3>. QED
        BY <1>1, <2>2, <3>1, <3>2, <3>4
  <2>. HIDE DEF offset
  <2>. QED
      BY <1>1, <2>1, <2>2
<1>5. SlotOf(s, t) = IF index <= BucketCount - 1 THEN 1 + index ELSE BucketCount
  <2>. HIDE DEF index
  <2>1. Min({index, BucketCount - 1}) = IF index <= BucketCount - 1 THEN index
                                        ELSE BucketCount - 1
      BY <1>1, <1>4, SmallerOfTwo
  <2>. QED
      BY <1>1, <1>3, <1>4, <2>1
<1>6. SlotOf(s, t) \in 1..BucketCount
  <2>. HIDE DEF index
  <2>. QED
      BY <1>1, <1>4, <1>5
<1>7. ASSUME NEW b \in 1..BucketCount
      PROVE  SlotOf(s, t) = b <=>
                 /\ b > 1 => s.at >= t - Window + (b - 1) * Span
                 /\ b < BucketCount => s.at < t - Window + b * Span
  <2>1. SlotOf(s, t) = b <=> /\ b > 1 => b - 1 <= index
                             /\ b < BucketCount => ~(b <= index)
    <3>. HIDE DEF index
    <3>. QED
        BY <1>1, <1>4, <1>5
  <2>2. /\ b > 1 => (b - 1 <= index <=> (b - 1) * Span <= offset)
        /\ b <= index <=> b * Span <= offset
    <3>. HIDE DEF index, offset
    <3>. QED
        BY <1>1, <1>4
  <2>3. (b - 1) * Span \in Int /\ b * Span \in Int
      BY <1>1, <1>2
  <2>4. \A k \in Int : k <= offset <=> s.at >= t - Window + k
      BY <1>1
  <2>. HIDE DEF index, offset
  <2>5. \A k \in Int : ~(k <= offset) <=> s.at < t - Window + k
      BY <1>1, <2>4
  <2>. QED
      BY <2>1, <2>2, <2>3, <2>4, <2>5
<1>. QED
    BY <1>6, <1>7

\* The numbers up to n that are filled have a greatest one.
LEMMA LastFilled ==
    ASSUME NEW filled \in SUBSET Nat, NEW n \in Nat, NEW m \in filled, m <= n
    PROVE  LET source == Max({c \in filled : c <= n})
           IN  source \in filled /\ source <= n /\ \A c \in filled : c <= n => c <= source
<1>. DEFINE upTo == {c \in filled : c <= n}
<1>1. upTo \in SUBSET Nat /\ upTo # {} /\ \A c \in upTo : c <= n
    OBVIOUS
<1>2. Max(upTo) \in upTo /\ \A c \in upTo : c <= Max(upTo)
    BY <1>1, MaxIsGreatest
<1>3. \A c : c \in upTo <=> c \in filled /\ c <= n
    OBVIOUS
<1>. HIDE DEF upTo
<1>4. /\ Max(upTo) \in filled /\ Max(upTo) <= n
      /\ \A c \in filled : c <= n => c <= Max(upTo)
    BY <1>2, <1>3
<1>. QED
    BY <1>4 DEF upTo

\* What a row says after n buckets: those from the first that is filled on, each with
\* what the last filled one up to it has.
RowSays(made, n, first, source, mean) ==
    /\ Len(made) = IF n < first THEN 0 ELSE n - first + 1
    /\ \A k \in 1..Len(made) : made[k] = mean[source[first + k - 1]]

\* The next bucket of a row.
NextRow(made, n, filled, mean) ==
    IF n \in filled THEN Append(made, mean[n])
    ELSE IF made # <<>> THEN Append(made, Last(made))
    ELSE made

LEMMA NextRowSays ==
    ASSUME NEW filled \in SUBSET Nat, NEW first \in filled, NEW n \in Nat,
           \A c \in filled : first <= c,
           NEW mean, NEW source,
           \A m \in {n, n + 1} : first <= m =>
               /\ source[m] \in filled /\ source[m] <= m
               /\ \A c \in filled : c <= m => c <= source[m],
           NEW V, NEW made \in Seq(V), RowSays(made, n, first, source, mean),
           \A c \in filled : mean[c] \in V
    PROVE  /\ NextRow(made, n + 1, filled, mean) \in Seq(V)
           /\ RowSays(NextRow(made, n + 1, filled, mean), n + 1, first, source, mean)
<1>. DEFINE next == NextRow(made, n + 1, filled, mean)
<1>0. first \in Nat /\ Len(made) \in Nat /\ (\A k \in 1..Len(made) : made[k] \in V)
        /\ \A c \in filled : c \in Nat
    BY ElementOfSeq
<1>4. \A c \in filled : c \in Int
  <2>. HIDE DEF next
  <2>. QED
      BY <1>0
<1>1. CASE n + 1 \in filled
  <2>1. next = Append(made, mean[n + 1])
      BY <1>1 DEF NextRow
  <2>2. first <= n + 1 /\ mean[n + 1] \in V
      BY <1>1
  <2>3. source[n + 1] = n + 1
    <3>1. source[n + 1] \in filled /\ source[n + 1] <= n + 1 /\ n + 1 <= source[n + 1]
        BY <1>1, <2>2
    <3>2. source[n + 1] \in Int
        BY Zenon, <3>1, <1>4
    <3>. HIDE DEF next
    <3>. QED
        BY <3>1, <3>2
  <2>4. next \in Seq(V) /\ Len(next) = Len(made) + 1
      BY <2>1, <2>2, AppendProperties
  <2>5. \A k \in 1..Len(made) : next[k] = made[k]
      BY <2>1, <2>2, AppendProperties
  <2>6. next[Len(made) + 1] = mean[n + 1]
      BY <2>1, <2>2, AppendProperties
  <2>7. Len(made) + 1 = (n + 1) - first + 1
      BY <1>0, <2>2 DEF RowSays
  <2>8. \A k \in 1..Len(made) : made[k] = mean[source[first + k - 1]]
      BY DEF RowSays
  <2>9. first + (Len(made) + 1) - 1 = n + 1
      BY <1>0, <2>7
  <2>. HIDE DEF next
  <2>10. \A k \in 1..Len(next) : next[k] = mean[source[first + k - 1]]
    <3>. TAKE k \in 1..Len(next)
    <3>1. k \in 1..Len(made) \/ k = Len(made) + 1
        BY <1>0, <2>4
    <3>2. CASE k \in 1..Len(made)
        BY <2>5, <2>8, <3>2
    <3>3. CASE k = Len(made) + 1
        BY <2>3, <2>6, <2>9, <3>3
    <3>. QED
        BY <3>1, <3>2, <3>3
  <2>11. Len(next) = IF n + 1 < first THEN 0 ELSE (n + 1) - first + 1
      BY <1>0, <2>2, <2>4, <2>7
  <2>. QED
      BY <2>4, <2>10, <2>11 DEF RowSays, next
<1>2. CASE n + 1 \notin filled /\ made # <<>>
  <2>1. next = Append(made, Last(made))
      BY <1>2 DEF NextRow
  <2>2. Len(made) \in 1..Len(made) /\ Last(made) = made[Len(made)]
      BY <1>0, <1>2, EmptySeq DEF Last
  <2>3. first <= n /\ Len(made) = n - first + 1
      BY <1>0, <2>2 DEF RowSays
  <2>4. source[n + 1] = source[n]
    <3>. HIDE DEF next
    <3>1. source[n] \in filled /\ source[n] <= n /\ \A c \in filled : c <= n => c <= source[n]
        BY <2>3
    <3>2. first <= n + 1 /\ n + 1 \in Int
        BY <1>0, <2>3
    <3>3. source[n + 1] \in filled /\ source[n + 1] <= n + 1
            /\ \A c \in filled : c <= n + 1 => c <= source[n + 1]
        BY <3>2
    <3>4. source[n + 1] # n + 1
        BY <1>2, <3>3
    <3>5. source[n + 1] \in Int /\ source[n] \in Int
        BY <3>1, <3>3, <1>4
    <3>6. source[n + 1] <= n
        BY <3>3, <3>4, <3>5
    <3>7. source[n] <= n + 1
        BY <3>1, <3>5
    <3>8. source[n + 1] <= source[n] /\ source[n] <= source[n + 1]
        BY <3>1, <3>3, <3>6, <3>7
    <3>. QED
        BY <3>5, <3>8
  <2>5. made[Len(made)] = mean[source[n]] /\ made[Len(made)] \in V
    <3>1. first + Len(made) - 1 = n
        BY <1>0, <2>3
    <3>. QED
        BY <1>0, <2>2, <3>1 DEF RowSays
  <2>6. next \in Seq(V) /\ Len(next) = Len(made) + 1 /\ next[Len(made) + 1] = made[Len(made)]
      BY <2>1, <2>2, <2>5, AppendProperties
  <2>7. \A k \in 1..Len(made) : next[k] = made[k]
      BY <2>1, <2>2, <2>5, AppendProperties, SMTT(30)
  <2>8. \A k \in 1..Len(made) : made[k] = mean[source[first + k - 1]]
      BY DEF RowSays
  <2>9. first + (Len(made) + 1) - 1 = n + 1
      BY <1>0, <2>3
  <2>. HIDE DEF next
  <2>10. \A k \in 1..Len(next) : next[k] = mean[source[first + k - 1]]
    <3>. TAKE k \in 1..Len(next)
    <3>1. k \in 1..Len(made) \/ k = Len(made) + 1
        BY <1>0, <2>6
    <3>2. CASE k \in 1..Len(made)
        BY <2>7, <2>8, <3>2
    <3>3. CASE k = Len(made) + 1
        BY <2>4, <2>5, <2>6, <2>9, <3>3
    <3>. QED
        BY <3>1, <3>2, <3>3
  <2>11. Len(next) = IF n + 1 < first THEN 0 ELSE (n + 1) - first + 1
      BY <1>0, <2>3, <2>6
  <2>. QED
      BY <2>6, <2>10, <2>11 DEF RowSays, next
<1>3. CASE n + 1 \notin filled /\ made = <<>>
  <2>1. next = made /\ Len(made) = 0
      BY <1>3 DEF NextRow
  <2>2. n < first
      BY <1>0, <2>1 DEF RowSays
  <2>3. n + 1 < first
      BY <1>0, <1>3, <2>2
  <2>4. \A k \in 1..Len(next) : next[k] = mean[source[first + k - 1]]
      BY <2>1
  <2>. HIDE DEF next
  <2>5. Len(next) = IF n + 1 < first THEN 0 ELSE (n + 1) - first + 1
      BY <2>1, <2>3
  <2>6. next \in Seq(V)
      BY <2>1
  <2>. QED
      BY <2>4, <2>5, <2>6 DEF RowSays, next
<1>. QED
    BY <1>1, <1>2, <1>3

InHundred == 0..100

LEMMA MeanIsPercent ==
    ASSUME NEW q \in Seq(Samples), NEW set \in SUBSET (1..Len(q)), set # {}
    PROVE  Mean(set, q) \in InHundred
<1>. DEFINE f == [i \in set |-> q[i].cpu]
            sum == SumFunctionOnSet(f, set)
            n == Cardinality(set)
<1>1. \A i \in set : f[i] \in 0..100
  <2>1. \A i \in 1..Len(q) : q[i] \in Samples
      BY ElementOfSeq
  <2>2. \A s \in Samples : s.cpu \in 0..100
      BY CpuAssumption DEF Samples
  <2>. QED
      BY <2>1, <2>2
<1>2. IsFiniteSet(set) /\ n \in Nat /\ n > 0
  <2>1. IsFiniteSet(1..Len(q))
      BY FS_Interval
  <2>2. IsFiniteSet(set)
      BY <2>1, FS_Subset
  <2>3. Cardinality(set) \in Nat /\ Cardinality(set) # 0
      BY <2>2, FS_CardinalityType, FS_EmptySet
  <2>. QED
      BY <2>2, <2>3
<1>3. Mean(set, q) = sum \div n
    BY DEF Mean, SumFunction
<1>. HIDE DEF f, sum, n
<1>4. sum \in Nat /\ sum <= 100 * n
    BY <1>1, <1>2, SumBounds DEF sum, n
<1>5. PICK mean \in Nat : mean = sum \div n /\ mean <= 100
    BY <1>2, <1>4, QuotientWithin
<1>6. Mean(set, q) = mean
    BY <1>3, <1>5
<1>7. \A m \in Nat : m <= 100 => m \in 0..100
    OBVIOUS
<1>. QED
    BY <1>5, <1>6, <1>7, Zenon DEF InHundred

\* The buckets with a sample, and what comes of them.
Filled(q, t) == {b \in 1..BucketCount : InSlot(b, q, t) # {}}
Means(q, t) == [b \in Filled(q, t) |-> Mean(InSlot(b, q, t), q)]
Rows == Seq(InHundred)

\* The loop over the buckets, with what it has after each.
BucketLoop(r, q, t) ==
    /\ r[0] = <<>>
    /\ \A b \in 1..BucketCount : r[b] = NextRow(r[b - 1], b, Filled(q, t), Means(q, t))

LEMMA MeansArePercents ==
    ASSUME NEW q \in Seq(Samples), NEW t
    PROVE  \A b \in Filled(q, t) : Means(q, t)[b] \in InHundred
<1>1. \A b : InSlot(b, q, t) \in SUBSET (1..Len(q))
    BY DEF InSlot
<1>2. \A b \in Filled(q, t) : Mean(InSlot(b, q, t), q) \in InHundred
    BY <1>1, MeanIsPercent DEF Filled
<1>. QED
    BY <1>2 DEF Means

LEMMA NextRowIsARow ==
    ASSUME NEW filled, NEW mean, \A b \in filled : mean[b] \in InHundred,
           NEW made \in Rows, NEW n
    PROVE  NextRow(made, n, filled, mean) \in Rows
<1>1. CASE n \in filled
    BY <1>1, AppendProperties DEF NextRow, Rows
<1>2. CASE n \notin filled /\ made # <<>>
  <2>1. Last(made) \in InHundred
    <3>1. Len(made) \in 1..Len(made)
        BY <1>2, EmptySeq DEF Rows
    <3>. QED
        BY <3>1, ElementOfSeq DEF Last, Rows
  <2>. QED
      BY <1>2, <2>1, AppendProperties DEF NextRow, Rows
<1>3. CASE n \notin filled /\ made = <<>>
    BY <1>3 DEF NextRow
<1>. QED
    BY <1>1, <1>2, <1>3

LEMMA DownsampledIsTheLoop ==
    ASSUME NEW q \in Seq(Samples), NEW t, Len(q) > BucketCount
    PROVE  \E r : BucketLoop(r, q, t) /\ Downsampled(q, t) = r[BucketCount]
<1>. DEFINE Body(r, b) ==
                LET before == r[b - 1]
                IN  IF InSlot(b, q, t) # {} THEN Append(before, Mean(InSlot(b, q, t), q))
                    ELSE IF before # <<>> THEN Append(before, Last(before))
                    ELSE before
            Equation(r) == r = [b \in 0..BucketCount |-> IF b = 0 THEN <<>> ELSE Body(r, b)]
            chosen == CHOOSE r : Equation(r)
            N == BucketCount
            filled == Filled(q, t)
            mean == Means(q, t)
            next == [x \in Rows \X (1..N) |-> NextRow(x[1], x[2], filled, mean)]
<1>1. N \in Nat /\ N > 0 /\ Len(q) \in Nat /\ ~(Len(q) <= N)
    BY CpuConstants
<1>2. Downsampled(q, t) = chosen[N]
    BY <1>1 DEF Downsampled
<1>3. \A r, b : b \in 1..N => NextRow(r[b - 1], b, filled, mean) = Body(r, b)
    BY DEF NextRow, Filled, Means
<1>. HIDE DEF filled, mean, Body
<1>4. \E r : Equation(r)
  <2>1. next \in [Rows \X (1..N) -> Rows]
      BY MeansArePercents, NextRowIsARow DEF filled, mean
  <2>2. <<>> \in Rows
      BY DEF Rows
  <2>. HIDE DEF next, N
  <2>3. PICK r : Loop(N, Rows, <<>>, next, r)
      BY <1>1, <2>1, <2>2, LoopExists
  <2>4. ASSUME NEW b \in 1..N PROVE r[b] = NextRow(r[b - 1], b, filled, mean)
    <3>1. b - 1 \in 0..N
        BY <1>1
    <3>2. r[b - 1] \in Rows /\ r[b] = next[<<r[b - 1], b>>]
        BY <2>3, <3>1 DEF Loop
    <3>. QED
        BY <3>2 DEF next
  <2>5. r \in [0..N -> Rows] /\ r[0] = <<>>
      BY <2>3 DEF Loop
  <2>6. \A b \in 0..N : b = 0 \/ b \in 1..N
      BY <1>1
  <2>7. \A b \in 0..N : r[b] = IF b = 0 THEN <<>> ELSE Body(r, b)
      BY <1>3, <2>4, <2>5, <2>6
  <2>8. r = [b \in 0..N |-> IF b = 0 THEN <<>> ELSE Body(r, b)]
      BY <2>5, <2>7
  <2>. QED
      BY <2>8 DEF N
<1>. HIDE DEF Equation
<1>5. Equation(chosen)
    BY <1>4
<1>. HIDE DEF chosen, next
<1>6. chosen[0] = <<>>
    BY <1>1, <1>5 DEF Equation
<1>7. \A b \in 1..N : chosen[b] = NextRow(chosen[b - 1], b, filled, mean)
  <2>1. \A b \in 1..N : b \in 0..N /\ b # 0
      BY <1>1
  <2>2. \A b \in 1..N : chosen[b] = Body(chosen, b)
      BY <1>5, <2>1 DEF Equation
  <2>. QED
      BY <1>3, <2>2
<1>8. BucketLoop(chosen, q, t)
    BY <1>6, <1>7 DEF BucketLoop, filled, mean
<1>. QED
    BY <1>2, <1>8

\* GetCpuHistoryDownsampled: of more samples than buckets, each bucket from the first
\* with a sample on gives the mean of the last one up to it that has one.
LEMMA BucketsGiveMeans ==
    ASSUME NEW q \in Seq(Samples), NEW t \in Int, Len(q) > BucketCount
    PROVE  LET first == Min(Filled(q, t))
               Source(b) == Max({c \in Filled(q, t) : c <= b})
           IN  /\ Downsampled(q, t) \in Rows
               /\ first \in 1..BucketCount
               /\ Downsampled(q, t) =
                     [k \in 1..(BucketCount - first + 1) |->
                         Mean(InSlot(Source(first + k - 1), q, t), q)]
<1>. DEFINE N == BucketCount
            filled == Filled(q, t)
            mean == Means(q, t)
            first == Min(filled)
            source == [b \in 0..N |-> Max({c \in filled : c <= b})]
<1>1. N \in Nat /\ N > 0 /\ Len(q) \in Nat
    BY CpuConstants
<1>2. filled \in SUBSET (1..N) /\ filled \in SUBSET Nat
    BY DEF Filled
<1>3. filled # {}
  <2>1. 1 \in 1..Len(q)
      BY <1>1
  <2>2. q[1].at \in Int
    <3>1. q[1] \in Samples
        BY <2>1, ElementOfSeq
    <3>. QED
        BY <3>1 DEF Samples
  <2>3. SlotOf(q[1], t) \in 1..N
      BY <2>2, SlotHasTheSample
  <2>4. 1 \in InSlot(SlotOf(q[1], t), q, t)
      BY <2>1 DEF InSlot
  <2>. QED
      BY <2>3, <2>4 DEF Filled
<1>4. first \in filled /\ \A c \in filled : first <= c
    BY <1>2, <1>3, MinIsLeast
<1>5. first \in 1..N
    BY <1>2, <1>4
<1>6. PICK r : BucketLoop(r, q, t) /\ Downsampled(q, t) = r[N]
    BY DownsampledIsTheLoop
<1>7. \A b \in filled : mean[b] \in InHundred
    BY MeansArePercents
<1>8. r[0] = <<>> /\ \A b \in 1..N : r[b] = NextRow(r[b - 1], b, filled, mean)
    BY <1>6 DEF BucketLoop
<1>. HIDE DEF filled, mean, first, N
<1>9. \A m \in 0..N : first <= m =>
         /\ source[m] \in filled /\ source[m] <= m
         /\ \A c \in filled : c <= m => c <= source[m]
  <2>. TAKE m \in 0..N
  <2>. HAVE first <= m
  <2>. DEFINE last == Max({c \in filled : c <= m})
  <2>1. source[m] = last
      OBVIOUS
  <2>2. m \in Nat
      BY <1>1
  <2>3. last \in filled /\ last <= m /\ \A c \in filled : c <= m => c <= last
      BY <1>2, <1>4, <2>2, LastFilled
  <2>. HIDE DEF source, last
  <2>. QED
      BY <2>1, <2>3
<1>. HIDE DEF source
<1>. DEFINE Good == {n \in Nat : n <= N => r[n] \in Rows /\ RowSays(r[n], n, first, source, mean)}
<1>10. 0 \in Good
  <2>1. r[0] \in Rows /\ Len(r[0]) = 0
      BY <1>8 DEF Rows
  <2>2. 0 < first
      BY <1>1, <1>5
  <2>3. RowSays(r[0], 0, first, source, mean)
      BY <2>1, <2>2 DEF RowSays
  <2>. QED
      BY <2>1, <2>3
<1>11. ASSUME NEW n \in Nat, n \in Good PROVE n + 1 \in Good
  <2> SUFFICES ASSUME n + 1 <= N
               PROVE  r[n + 1] \in Rows /\ RowSays(r[n + 1], n + 1, first, source, mean)
      OBVIOUS
  <2>1. n <= N /\ n + 1 \in 1..N /\ n \in 0..N /\ n + 1 \in 0..N /\ (n + 1) - 1 = n
      BY <1>1
  <2>2. r[n] \in Rows /\ RowSays(r[n], n, first, source, mean)
      BY <1>11, <2>1
  <2>3. r[n + 1] = NextRow(r[n], n + 1, filled, mean)
      BY <1>8, <2>1
  <2>4. \A m \in {n, n + 1} : first <= m =>
            /\ source[m] \in filled /\ source[m] <= m
            /\ \A c \in filled : c <= m => c <= source[m]
      BY <1>9, <2>1
  <2>. HIDE DEF Good
  <2>5. /\ NextRow(r[n], n + 1, filled, mean) \in Rows
        /\ RowSays(NextRow(r[n], n + 1, filled, mean), n + 1, first, source, mean)
      BY <1>2, <1>4, <1>7, <2>2, <2>4, NextRowSays DEF Rows
  <2>. QED
      BY <2>3, <2>5
<1>12. N \in Good
    BY <1>1, <1>10, <1>11, InductionOverNat
<1>13. r[N] \in Rows /\ RowSays(r[N], N, first, source, mean)
    BY <1>1, <1>12
<1>14. first <= N /\ ~(N < first) /\ first \in Nat
    BY <1>1, <1>5
<1>15. Len(r[N]) = N - first + 1 /\ r[N] \in Seq(InHundred)
        /\ \A k \in 1..Len(r[N]) : r[N][k] = mean[source[first + k - 1]]
    BY <1>13, <1>14 DEF RowSays, Rows
<1>16. ASSUME NEW k \in 1..(N - first + 1)
       PROVE  mean[source[first + k - 1]]
                = Mean(InSlot(Max({c \in filled : c <= first + k - 1}), q, t), q)
  <2>1. first + k - 1 \in 0..N /\ first <= first + k - 1
      BY <1>1, <1>14
  <2>2. source[first + k - 1] \in filled
      BY <1>9, <2>1
  <2>3. source[first + k - 1] = Max({c \in filled : c <= first + k - 1})
      BY <2>1 DEF source
  <2>4. \A b \in filled : mean[b] = Mean(InSlot(b, q, t), q)
      BY DEF mean, filled, Means
  <2>. QED
      BY <2>2, <2>3, <2>4
<1>17. r[N] = [k \in 1..(N - first + 1) |->
                  Mean(InSlot(Max({c \in filled : c <= first + k - 1}), q, t), q)]
  <2>1. r[N] = [k \in 1..Len(r[N]) |-> r[N][k]]
      BY <1>15
  <2>. QED
      BY <1>15, <1>16, <2>1
<1>. QED
    BY <1>5, <1>6, <1>13, <1>17 DEF N, filled, first

LEMMA SlotsHaveTheirMeans == ASSUME QueueInv PROVE SlotsAreTheirMeans
<1> SUFFICES ASSUME Len(samples) > BucketCount PROVE SlotsAreTheirMeans
    BY DEF SlotsAreTheirMeans
<1>. DEFINE Starts(b) == now - Window + (b - 1) * Span
            Has(b) == {i \in 1..Len(samples) :
                          /\ b > 1 => samples[i].at >= Starts(b)
                          /\ b < BucketCount => samples[i].at < Starts(b + 1)}
            filled == {b \in 1..BucketCount : Has(b) # {}}
            first == Min(filled)
            Source(b) == Max({c \in filled : c <= b})
            Slot(b) == InSlot(b, samples, now)
<1>1. samples \in Seq(Samples) /\ now \in Int /\ BucketCount \in Nat
    BY CpuConstants DEF QueueInv
<1>2. \A i \in 1..Len(samples) : samples[i].at \in Int
  <2>1. \A i \in 1..Len(samples) : samples[i] \in Samples
      BY <1>1, ElementOfSeq
  <2>2. \A s \in Samples : s.at \in Int
      BY DEF Samples
  <2>. QED
      BY <2>1, <2>2
<1>3. ASSUME NEW b \in 1..BucketCount PROVE Has(b) = Slot(b)
  <2>1. Starts(b) = now - Window + (b - 1) * Span /\ Starts(b + 1) = now - Window + b * Span
    <3>1. (b + 1) - 1 = b
        BY <1>1
    <3>. QED
        BY <3>1
  <2>. HIDE DEF Starts
  <2>2. \A i \in 1..Len(samples) :
           SlotOf(samples[i], now) = b <=>
               /\ b > 1 => samples[i].at >= Starts(b)
               /\ b < BucketCount => samples[i].at < Starts(b + 1)
      BY <1>1, <1>2, <2>1, SlotHasTheSample
  <2>. QED
      BY <2>2 DEF InSlot
<1>. HIDE DEF Has, Slot
<1>4. filled = Filled(samples, now)
  <2>1. Filled(samples, now) = {b \in 1..BucketCount : Slot(b) # {}}
      BY DEF Filled, Slot
  <2>. QED
      BY <1>3, <2>1
<1>. HIDE DEF filled
<1>5. /\ first \in 1..BucketCount
      /\ Sparkline = [k \in 1..(BucketCount - first + 1) |->
                         Mean(Slot(Source(first + k - 1)), samples)]
    BY <1>1, <1>4, BucketsGiveMeans DEF Sparkline, Slot
<1>6. ASSUME NEW k \in 1..(BucketCount - first + 1)
      PROVE  Slot(Source(first + k - 1)) = Has(Source(first + k - 1))
  <2>1. first \in filled /\ filled \in SUBSET (1..BucketCount) /\ filled \in SUBSET Nat
    <3>1. filled \in SUBSET (1..BucketCount) /\ filled \in SUBSET Nat
        BY DEF filled
    <3>2. filled # {}
      <4>. DEFINE s == SlotOf(samples[1], now)
      <4>1. 1 \in 1..Len(samples) /\ samples[1].at \in Int
          BY <1>1, <1>2
      <4>2. s \in 1..BucketCount
          BY <1>1, <4>1, SlotHasTheSample
      <4>3. 1 \in Slot(s)
          BY <4>1 DEF Slot, InSlot
      <4>. QED
          BY <1>3, <4>2, <4>3 DEF filled
    <3>. QED
        BY <3>1, <3>2, MinIsLeast
  <2>2. first + k - 1 \in Nat /\ first <= first + k - 1
      BY <1>1, <1>5
  <2>3. Source(first + k - 1) \in filled
      BY <2>1, <2>2, LastFilled
  <2>. HIDE DEF Source
  <2>. QED
      BY <1>3, <2>1, <2>3
<1>7. Sparkline = [k \in 1..(BucketCount - first + 1) |->
                      Mean(Has(Source(first + k - 1)), samples)]
  <2>. HIDE DEF Source, first
  <2>. QED
      BY <1>5, <1>6
<1>. QED
    BY <1>7 DEF SlotsAreTheirMeans, Span, Has, filled

\* What is handed out is a row of percentages, no longer than there are buckets.
LEMMA SparklineIsARow ==
    ASSUME QueueInv
    PROVE  Sparkline \in Rows /\ Len(Sparkline) <= BucketCount
<1>1. samples \in Seq(Samples) /\ now \in Int /\ BucketCount \in Nat /\ Len(samples) \in Nat
    BY CpuConstants DEF QueueInv
<1>2. CASE Len(samples) <= BucketCount
  <2>1. \A i \in 1..Len(samples) : samples[i].cpu \in InHundred
    <3>1. \A i \in 1..Len(samples) : samples[i] \in Samples
        BY <1>1, ElementOfSeq
    <3>2. \A s \in Samples : s.cpu \in InHundred
        BY CpuAssumption DEF Samples, InHundred
    <3>. QED
        BY <3>1, <3>2
  <2>2. Sparkline = [i \in 1..Len(samples) |-> samples[i].cpu]
      BY <1>2 DEF Sparkline, Downsampled
  <2>. QED
      BY <1>1, <1>2, <2>1, <2>2 DEF Rows
<1>3. CASE ~(Len(samples) <= BucketCount)
  <2>. DEFINE first == Min(Filled(samples, now))
              M(k) == Mean(InSlot(Max({c \in Filled(samples, now) : c <= first + k - 1}),
                                  samples, now), samples)
  <2>1. Len(samples) > BucketCount
      BY <1>1, <1>3
  <2>2. Sparkline \in Rows /\ first \in 1..BucketCount
          /\ Sparkline = [k \in 1..(BucketCount - first + 1) |-> M(k)]
      BY <1>1, <2>1, BucketsGiveMeans DEF Sparkline
  <2>. HIDE DEF first, M
  <2>3. BucketCount - first + 1 \in Nat /\ BucketCount - first + 1 <= BucketCount
      BY <1>1, <2>2
  <2>4. Len(Sparkline) = BucketCount - first + 1
      BY <2>2, <2>3
  <2>. QED
      BY <2>2, <2>3, <2>4
<1>. QED
    BY <1>2, <1>3

LEMMA LineShowsTheSparkline == ASSUME QueueInv PROVE SparklineIsTheRow
<1>. DEFINE means == Sparkline
            line == CpuSparkline(means)
<1>1. means \in Rows /\ Len(means) <= BucketCount
    BY SparklineIsARow
<1>2. /\ Len(means) \in Nat /\ means \in Seq(Nat)
      /\ \A k \in 1..Len(means) : means[k] \in Nat /\ means[k] <= 100
  <2>1. \A k \in 1..Len(means) : means[k] \in InHundred
      BY <1>1, ElementOfSeq DEF Rows
  <2>2. \A n \in InHundred : n \in Nat /\ n <= 100
      BY DEF InHundred
  <2>3. Len(means) \in Nat /\ means = [k \in 1..Len(means) |-> means[k]]
      BY <1>1 DEF Rows
  <2>4. means \in Seq(Nat)
      BY <2>1, <2>2, <2>3
  <2>. QED
      BY <2>1, <2>2, <2>3, <2>4
<1>3. BucketCount <= 5800
    BY CpuAssumption DEF Width, Border
<1>. HIDE DEF means
<1>4. CASE Len(means) < 2
    BY <1>4 DEF CpuSparkline, SparklineIsTheRow, means
<1>5. CASE Len(means) >= 2
  <2>1. Len(means) <= 5801
      BY <1>1, <1>2, <1>3, CpuConstants
  <2>2. /\ Len(line) = Len(means)
        /\ line[1].x = Border /\ line[Len(means)].x = Width - Border
        /\ \A i, j \in 1..Len(means) :
              /\ InTheBox(line[i].y)
              /\ i < j => line[i].x < line[j].x
              /\ means[i] > means[j] => line[i].y < line[j].y
      BY <1>2, <1>5, <2>1, LineShowsTheRow, SMTT(30)
  <2>3. \A y : InTheBox(y) => y \in Border..(Height - Border)
      BY DEF InTheBox, Border, Height
  <2>. HIDE DEF line
  <2>. QED
      BY <2>2, <2>3 DEF SparklineIsTheRow, line, means
<1>. QED
    BY <1>2, <1>4, <1>5

\* The history from the poll to the drawn line: the queue is the window of the last
\* poll while none is overtaken, each slot of the window that ends now gives the mean
\* of its samples or of the slot before it that has some, and the line shows that row.
THEOREM HistoryPromiseHolds == HistorySpec => []HistoryPromise
<1>1. HistoryInit => CpuInv
    BY CpuStart
<1>2. CpuInv /\ [HistoryNext]_historyVars => CpuInv'
    BY CpuStep
<1>3. CpuInv => HistoryPromise
    BY SlotsHaveTheirMeans, LineShowsTheSparkline DEF CpuInv, HistoryPromise
<1>. QED
    BY <1>1, <1>2, <1>3, PTL DEF HistorySpec
==============================================================================
