---------------------------- MODULE MonitorSettings ----------------------------
(***************************************************************************)
(* MonitorSettingsService: one row of the SystemSetting table and a cached *)
(* copy of it.  The lock _gate covers only the accesses to the copy, so    *)
(* Gets that load the row and Saves interleave between the row and the     *)
(* copy.                                                                   *)
(***************************************************************************)
EXTENDS Integers

CONSTANTS
    Callers,        \* requests, and the loops of the pod monitor
    Pods,           \* pod keys
    Inputs,         \* settings that clients send
    NoList,         \* an ExcludedPods that is null
    NoRow           \* the table has no row for the monitor

Default == [Enabled |-> TRUE,
            LogScanIntervalSeconds |-> 300,
            MetricsPollIntervalSeconds |-> 60,
            LogWindowSeconds |-> 86400,
            ExcludedPods |-> {}]

RawSettings == [Enabled : BOOLEAN,
                LogScanIntervalSeconds : Int,
                MetricsPollIntervalSeconds : Int,
                LogWindowSeconds : Int,
                ExcludedPods : {NoList} \cup SUBSET Pods]

\* The limits, in seconds.
MaxLogScan == 24 * 60 * 60
MaxMetricsPoll == 60 * 60
LogScanRange == 30..MaxLogScan
MetricsPollRange == 15..MaxMetricsPoll
LogWindowRange == {n \in Int : n >= 60}

NormalSettings == [Enabled : BOOLEAN,
                   LogScanIntervalSeconds : LogScanRange,
                   MetricsPollIntervalSeconds : MetricsPollRange,
                   LogWindowSeconds : LogWindowRange,
                   ExcludedPods : SUBSET Pods]

ASSUME InputsAssumption == Inputs \subseteq RawSettings
ASSUME NoListAssumption == \A S \in SUBSET Pods : NoList # S
ASSUME NoRowAssumption == NoRow \notin NormalSettings

VARIABLES
    row,            \* the settings in the table
    cached,         \* _cached
    loaded,         \* _loaded
    op,             \* op[c]: how far a call of c is
    val,            \* val[c]: the settings it works on, or has been given
    raced           \* history: the row and the copy may have come apart

settingsVars == <<row, cached, loaded, op, val, raced>>

OpStates == {"idle",
             "missed", "read", "holding",           \* Get
             "saving", "stored", "cached"}          \* Save

Clamp(low, n, high) == IF n < low THEN low ELSE IF n > high THEN high ELSE n

\* Variant: no upper limit.
Normalize_NoMaximum(s) ==
    [Enabled |-> s.Enabled,
     LogScanIntervalSeconds |-> IF s.LogScanIntervalSeconds < 30
                                THEN 30 ELSE s.LogScanIntervalSeconds,
     MetricsPollIntervalSeconds |-> Clamp(15, s.MetricsPollIntervalSeconds, MaxMetricsPoll),
     LogWindowSeconds |-> IF s.LogWindowSeconds < 60 THEN 60 ELSE s.LogWindowSeconds,
     ExcludedPods |-> IF s.ExcludedPods = NoList THEN {} ELSE s.ExcludedPods]

\* A list is kept as its set of keys: Distinct and OrderBy only choose the
\* list that stands for the set.
Normalize(s) ==
    [Enabled |-> s.Enabled,
     LogScanIntervalSeconds |-> Clamp(30, s.LogScanIntervalSeconds, MaxLogScan),
     MetricsPollIntervalSeconds |-> Clamp(15, s.MetricsPollIntervalSeconds, MaxMetricsPoll),
     LogWindowSeconds |-> IF s.LogWindowSeconds < 60 THEN 60 ELSE s.LogWindowSeconds,
     ExcludedPods |-> IF s.ExcludedPods = NoList THEN {} ELSE s.ExcludedPods]

RowValue == IF row = NoRow THEN Default ELSE row

\* The table as an earlier run of the program left it.
SettingsInit ==
    /\ row \in {NoRow} \cup {Normalize(s) : s \in Inputs}
    /\ cached = Default
    /\ loaded = FALSE
    /\ op = [c \in Callers |-> "idle"]
    /\ val = [c \in Callers |-> Default]
    /\ raced = FALSE

-----------------------------------------------------------------------------
\* Get, up to the first unlock.
GetCached(c) ==
    /\ op[c] = "idle"
    /\ IF loaded
         THEN /\ op' = [op EXCEPT ![c] = "holding"]
              /\ val' = [val EXCEPT ![c] = cached]
         ELSE op' = [op EXCEPT ![c] = "missed"] /\ UNCHANGED val
    /\ UNCHANGED <<row, cached, loaded, raced>>

ReadRow(c) ==
    /\ op[c] = "missed"
    /\ op' = [op EXCEPT ![c] = "read"]
    /\ val' = [val EXCEPT ![c] = Normalize(RowValue)]
    /\ UNCHANGED <<row, cached, loaded, raced>>

\* A failed load is not repeated: the defaults become the cached settings.
ReadFails(c) ==
    /\ op[c] = "missed"
    /\ op' = [op EXCEPT ![c] = "read"]
    /\ val' = [val EXCEPT ![c] = Default]
    /\ raced' = TRUE
    /\ UNCHANGED <<row, cached, loaded>>

\* The second locked part of Get: it does not look at _loaded again.
CacheLoaded(c) ==
    /\ op[c] = "read"
    /\ op' = [op EXCEPT ![c] = "holding"]
    /\ cached' = val[c]
    /\ loaded' = TRUE
    /\ UNCHANGED <<row, val, raced>>

\* The caller is done with what Get returned.
Release(c) ==
    /\ op[c] = "holding"
    /\ op' = [op EXCEPT ![c] = "idle"]
    /\ val' = [val EXCEPT ![c] = Default]
    /\ UNCHANGED <<row, cached, loaded, raced>>

Save(c) ==
    /\ op[c] = "idle"
    /\ \E s \in Inputs : val' = [val EXCEPT ![c] = Normalize(s)]
    /\ op' = [op EXCEPT ![c] = "saving"]
    /\ UNCHANGED <<row, cached, loaded, raced>>

StoreFails(c) ==
    /\ op[c] = "saving"
    /\ op' = [op EXCEPT ![c] = "idle"]
    /\ val' = [val EXCEPT ![c] = Default]
    /\ UNCHANGED <<row, cached, loaded, raced>>

\* The row is replaced while another call is between the row and the copy.
Crosses(c) == \E d \in Callers \ {c} : op[d] \in {"read", "stored"}

StoreRow(c) ==
    /\ op[c] = "saving"
    /\ op' = [op EXCEPT ![c] = "stored"]
    /\ row' = val[c]
    /\ raced' = (raced \/ Crosses(c))
    /\ UNCHANGED <<cached, loaded, val>>

\* Variant: the copy is kept when there is one.
CacheSaved_OnlyIfEmpty(c) ==
    /\ op[c] = "stored"
    /\ op' = [op EXCEPT ![c] = "cached"]
    /\ cached' = IF loaded THEN cached ELSE val[c]
    /\ loaded' = TRUE
    /\ UNCHANGED <<row, val, raced>>

CacheSaved(c) ==
    /\ op[c] = "stored"
    /\ op' = [op EXCEPT ![c] = "cached"]
    /\ cached' = val[c]
    /\ loaded' = TRUE
    /\ UNCHANGED <<row, val, raced>>

\* Changed has been raised and Save returns.
SaveReturns(c) ==
    /\ op[c] = "cached"
    /\ op' = [op EXCEPT ![c] = "idle"]
    /\ val' = [val EXCEPT ![c] = Default]
    /\ UNCHANGED <<row, cached, loaded, raced>>

-----------------------------------------------------------------------------
GetStep(c) == GetCached(c) \/ ReadRow(c) \/ ReadFails(c) \/ CacheLoaded(c)

SaveStep(c) == Save(c) \/ StoreFails(c) \/ StoreRow(c) \/ CacheSaved(c)

SettingsNext ==
    \E c \in Callers :
       GetStep(c) \/ Release(c) \/ SaveStep(c) \/ SaveReturns(c)

SettingsSpec == SettingsInit /\ [][SettingsNext]_settingsVars

-----------------------------------------------------------------------------
\* What is stored, cached and handed out is within the limits of Normalize.
SettingsTypeOK ==
    /\ row \in {NoRow} \cup NormalSettings
    /\ cached \in NormalSettings
    /\ loaded \in BOOLEAN
    /\ op \in [Callers -> OpStates]
    /\ val \in [Callers -> NormalSettings]
    /\ raced \in BOOLEAN

\* The cached settings are the stored ones whenever no Save is between the two,
\* unless a row was replaced while another call was between the row and the
\* copy, or the load failed: only then does the service hand out settings that
\* differ from those it will load after a restart.
CopyAgreesWithRow ==
    ~raced /\ loaded /\ (\A c \in Callers : op[c] # "stored")
       => cached = RowValue
=============================================================================
