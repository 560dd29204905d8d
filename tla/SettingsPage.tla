----------------------------- MODULE SettingsPage ------------------------------
(***************************************************************************)
(* The page of the monitor's settings (SettingsPageComponent), with the    *)
(* client of the settings endpoints (MonitorSettingsApiService), and the   *)
(* saving of a user's preferences (UserPreferencesService) by the details  *)
(* of a pod (PodDetailsModalComponent).  The settings that the server has  *)
(* may be saved by another browser too.                                    *)
(***************************************************************************)
EXTENDS Naturals, Sequences, FiniteSets

CONSTANTS
    PodKeys,
    ScanIntervals, MinScan,     \* intervals one may enter; the server's minimum
    MaxSaves                    \* bound: saves of the settings, of the preferences

ASSUME SettingsPageAssumption ==
    ScanIntervals \subseteq Nat /\ MinScan \in ScanIntervals /\ MaxSaves \in Nat

Fields == {"enabled", "scan", "excluded"}
Forms == [enabled : BOOLEAN, scan : ScanIntervals, excluded : SUBSET PodKeys]
Default == [enabled |-> TRUE, scan |-> MinScan, excluded |-> {}]
NoForm == <<>>

VARIABLES
    onServer,       \* the settings the server has
    form,           \* enabled, logScanSeconds and excluded
    loadedForm,     \* settings(): NoForm for null
    podOptions,     \* the pods listed
    pageLoading, pageSaving, savedShown, saveError,
    request,        \* "none", "load", "pods" or "save"
    payload,        \* what is being saved
    answered,       \* what the answer of a load or save brings
    edited,         \* history: fields edited since they were set
    saves,
    prefs,          \* podCountsEnabled
    prefsOnServer,
    queued,         \* what the debounce of 400 ms will send: NoSave for nothing
    puts,           \* PUTs on their way: number, value, and whether listened to
    saverOn,        \* the subscription of saveQueue is live
    updates,        \* updates so far
    applied,        \* history: the latest PUT applied
    overtook,        \* history: the PUT applied last was an earlier one
    touched         \* history: updated since the page was loaded

settingsVars == <<onServer, form, loadedForm, podOptions, pageLoading, pageSaving,
                  savedShown, saveError, request, payload, answered, edited, saves>>
prefVars == <<prefs, prefsOnServer, queued, puts, saverOn, updates, applied,
              overtook, touched>>
settingsPageVars == <<settingsVars, prefVars>>
NoSave == <<>>

Opened ==
    /\ form' = Default /\ loadedForm' = NoForm /\ podOptions' = {}
    /\ pageLoading' = TRUE /\ pageSaving' = FALSE
    /\ savedShown' = FALSE /\ saveError' = FALSE
    /\ request' = "load" /\ payload' = NoForm /\ answered' = NoForm
    /\ edited' = {}

SettingsInit ==
    /\ onServer \in {s \in Forms : s.scan >= MinScan}
    /\ form = Default /\ loadedForm = NoForm /\ podOptions = {}
    /\ pageLoading = TRUE /\ pageSaving = FALSE
    /\ savedShown = FALSE /\ saveError = FALSE
    /\ request = "load" /\ payload = NoForm /\ answered = NoForm
    /\ edited = {} /\ saves = 0
    /\ prefs = {} /\ prefsOnServer \in SUBSET PodKeys
    /\ queued = NoSave /\ puts = {} /\ saverOn = TRUE
    /\ updates = 0 /\ applied = 0 /\ overtook = FALSE /\ touched = FALSE

-----------------------------------------------------------------------------
(* The settings                                                            *)

\* The server answers with its settings, and normalises those it is given.
SettingsAreRead ==
    /\ request = "load" /\ answered = NoForm
    /\ answered' = onServer
    /\ UNCHANGED <<onServer, form, loadedForm, podOptions, pageLoading, pageSaving,
                   savedShown, saveError, request, payload, edited, saves, prefVars>>

Normalized(s) == [s EXCEPT !.scan = IF @ < MinScan THEN MinScan ELSE @]

ServerSaves ==
    /\ request = "save" /\ answered = NoForm
    /\ onServer' = Normalized(payload) /\ answered' = onServer'
    /\ UNCHANGED <<form, loadedForm, podOptions, pageLoading, pageSaving, savedShown,
                   saveError, request, payload, edited, saves, prefVars>>

OtherBrowserSaves(s) ==
    /\ saves < MaxSaves /\ s # onServer
    /\ saves' = saves + 1
    /\ onServer' = s
    /\ UNCHANGED <<form, loadedForm, podOptions, pageLoading, pageSaving, savedShown,
                   saveError, request, payload, answered, edited, prefVars>>

SetForm ==
    /\ loadedForm' = answered /\ form' = answered /\ edited' = {}
    /\ answered' = NoForm

SettingsArrive ==
    /\ request = "load" /\ answered # NoForm
    /\ SetForm
    /\ request' = "pods"
    /\ UNCHANGED <<onServer, podOptions, pageLoading, pageSaving, savedShown,
                   saveError, payload, saves, prefVars>>

SettingsFail ==
    /\ request = "load"
    /\ request' = "none" /\ answered' = NoForm
    /\ pageLoading' = FALSE /\ saveError' = TRUE
    /\ UNCHANGED <<onServer, form, loadedForm, podOptions, pageSaving, savedShown,
                   payload, edited, saves, prefVars>>

PodsArrive(list) ==
    /\ request = "pods"
    /\ podOptions' = list
    /\ request' = "none" /\ pageLoading' = FALSE
    /\ UNCHANGED <<onServer, form, loadedForm, pageSaving, savedShown, saveError,
                   payload, answered, edited, saves, prefVars>>

PodsFail ==
    /\ request = "pods"
    /\ request' = "none" /\ pageLoading' = FALSE
    /\ UNCHANGED <<onServer, form, loadedForm, podOptions, pageSaving, savedShown,
                   saveError, payload, answered, edited, saves, prefVars>>

\* Variant: the form is there without the settings.
FormShown_WithoutSettings == ~pageLoading

\* The form and its buttons: not while loading, not without settings.
FormShown == ~pageLoading /\ loadedForm # NoForm

Edit(field, value) ==
    /\ FormShown
    /\ form' = [form EXCEPT ![field] = value]
    /\ edited' = edited \cup {field}
    /\ UNCHANGED <<onServer, loadedForm, podOptions, pageLoading, pageSaving,
                   saveError, request, payload, answered, saves, prefVars>>

\* The bound fields leave the message of the last save where it is.
EnterSetting ==
    /\ \/ Edit("enabled", ~form.enabled)
       \/ \E i \in ScanIntervals : Edit("scan", i)
    /\ UNCHANGED savedShown

ChoosePods(set) == Edit("excluded", set) /\ savedShown' = FALSE

TogglePod(k) ==
    /\ k \in podOptions
    /\ ChoosePods(IF k \in form.excluded THEN form.excluded \ {k}
                  ELSE form.excluded \cup {k})

EnableAll == ChoosePods({})
DisableAll == ChoosePods(podOptions)

Save ==
    /\ FormShown /\ ~pageSaving
    /\ saves < MaxSaves
    /\ saves' = saves + 1
    /\ request' = "save" /\ payload' = form
    /\ pageSaving' = TRUE /\ saveError' = FALSE /\ savedShown' = FALSE
    /\ UNCHANGED <<onServer, form, loadedForm, podOptions, pageLoading, answered,
                   edited, prefVars>>

\* What has been edited since is replaced.
SaveAnswered ==
    /\ request = "save" /\ answered # NoForm
    /\ SetForm
    /\ request' = "none" /\ payload' = NoForm
    /\ pageSaving' = FALSE /\ savedShown' = TRUE
    /\ UNCHANGED <<onServer, podOptions, pageLoading, saveError, saves, prefVars>>

\* The request or its answer is lost.
SaveFails ==
    /\ request = "save"
    /\ request' = "none" /\ payload' = NoForm /\ answered' = NoForm
    /\ pageSaving' = FALSE /\ saveError' = TRUE
    /\ UNCHANGED <<onServer, form, loadedForm, podOptions, pageLoading, savedShown,
                   edited, saves, prefVars>>

\* The page is left and opened again: a save that has not been read is.
ReopenSettings ==
    /\ onServer' = IF request = "save" /\ answered = NoForm THEN Normalized(payload)
                   ELSE onServer
    /\ Opened
    /\ UNCHANGED <<saves, prefVars>>

-----------------------------------------------------------------------------
(* The preferences                                                         *)

Enqueue(value) == queued' = <<value>>

\* toggleCounts, setPodCountEnabled, update
ToggleCounts(k) ==
    /\ updates < MaxSaves
    /\ updates' = updates + 1 /\ touched' = TRUE
    /\ prefs' = IF k \in prefs THEN prefs \ {k} ELSE prefs \cup {k}
    /\ IF saverOn THEN Enqueue(prefs') ELSE UNCHANGED queued
    /\ UNCHANGED <<settingsVars, prefsOnServer, puts, saverOn, applied, overtook>>

\* switchMap: the PUT before is no longer listened to.
DebounceEnds ==
    /\ queued # NoSave
    /\ queued' = NoSave
    /\ puts' = {[q EXCEPT !.heard = FALSE] : q \in puts}
                   \cup {[number |-> updates, value |-> queued[1], heard |-> TRUE,
                          done |-> FALSE]}
    /\ UNCHANGED <<settingsVars, prefs, prefsOnServer, saverOn, updates, applied,
                   overtook, touched>>

PutIsApplied(q) ==
    /\ q \in puts /\ ~q.done
    /\ prefsOnServer' = q.value
    /\ puts' = (puts \ {q}) \cup (IF q.heard THEN {[q EXCEPT !.done = TRUE]} ELSE {})
    /\ overtook' = (q.number < applied)
    /\ applied' = IF overtook' THEN applied ELSE q.number
    /\ UNCHANGED <<settingsVars, prefs, queued, saverOn, updates, touched>>

PutAnswered(q) ==
    /\ q \in puts /\ q.done
    /\ puts' = puts \ {q}
    /\ UNCHANGED <<settingsVars, prefs, prefsOnServer, queued, saverOn, updates,
                   applied, overtook, touched>>

\* Cancelled on the way, or an error that ends the subscription of saveQueue.
PutFails(q) ==
    /\ q \in puts
    /\ puts' = puts \ {q}
    /\ saverOn' = (saverOn /\ ~q.heard)
    /\ queued' = IF q.heard THEN NoSave ELSE queued
    /\ UNCHANGED <<settingsVars, prefs, prefsOnServer, updates, applied, overtook,
                   touched>>

\* A new page starts from no preferences: nothing calls load.
LoadApp ==
    /\ touched
    /\ prefs' = {} /\ queued' = NoSave /\ saverOn' = TRUE /\ touched' = FALSE
    /\ puts' = {[q EXCEPT !.heard = FALSE] : q \in {r \in puts : ~r.done}}
    /\ UNCHANGED <<settingsVars, prefsOnServer, updates, applied, overtook>>

SettingsNext ==
    \/ SettingsAreRead \/ ServerSaves
    \/ \E s \in Forms : s.scan >= MinScan /\ OtherBrowserSaves(s)
    \/ SettingsArrive \/ SettingsFail
    \/ \E list \in SUBSET PodKeys : PodsArrive(list)
    \/ PodsFail
    \/ EnterSetting
    \/ \E k \in PodKeys : TogglePod(k)
    \/ EnableAll \/ DisableAll
    \/ Save \/ SaveAnswered \/ SaveFails
    \/ ReopenSettings

TogglesNext ==
    \/ \E k \in PodKeys : ToggleCounts(k)
    \/ DebounceEnds
    \/ \E q \in puts : PutIsApplied(q) \/ PutAnswered(q) \/ PutFails(q)
    \/ LoadApp

SettingsSpec == SettingsInit /\ [][SettingsNext \/ TogglesNext]_settingsPageVars

-----------------------------------------------------------------------------
(* Properties                                                              *)

\* Types.
SettingsTypeOK ==
    /\ onServer \in Forms /\ form \in Forms
    /\ {loadedForm, payload, answered} \subseteq Forms \cup {NoForm}
    /\ podOptions \subseteq PodKeys /\ edited \subseteq Fields
    /\ request \in {"none", "load", "pods", "save"}
    /\ {pageLoading, pageSaving, savedShown, saveError} \subseteq BOOLEAN
    /\ prefs \subseteq PodKeys /\ prefsOnServer \subseteq PodKeys

\* A field that is saved is one the user has edited or has its value from the
\* server: settings that failed to load are not replaced by the form's defaults,
\* and pods that are no longer listed stay excluded (save).
OnlyEditsAreSaved ==
    request = "save" =>
        \A f \in Fields \ edited : loadedForm # NoForm /\ payload[f] = loadedForm[f]

\* The page waits only for requests that are under way, so that the form and the
\* button come back after every failure (loading, saving).
WaitsForRequests ==
    /\ pageLoading => request \in {"load", "pods"}
    /\ pageSaving => request = "save"

\* Where the page says that the choice of pods is saved, it is (togglePod,
\* enableAll, disableAll).
SavedIsTrue == savedShown => form.excluded = loadedForm.excluded

\* When no save is pending the server has the user's last choice
\* (UserPreferencesService, debounceTime and switchMap), unless a save has failed
\* or a cancelled one was applied after its successor.
PrefsSettle ==
    touched /\ queued = NoSave /\ puts = {} /\ saverOn /\ ~overtook
        => prefsOnServer = prefs

\* What the page and the preferences promise while edits, saves and their answers
\* cross.
SettingsPromise ==
    /\ OnlyEditsAreSaved
    /\ WaitsForRequests
    /\ SavedIsTrue
    /\ PrefsSettle
=============================================================================
