----------------------------- MODULE PodsWidget ------------------------------
(***************************************************************************)
(* The pods table of the dashboard: WPodsComponent with its column filter  *)
(* (ColumnFilterComponent).  It fetches the list of pods and applies the   *)
(* watch events that the hub pushes; both are views of the same cluster    *)
(* that were taken at different times.                                     *)
(***************************************************************************)
EXTENDS Naturals, Sequences, SequencesExt, FiniteSets, Selections

CONSTANTS
    Uids,           \* pods that may exist
    NsOf,           \* NsOf[u]: the namespace of a pod
    Found,          \* the pods that the user's search finds
    MaxChanges,     \* bound: changes of the cluster
    MaxTouches      \* bound: changes of the filters

ASSUME PodsAssumption == /\ DOMAIN NsOf = Uids /\ IsFiniteSet(Uids)
                         /\ Found \subseteq Uids /\ MaxChanges \in Nat /\ MaxTouches \in Nat

Phases == {"Running", "Failed"}
SortKeys == {"name", "status"}
NoText == "none"                \* the search box is empty
PodNamespaces == {NsOf[u] : u \in Uids}

VARIABLES
    cluster,        \* cluster[u]: the phase of a pod, "none" before, "gone" after
    changes,
    watched,        \* changes are reported: the link is up, the watch runs
    events,         \* reported and not yet received
    listing,        \* the GET under way: "no", "sent" or "read"
    listed,         \* the list that was read
    passed,         \* events have arrived since
    pods, podsLoading, podsError,
    searchText, excludedNamespaces, excludedStatuses, sortKey, sortDir,
    touches,        \* changes of the filters so far
    unticked,       \* history: namespaces the user took out, of those offered
    lost            \* history: the table may have missed a change

podsVars == <<cluster, changes, watched, events, listing, listed, passed, pods,
              podsLoading, podsError, searchText, excludedNamespaces, excludedStatuses,
              sortKey, sortDir, touches, unticked, lost>>
fetch == <<listing, listed, passed>>
filters == <<searchText, excludedNamespaces, excludedStatuses, sortKey, sortDir,
             touches, unticked>>

Alive == {u \in Uids : cluster[u] \in Phases}

PodsInit ==
    /\ cluster \in [Uids -> {"none", "Running"}]
    /\ changes = 0
    /\ watched = FALSE
    /\ events = <<>>
    /\ listing = "sent" /\ listed = <<>> /\ passed = FALSE
    /\ pods = <<>> /\ podsLoading = TRUE /\ podsError = FALSE
    /\ searchText = NoText /\ sortKey = "name" /\ sortDir = "asc"
    /\ excludedNamespaces = {} /\ excludedStatuses = {}
    /\ touches = 0 /\ unticked = {}
    /\ lost = FALSE

-----------------------------------------------------------------------------
(* The cluster and what reports of it                                      *)

ClusterChanges(u, phase) ==
    /\ changes < MaxChanges
    /\ changes' = changes + 1
    /\ \/ cluster[u] = "none" /\ phase = "Running"
       \/ cluster[u] \in Phases /\ phase \in (Phases \cup {"gone"}) \ {cluster[u]}
    /\ cluster' = [cluster EXCEPT ![u] = phase]
    /\ events' = IF watched
                   THEN Append(events, [uid |-> u, phase |-> phase]) ELSE events
    /\ lost' = (lost \/ ~watched)
    /\ UNCHANGED <<watched, fetch, pods, podsLoading, podsError, filters>>

\* A watch that is started reports every pod; a browser that joins a running one
\* is told nothing.
WatchBegins ==
    /\ ~watched
    /\ watched' = TRUE
    /\ \E all \in BOOLEAN :
          events' = IF all
                      THEN events \o [i \in 1..Cardinality(Alive) |->
                              LET u == SetToSeq(Alive)[i]
                              IN  [uid |-> u, phase |-> cluster[u]]]
                      ELSE events
    /\ UNCHANGED <<cluster, changes, fetch, pods, podsLoading, podsError,
                   filters, lost>>

WatchEnds ==
    /\ watched
    /\ watched' = FALSE
    /\ events' = <<>>
    /\ lost' = (lost \/ events # <<>>)
    /\ UNCHANGED <<cluster, changes, fetch, pods, podsLoading, podsError, filters>>

-----------------------------------------------------------------------------
(* WPodsComponent                                                          *)

Row(u) == [uid |-> u, phase |-> cluster[u]]

ServerLists ==
    /\ listing = "sent"
    /\ listing' = "read"
    /\ listed' = [i \in 1..Cardinality(Alive) |-> Row(SetToSeq(Alive)[i])]
    /\ passed' = FALSE
    /\ lost' = FALSE
    /\ UNCHANGED <<cluster, changes, watched, events, pods, podsLoading,
                   podsError, filters>>

\* Variant: what events have told is kept.
ListArrives_Merges ==
    /\ listing = "read"
    /\ pods' = pods \o listed
    /\ lost' = (lost \/ passed)
    /\ listing' = "no" /\ listed' = <<>> /\ passed' = FALSE
    /\ podsLoading' = FALSE
    /\ UNCHANGED <<cluster, changes, watched, events, podsError, filters>>

\* The list replaces what events have told meanwhile.
ListArrives ==
    /\ listing = "read"
    /\ pods' = listed
    /\ lost' = (lost \/ passed)
    /\ listing' = "no" /\ listed' = <<>> /\ passed' = FALSE
    /\ podsLoading' = FALSE
    /\ UNCHANGED <<cluster, changes, watched, events, podsError, filters>>

ListFails ==
    /\ listing # "no"
    /\ listing' = "no" /\ listed' = <<>> /\ passed' = FALSE
    /\ podsError' = TRUE
    /\ podsLoading' = FALSE
    /\ lost' = TRUE
    /\ UNCHANGED <<cluster, changes, watched, events, pods, filters>>

\* What the widget shows.
Panel ==
    IF podsLoading /\ pods = <<>> THEN "skeleton"
    ELSE IF podsError THEN "error" ELSE "table"

Retry ==
    /\ Panel = "error"
    /\ podsError' = FALSE
    /\ listing' = "sent" /\ listed' = <<>> /\ passed' = FALSE
    /\ UNCHANGED <<cluster, changes, watched, events, pods, podsLoading,
                   filters, lost>>

Index(u) == {i \in DOMAIN pods : pods[i].uid = u}

\* applyPodEvent: a pod keeps its place.
ApplyPodEvent(e) ==
    pods' = IF e.phase = "gone"
              THEN Picked(pods, DOMAIN pods \ Index(e.uid))
              ELSE IF Index(e.uid) = {}
                     THEN Append(pods, e)
                     ELSE [i \in DOMAIN pods |->
                              IF i \in Index(e.uid) THEN e ELSE pods[i]]

EventArrives ==
    /\ events # <<>>
    /\ ApplyPodEvent(Head(events))
    /\ events' = Tail(events)
    /\ passed' = (listing = "read")
    /\ UNCHANGED <<cluster, changes, watched, listing, listed, podsLoading, podsError, filters, lost>>

\* The dashboard is left and opened again: a new component with the filters that
\* the old one has stored.
Reopen ==
    /\ pods' = <<>> /\ podsLoading' = TRUE /\ podsError' = FALSE
    /\ listing' = "sent" /\ listed' = <<>> /\ passed' = FALSE
    /\ UNCHANGED <<cluster, changes, watched, events, filters, lost>>

-----------------------------------------------------------------------------
(* Filters                                                                 *)

Touch ==
    /\ Panel = "table" /\ touches < MaxTouches
    /\ touches' = touches + 1
    /\ UNCHANGED <<cluster, changes, watched, events, fetch, pods, podsLoading,
                   podsError, lost>>

Offered == {NsOf[pods[i].uid] : i \in DOMAIN pods}
Ticked == Offered \ excludedNamespaces

\* The buttons of the column filter, applied to the items its search leaves.
Tick(sel, v) == sel \cup {v}
Untick(sel, v) == sel \ {v}
SelectAllVisible(sel, visible) ==
    IF visible # {} /\ visible \subseteq sel THEN sel \ visible ELSE sel \cup visible
SelectNoneVisible(sel, visible) == sel \ visible
InvertVisible(sel, visible) == (sel \ visible) \cup (visible \ sel)

Selections(sel, items) ==
    UNION {{Tick(sel, v), Untick(sel, v)} : v \in items}
    \cup UNION {{SelectAllVisible(sel, vis), SelectNoneVisible(sel, vis),
                 InvertVisible(sel, vis)} : vis \in SUBSET items}

OnNamespaceFilter(sel) == excludedNamespaces' = Offered \ sel

FilterNamespaces(sel) ==
    /\ Touch
    /\ sel \in Selections(Ticked, Offered)
    /\ OnNamespaceFilter(sel)
    /\ unticked' = Offered \ sel
    /\ UNCHANGED <<searchText, excludedStatuses, sortKey, sortDir>>

OnStatusFilter(sel) ==
    /\ Touch
    /\ sel \in Selections(Phases \ excludedStatuses, Phases)
    /\ excludedStatuses' = Phases \ sel
    /\ UNCHANGED <<searchText, excludedNamespaces, sortKey, sortDir, unticked>>

Search(text) ==
    /\ Touch
    /\ searchText' = text
    /\ UNCHANGED <<excludedNamespaces, excludedStatuses, sortKey, sortDir, unticked>>

SetSort(key) ==
    /\ Touch
    /\ sortKey' = key
    /\ sortDir' = IF sortKey = key /\ sortDir = "asc" THEN "desc" ELSE "asc"
    /\ UNCHANGED <<searchText, excludedNamespaces, excludedStatuses, unticked>>

Passes(p) ==
    /\ NsOf[p.uid] \notin excludedNamespaces
    /\ p.phase \notin excludedStatuses
    /\ searchText # NoText => p.uid \in Found

\* compare: by name (the order of SetToSeq(Uids)) or by phase.
Rank(p) ==
    IF sortKey = "name"
      THEN CHOOSE i \in 1..Cardinality(Uids) : SetToSeq(Uids)[i] = p.uid
      ELSE IF p.phase = "Failed" THEN 1 ELSE 2

Before(i, j) ==
    LET a == Rank(pods[i])
        b == Rank(pods[j])
    IN  \/ IF sortDir = "asc" THEN a < b ELSE b < a
        \/ a = b /\ i < j

\* A stable sort of the pods that pass the filters.
FilteredPods ==
    LET passing == {i \in DOMAIN pods : Passes(pods[i])}
        place == [i \in passing |-> Cardinality({j \in passing : Before(j, i)}) + 1]
    IN  [k \in 1..Cardinality(passing) |-> pods[CHOOSE i \in passing : place[i] = k]]

-----------------------------------------------------------------------------
PodsNext ==
    \/ \E u \in Uids, phase \in Phases \cup {"gone"} : ClusterChanges(u, phase)
    \/ WatchBegins \/ WatchEnds
    \/ ServerLists \/ ListArrives \/ ListFails \/ Retry \/ EventArrives \/ Reopen
    \/ \E sel \in SUBSET PodNamespaces : FilterNamespaces(sel)
    \/ \E sel \in SUBSET Phases : OnStatusFilter(sel)
    \/ \E text \in {NoText, "name"} : Search(text)
    \/ \E key \in SortKeys : SetSort(key)

PodsSpec == PodsInit /\ [][PodsNext]_podsVars

-----------------------------------------------------------------------------
PodsTypeOK ==
    /\ cluster \in [Uids -> Phases \cup {"none", "gone"}]
    /\ \A i \in DOMAIN pods : pods[i].uid \in Uids /\ pods[i].phase \in Phases
    /\ podsLoading \in BOOLEAN /\ podsError \in BOOLEAN
    /\ podsLoading => listing # "no" /\ ~podsError
    /\ excludedNamespaces \subseteq PodNamespaces /\ excludedStatuses \subseteq Phases
    /\ sortKey \in SortKeys /\ sortDir \in {"asc", "desc"}

\* However the list and the events cross each other, the table holds each pod
\* once and, when all of both has arrived, exactly the pods of the cluster in the
\* phase they have, unless a change was not reported or an event passed a list.
TableIsTheCluster ==
    /\ \A i, j \in DOMAIN pods : pods[i].uid = pods[j].uid => i = j
    /\ listing = "no" /\ events = <<>> /\ ~lost
          => {pods[i] : i \in DOMAIN pods} = {Row(u) : u \in Alive}

\* A pod is hidden by its namespace exactly if the user took that namespace out
\* when the filter was last changed, whatever pods have come and gone since.
HiddenByTheUser ==
    searchText = NoText /\ excludedStatuses = {} =>
       \A i \in DOMAIN pods :
          pods[i] \in Range(FilteredPods) <=> NsOf[pods[i].uid] \notin unticked

\* What the table promises while lists, events and filters cross.
PodsPromise ==
    /\ TableIsTheCluster
    /\ HiddenByTheUser
=============================================================================
