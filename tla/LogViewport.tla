----------------------------- MODULE LogViewport -----------------------------
(***************************************************************************)
(* The log list of the main log page: LogViewportComponent with the        *)
(* services it keeps its list with (log processing, grouping, live         *)
(* updates, memory limit).  Pages come from the log endpoint, newest       *)
(* first; lines that are written meanwhile are pushed.  A page is filtered *)
(* by the server, with the three-state filter; a pushed line is filtered   *)
(* in the browser, with the selected levels.                               *)
(***************************************************************************)
EXTENDS Integers, Sequences, SequencesExt, FiniteSets, FiniteSetsExt, Selections

CONSTANTS
    LevelOf,        \* LevelOf[n]: the level (and the text) of the n-th log written
    TriStates,      \* filters the user may choose: [inc: levels, exc: levels]
    PageSize,
    MemoryLimits,   \* values of maxLogsInMemory
    InitialLogs,    \* bound: logs written before the page is opened
    MaxBatch,       \* bound: lines that are pushed at once
    MaxTurns        \* bound: actions of the user

Logs == 1..Len(LevelOf)
LogLevels == Range(LevelOf)

ASSUME ViewportAssumption ==
    /\ LevelOf \in Seq(LogLevels) /\ InitialLogs \in 0..Len(LevelOf)
    /\ MaxBatch \in Nat /\ MaxTurns \in Nat
    /\ PageSize \in Nat \ {0} /\ MemoryLimits \subseteq Nat \ {0}

NoRequest == [page |-> 0, tri |-> [inc |-> {}, exc |-> {}], read |-> FALSE, at |-> 0,
              answer |-> <<>>]

VARIABLES
    stored,         \* logs written so far
    pushed,         \* of them, those on their way to the browser
    tri,            \* triStateLogLevel
    selectedLogLevel,
    page,
    firstPage,      \* the request of the filters' subscription
    nextPage,       \* the request of $loadMoreTrigger
    filtersOn, triggerOn,   \* the two subscriptions live: an error ends one
    logs,           \* entries [log, from]: the ids of a page and of a push differ
    monitoring,
    isLiveUpdatesEnabled, queuedLogs,
    maxLogsInMemory,
    isGroupingEnabled, expanded,    \* expanded: the first positions of open groups
    turns,
    shownAt,        \* history: the logs there were when the first page was read
    lastPage,       \* history: the last page that was put into the list
    stale,          \* history: a page was put behind the list that does not follow it
    missed          \* history: a line was pushed and not put into the list

requests == <<firstPage, nextPage, filtersOn, triggerOn, page>>
options == <<tri, selectedLogLevel, isLiveUpdatesEnabled, queuedLogs, maxLogsInMemory,
             isGroupingEnabled>>
history == <<shownAt, lastPage>>
viewportVars == <<stored, pushed, options, requests, logs, monitoring, expanded, turns,
                  history, stale, missed>>

\* extractTriStateFilters: empty arrays filter nothing.
Admits(t, n) ==
    /\ t.inc = {} \/ LevelOf[n] \in t.inc
    /\ LevelOf[n] \notin t.exc
\* The filter of pushed lines.
Selected(n) == selectedLogLevel = {} \/ LevelOf[n] \in selectedLogLevel

Paged(ns) == [i \in 1..Len(ns) |-> [log |-> ns[i], from |-> "page"]]
Pushed(ns) == [i \in 1..Len(ns) |-> [log |-> ns[i], from |-> "push"]]

ViewportInit ==
    /\ stored \in 0..InitialLogs
    /\ pushed = <<>>
    /\ tri \in TriStates /\ selectedLogLevel = {}
    /\ page = 1
    /\ firstPage = [NoRequest EXCEPT !.page = 1, !.tri = tri]
    /\ nextPage = NoRequest
    /\ filtersOn = TRUE /\ triggerOn = TRUE
    /\ logs = <<>>
    /\ monitoring = FALSE
    /\ isLiveUpdatesEnabled = TRUE /\ queuedLogs = <<>>
    /\ maxLogsInMemory \in MemoryLimits
    /\ isGroupingEnabled \in BOOLEAN /\ expanded = {}
    /\ turns = 0
    /\ shownAt = 0 /\ lastPage = 0 /\ stale = FALSE /\ missed = FALSE

-----------------------------------------------------------------------------
(* LogProcessingService                                                    *)

\* sortLogs: newest first.
SortLogs(ns) ==
    Arranged(ns, {x \in (DOMAIN ns) \X (DOMAIN ns) :
                     \/ ns[x[1]] > ns[x[2]]
                     \/ ns[x[1]] = ns[x[2]] /\ x[1] < x[2]})

\* Variant: every line that is not the newest one is new.
DeduplicateLogs_ById(ns, old) ==
    IF old = <<>> THEN ns ELSE Picked(ns, {i \in DOMAIN ns : ns[i] # old[1].log})

\* deduplicateLogs: what is older than the newest entry is taken to be known; of the
\* same age, what has another id is new.
DeduplicateLogs(ns, old) ==
    IF old = <<>> THEN ns
    ELSE Picked(ns, {i \in DOMAIN ns : \/ ns[i] > old[1].log
                                       \/ ns[i] = old[1].log /\ old[1].from = "page"})

ApplyMemoryLimit(s) == SubSeq(s, 1, Min({Len(s), maxLogsInMemory}))
ProcessNewLogs(ns) == ApplyMemoryLimit(Pushed(DeduplicateLogs(SortLogs(ns), logs)) \o logs)
ProcessAppendLogs(ns) == ApplyMemoryLimit(logs \o Paged(ns))

-----------------------------------------------------------------------------
(* LogGroupingService                                                      *)

\* groupLogs: runs of entries with the same text; those of one entry are no group.
Groups(s) ==
    IF ~isGroupingEnabled THEN {}
    ELSE {i \in 1..Len(s) - 1 :
             /\ LevelOf[s[i].log] = LevelOf[s[i + 1].log]
             /\ i = 1 \/ LevelOf[s[i - 1].log] # LevelOf[s[i].log]}

\* The effect on the list and the grouping: every group is made anew, closed.
Regroup == expanded' = {}

ToggleGroupExpansion(i) ==
    /\ turns < MaxTurns /\ turns' = turns + 1
    /\ i \in Groups(logs)
    /\ expanded' = IF i \in expanded THEN expanded \ {i} ELSE expanded \cup {i}
    /\ UNCHANGED <<stored, pushed, options, requests, logs, monitoring, history, stale, missed>>

ToggleGrouping ==
    /\ turns < MaxTurns /\ turns' = turns + 1
    /\ isGroupingEnabled' = ~isGroupingEnabled
    /\ Regroup
    /\ UNCHANGED <<stored, pushed, tri, selectedLogLevel, isLiveUpdatesEnabled, queuedLogs,
                   maxLogsInMemory, requests, logs, monitoring, history, stale, missed>>

-----------------------------------------------------------------------------
(* The log endpoint                                                        *)

Matching(t, written) == SortLogs(SetToSeq({n \in 1..written : Admits(t, n)}))
PageOf(t, p) == LET all == Matching(t, stored) IN
                SubSeq(all, (p - 1) * PageSize + 1, Min({p * PageSize, Len(all)}))

WriteLog ==
    /\ stored < Len(LevelOf)
    /\ stored' = stored + 1
    /\ pushed' = Append(pushed, stored + 1)
    /\ UNCHANGED <<options, requests, logs, monitoring, expanded, turns, history, stale, missed>>

ReadFirstPage ==
    /\ firstPage.page > 0 /\ ~firstPage.read
    /\ firstPage' = [firstPage EXCEPT !.read = TRUE, !.at = stored,
                                      !.answer = PageOf(firstPage.tri, firstPage.page)]
    /\ missed' = FALSE
    /\ UNCHANGED <<stored, pushed, options, nextPage, filtersOn, triggerOn, page, logs,
                   monitoring, expanded, turns, history, stale>>

ReadNextPage ==
    /\ nextPage.page > 0 /\ ~nextPage.read
    /\ nextPage' = [nextPage EXCEPT !.read = TRUE, !.at = stored,
                                    !.answer = PageOf(nextPage.tri, nextPage.page)]
    /\ UNCHANGED <<stored, pushed, options, firstPage, filtersOn, triggerOn, page, logs,
                   monitoring, expanded, turns, history, stale, missed>>

-----------------------------------------------------------------------------
(* The subscriptions of the constructor                                    *)

\* switchMap: the request that was under way is dropped.
Fetch(t) == firstPage' = [NoRequest EXCEPT !.page = 1, !.tri = t]

ChooseFilter(t) ==
    /\ turns < MaxTurns /\ turns' = turns + 1
    /\ t # tri
    /\ tri' = t
    /\ IF filtersOn THEN Fetch(t) /\ page' = 1 ELSE UNCHANGED <<firstPage, page>>
    /\ UNCHANGED <<stored, pushed, selectedLogLevel, isLiveUpdatesEnabled, queuedLogs,
                   maxLogsInMemory, isGroupingEnabled, nextPage, filtersOn, triggerOn, logs,
                   monitoring, expanded, history, stale, missed>>

FirstPageArrives ==
    /\ firstPage.read
    /\ firstPage' = NoRequest
    /\ logs' = Paged(firstPage.answer)
    /\ Regroup
    /\ monitoring' = TRUE
    /\ stale' = FALSE /\ shownAt' = firstPage.at /\ lastPage' = 1
    /\ UNCHANGED <<stored, pushed, options, nextPage, filtersOn, triggerOn, page, turns,
                   missed>>

\* Without catchError an error ends the subscription: no filter is followed any more.
FirstPageFails ==
    /\ firstPage.page > 0
    /\ firstPage' = NoRequest
    /\ filtersOn' = FALSE
    /\ UNCHANGED <<stored, pushed, options, nextPage, triggerOn, page, logs, monitoring,
                   expanded, turns, history, stale, missed>>

\* The button is there when the list has entries.
LoadMore ==
    /\ turns < MaxTurns /\ turns' = turns + 1
    /\ logs # <<>>
    /\ triggerOn
    /\ page' = page + 1
    /\ nextPage' = [NoRequest EXCEPT !.page = page + 1, !.tri = tri]
    /\ UNCHANGED <<stored, pushed, options, firstPage, filtersOn, triggerOn, logs,
                   monitoring, expanded, history, stale, missed>>

\* A change of the filter does not drop the page that is under way, and pages are
\* counted from the newest log, which is another one when logs have been written since.
Follows(r) == /\ r.tri = tri /\ r.page = page /\ r.page = lastPage + 1 /\ r.at = shownAt
              /\ firstPage = NoRequest /\ filtersOn

NextPageArrives ==
    /\ nextPage.read
    /\ nextPage' = NoRequest
    /\ IF nextPage.answer = <<>> THEN UNCHANGED <<logs, expanded, stale, lastPage>>
       ELSE /\ logs' = ProcessAppendLogs(nextPage.answer)
            /\ stale' = (stale \/ ~Follows(nextPage))
            /\ lastPage' = nextPage.page
            /\ Regroup
    /\ UNCHANGED <<stored, pushed, options, firstPage, filtersOn, triggerOn, page,
                   monitoring, turns, shownAt, missed>>

NextPageFails ==
    /\ nextPage.page > 0
    /\ nextPage' = NoRequest
    /\ triggerOn' = FALSE
    /\ UNCHANGED <<stored, pushed, options, firstPage, filtersOn, page, logs, monitoring,
                   expanded, turns, history, stale, missed>>

-----------------------------------------------------------------------------
(* startSignalR and LiveUpdatesService                                     *)

\* A batch of k lines.
PushArrives(k) ==
    /\ k <= Len(pushed)
    /\ pushed' = SubSeq(pushed, k + 1, Len(pushed))
    /\ LET lines == SubSeq(pushed, 1, k)
           batch == Picked(lines, {i \in DOMAIN lines : Selected(lines[i])})
       IN
       /\ missed' = \/ missed \/ batch # lines
                    \/ firstPage.read /\ Last(lines) > firstPage.at
                    \/ firstPage = NoRequest /\ ~monitoring
       /\ IF ~monitoring THEN UNCHANGED <<logs, queuedLogs, expanded>>
          ELSE IF ~isLiveUpdatesEnabled
                 THEN /\ queuedLogs' = queuedLogs \o batch
                      /\ UNCHANGED <<logs, expanded>>
                 ELSE /\ logs' = ProcessNewLogs(queuedLogs \o batch)
                      /\ queuedLogs' = <<>>
                      /\ Regroup
    /\ UNCHANGED <<stored, tri, selectedLogLevel, isLiveUpdatesEnabled, maxLogsInMemory,
                   isGroupingEnabled, requests, monitoring, turns, history, stale>>

ClearQueue == queuedLogs' = <<>>

ToggleLiveUpdates ==
    /\ turns < MaxTurns /\ turns' = turns + 1
    /\ isLiveUpdatesEnabled' = ~isLiveUpdatesEnabled
    /\ IF isLiveUpdatesEnabled' THEN ClearQueue ELSE UNCHANGED queuedLogs
    /\ missed' = (missed \/ (isLiveUpdatesEnabled' /\ queuedLogs # <<>>))
    /\ UNCHANGED <<stored, pushed, tri, selectedLogLevel, maxLogsInMemory,
                   isGroupingEnabled, requests, logs, monitoring, expanded, history, stale>>

\* A shortcut, the badge of errors or the context menu; an empty choice selects all.
Select(levels) ==
    /\ turns < MaxTurns /\ turns' = turns + 1
    /\ levels # selectedLogLevel
    /\ selectedLogLevel' = levels
    /\ UNCHANGED <<stored, pushed, tri, isLiveUpdatesEnabled, queuedLogs, maxLogsInMemory,
                   isGroupingEnabled, requests, logs, monitoring, expanded, history, stale, missed>>

OnlyLevel(l) == Select({l})
HideLevel(l) == Select((IF selectedLogLevel = {} THEN LogLevels ELSE selectedLogLevel) \ {l})

ViewportNext ==
    \/ WriteLog \/ ReadFirstPage \/ ReadNextPage
    \/ FirstPageArrives \/ FirstPageFails \/ NextPageArrives \/ NextPageFails
    \/ \E k \in 1..MaxBatch : PushArrives(k)
    \/ \E t \in TriStates : ChooseFilter(t)
    \/ LoadMore \/ ToggleLiveUpdates \/ ToggleGrouping
    \/ \E l \in LogLevels : OnlyLevel(l) \/ HideLevel(l)
    \/ \E i \in Logs : ToggleGroupExpansion(i)

ViewportSpec == ViewportInit /\ [][ViewportNext]_viewportVars

-----------------------------------------------------------------------------
(* Properties                                                              *)

ViewportTypeOK ==
    /\ stored \in 0..Len(LevelOf) /\ \A i \in 1..Len(pushed) : pushed[i] \in Logs
    /\ tri \in TriStates /\ selectedLogLevel \subseteq LogLevels
    /\ page \in Nat \ {0}
    /\ \A i \in 1..Len(logs) : logs[i].log \in Logs /\ logs[i].from \in {"page", "push"}
    /\ turns \in 0..MaxTurns

\* The newest entries are at the top: a batch that is sorted and cleared of older lines
\* can be put before the list without sorting the list again, and a page behind it.
NewestAtTop ==
    ~stale => \A i \in 1..Len(logs) - 1 : logs[i].log >= logs[i + 1].log

\* When no request of the filters is under way, the entries that came from pages are
\* those the present filter admits, whatever was asked for before.
PagesMatchFilter ==
    ~stale /\ filtersOn /\ firstPage = NoRequest =>
        \A i \in 1..Len(logs) : logs[i].from = "page" => Admits(tri, logs[i].log)

\* While nothing has been left out (a line pushed before the answer with the page that
\* was read before it, one that was not selected, one that the end of a pause dropped, a
\* page that was skipped), no line that the filter admits is missing above the oldest
\* entry: it is in the list, held back by a pause or on its way.
NoLineMissing ==
    LET shown == {logs[i].log : i \in 1..Len(logs)} IN
    ~stale /\ ~missed /\ firstPage = NoRequest /\ filtersOn /\ logs # <<>> =>
        \A n \in Min(shown)..stored :
            Admits(tri, n) => n \in shown \cup Range(pushed) \cup Range(queuedLogs)

\* Lines that were held back while the list was paused never come in after it went on.
QueueEndsWithPause == isLiveUpdatesEnabled => queuedLogs = <<>>

\* An open group is a group of the list as it is now.
OpenGroupsExist == expanded \subseteq Groups(logs)

\* What the list promises in whatever order pages, filter changes, pauses and
\* pushed lines come.
ViewportPromise ==
    /\ NewestAtTop
    /\ PagesMatchFilter
    /\ NoLineMissing
    /\ QueueEndsWithPause
    /\ OpenGroupsExist
=============================================================================
