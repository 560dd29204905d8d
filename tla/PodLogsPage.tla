----------------------------- MODULE PodLogsPage -----------------------------
(***************************************************************************)
(* The page that follows the log of one pod: PodLogsPageComponent with the *)
(* hub invocations it sends, the stream it is pushed and the tails that it *)
(* fetches over HTTP.  Invocations are handled in order; responses arrive  *)
(* in any order.  Line <<p, k>> is the k-th line that pod p has written.   *)
(***************************************************************************)
EXTENDS Naturals, Sequences, SequencesExt, FiniteSets, FiniteSetsExt, Selections

CONSTANTS
    Pods, NoPod,
    Containers,
    Old,            \* Old[p]: who wrote the lines older than the time ranges
    MaxNew,         \* bound: lines written by a pod while the page is open
    MaxRequests,    \* bound: tails under way
    MaxCalls,       \* bound: invocations under way
    InitialTail, LoadMoreChunk, MaxTail,
    MaxLines,
    FollowTail      \* written lines that a started stream begins with

ASSUME PageAssumption ==
    /\ NoPod \notin Pods
    /\ {MaxNew, MaxRequests, MaxCalls} \subseteq Nat
    /\ {InitialTail, LoadMoreChunk, MaxTail, MaxLines, FollowTail} \subseteq Nat \ {0}
    /\ InitialTail <= MaxTail
    /\ IsFiniteSet(Containers)
    /\ Old \in [Pods -> Seq(Containers)]

Ranges == {"seconds", "all"}
Levels == {"Error", "Information"}

VARIABLES
    written,        \* written[p]: the container of each line of p
    selectedPod, selectedRange, tailLineCount, loadingMore, noMoreOlder,
    logs,
    requests,       \* tails under way
    link,           \* the connection to the hub: "up", "starting" or "down"
    calls,          \* invocations under way
    waiting,        \* subscriptions that wait for the connection
    subscribed,     \* the hub's subscriptions of this connection
    unsent,         \* unsent[p]: lines that the stream of p is to push
    unserved        \* history: the subscription of the page was refused, or
                    \* lost with the connection

pageVars == <<written, selectedPod, selectedRange, tailLineCount, loadingMore,
              noMoreOlder, logs, requests, link, calls, waiting, subscribed,
              unsent, unserved>>
stream == <<link, calls, waiting, subscribed, unsent, unserved>>

PageInit ==
    /\ written = Old
    /\ selectedPod = NoPod
    /\ selectedRange = "seconds"
    /\ tailLineCount = 0
    /\ loadingMore = FALSE /\ noMoreOlder = FALSE
    /\ logs = <<>>
    /\ requests = {}
    /\ link = "starting"
    /\ calls = <<>> /\ waiting = <<>>
    /\ subscribed = {}
    /\ unsent = [p \in Pods |-> {}]
    /\ unserved = FALSE

-----------------------------------------------------------------------------
(* GET /api/log/tail                                                       *)

LastOf(s, n) == IF Len(s) <= n THEN s ELSE SubSeq(s, Len(s) - n + 1, Len(s))

Recent(l) == l[2] > Len(Old[l[1]])

\* The lines of container c that n lines or, with 0, a time range ask for,
\* oldest first.
LinesOf(p, c, n) ==
    LET asked == {k \in 1..Len(written[p]) :
                     written[p][k] = c /\ (n = 0 => Recent(<<p, k>>))}
        lines == [i \in 1..Cardinality(asked) |-> <<p, Nth(asked, i)>>]
    IN  IF n = 0 THEN lines ELSE LastOf(lines, n)

\* The answer of the server: container after container.
Tail_(p, n) ==
    FlattenSeq([i \in 1..Cardinality(Containers) |->
                   LinesOf(p, SetToSeq(Containers)[i], n)])

\* fetchTail: how many lines per container are asked for, 0 for a time range.
Wanted(n, range) ==
    IF n > 0 THEN n ELSE IF range = "seconds" THEN 0 ELSE InitialTail

Request(p, n, range, older) ==
    [pod |-> p, lines |-> Wanted(n, range), read |-> FALSE, loadOlder |-> older,
     largest |-> older /\ n >= MaxTail,
     previousLength |-> IF older THEN Len(logs) ELSE 0]

FetchTail(r) ==
    /\ Cardinality(requests) < MaxRequests
    /\ requests' = requests \cup {r}

\* What the page makes of an answer; of a request for older lines, whether more
\* can be asked for.
Response(r, answer) ==
    [logs |-> answer, read |-> TRUE, loadOlder |-> r.loadOlder,
     exhausted |-> r.loadOlder /\ (r.largest \/ Len(answer) <= r.previousLength)]

ServerReads(r) ==
    /\ ~r.read
    /\ requests' = (requests \ {r}) \cup {Response(r, Tail_(r.pod, r.lines))}
    /\ UNCHANGED <<written, selectedPod, selectedRange, tailLineCount,
                   loadingMore, noMoreOlder, logs, stream>>

\* next: whatever pod is shown by now.
TailArrives(r) ==
    /\ r.read
    /\ requests' = requests \ {r}
    /\ logs' = r.logs
    /\ loadingMore' = (loadingMore /\ ~r.loadOlder)
    /\ noMoreOlder' = (r.loadOlder /\ (noMoreOlder \/ r.exhausted))
    /\ UNCHANGED <<written, selectedPod, selectedRange, tailLineCount, stream>>

TailFails(r) ==
    /\ requests' = requests \ {r}
    /\ loadingMore' = FALSE
    /\ UNCHANGED <<written, selectedPod, selectedRange, tailLineCount,
                   noMoreOlder, logs, stream>>

-----------------------------------------------------------------------------
(* Selecting a pod                                                         *)

\* Variant: the new subscription is sent before the old one is given up.
Invocations_Swapped(p) ==
    <<<<"SubscribeToPod", p>>, <<"UnsubscribeFromPod", p>>>>

\* onPodSelect sets the pod before onPodChange gives up "the current" one: both
\* invocations are about the new pod.
Invocations(p) ==
    <<<<"UnsubscribeFromPod", p>>, <<"SubscribeToPod", p>>>>

\* onPodSelect, and applyQueryParams with the pod that the link names.
OnPodSelect(p) ==
    /\ selectedPod' = p
    /\ logs' = <<>>
    /\ tailLineCount' = 0
    /\ noMoreOlder' = FALSE
    /\ FetchTail(Request(p, 0, selectedRange, FALSE))
    /\ CASE link = "up" ->
              /\ Len(calls) + 2 <= MaxCalls
              /\ calls' = calls \o Invocations(p)
              /\ unserved' = FALSE
              /\ UNCHANGED waiting
         [] link = "starting" ->
              /\ Len(waiting) < MaxCalls
              /\ waiting' = Append(waiting, p)
              /\ unserved' = FALSE
              /\ UNCHANGED calls
         [] OTHER -> unserved' = TRUE /\ UNCHANGED <<calls, waiting>>
    /\ UNCHANGED <<written, selectedRange, loadingMore, link, subscribed, unsent>>

\* The selection is cleared: no pod is known to give up.
OnPodClear ==
    /\ selectedPod # NoPod
    /\ selectedPod' = NoPod
    /\ logs' = <<>>
    /\ tailLineCount' = 0
    /\ noMoreOlder' = FALSE
    /\ UNCHANGED <<written, selectedRange, loadingMore, requests, stream>>

OnRangeSelect(range) ==
    /\ selectedRange' = range
    /\ tailLineCount' = 0
    /\ noMoreOlder' = FALSE
    /\ IF selectedPod = NoPod
         THEN UNCHANGED requests
         ELSE FetchTail(Request(selectedPod, 0, range, FALSE))
    /\ UNCHANGED <<written, selectedPod, loadingMore, logs, stream>>

\* The first click changes from the time range to a number of lines.
NextTail ==
    LET next == IF tailLineCount = 0
                  THEN Max({Len(logs) + LoadMoreChunk, InitialTail})
                  ELSE tailLineCount + LoadMoreChunk
    IN  Min({next, MaxTail})

\* The pager below the lines.
Pager ==
    IF selectedPod = NoPod \/ logs = <<>> THEN "none"
    ELSE IF noMoreOlder THEN "noOlder"
    ELSE IF loadingMore THEN "loading" ELSE "loadOlder"

LoadOlder ==
    /\ Pager = "loadOlder"
    /\ tailLineCount' = NextTail
    /\ FetchTail(Request(selectedPod, NextTail, selectedRange, TRUE))
    /\ loadingMore' = TRUE
    /\ UNCHANGED <<written, selectedPod, selectedRange, noMoreOlder, logs, stream>>

Reload ==
    /\ selectedPod # NoPod
    /\ FetchTail(Request(selectedPod, tailLineCount, selectedRange, FALSE))
    /\ UNCHANGED <<written, selectedPod, selectedRange, tailLineCount,
                   loadingMore, noMoreOlder, logs, stream>>

Clear ==
    /\ logs # <<>>
    /\ logs' = <<>>
    /\ UNCHANGED <<written, selectedPod, selectedRange, tailLineCount,
                   loadingMore, noMoreOlder, requests, stream>>

\* ngOnDestroy and a later ngOnInit: the connection is not the page's.
LeaveAndReturn ==
    /\ selectedPod # NoPod
    /\ Len(calls) < MaxCalls
    /\ calls' = IF link = "up"
                  THEN Append(calls, <<"UnsubscribeFromPod", selectedPod>>)
                  ELSE calls
    /\ selectedPod' = NoPod
    /\ selectedRange' = "seconds"
    /\ tailLineCount' = 0
    /\ loadingMore' = FALSE /\ noMoreOlder' = FALSE
    /\ logs' = <<>>
    /\ requests' = {}
    /\ UNCHANGED <<written, link, waiting, subscribed, unsent, unserved>>

-----------------------------------------------------------------------------
(* The stream                                                              *)

\* The stream of p begins with the last lines of each container, unless it runs
\* for another browser already.
Begins(p) ==
    {k \in 1..Len(written[p]) :
        Cardinality({j \in k..Len(written[p]) : written[p][j] = written[p][k]})
           <= FollowTail}

HubHandles ==
    /\ calls # <<>>
    /\ LET p == Head(calls)[2]
       IN  IF Head(calls)[1] = "SubscribeToPod"
             THEN /\ subscribed' = subscribed \cup {p}
                  /\ IF p \in subscribed
                       THEN UNCHANGED unsent
                       ELSE \E lines \in {Begins(p), {}} :
                               unsent' = [unsent EXCEPT ![p] = lines]
             ELSE /\ subscribed' = subscribed \ {p}
                  /\ unsent' = [unsent EXCEPT ![p] = {}]
    /\ calls' = Tail(calls)
    /\ UNCHANGED <<written, selectedPod, selectedRange, tailLineCount,
                   loadingMore, noMoreOlder, logs, requests, link, waiting,
                   unserved>>

\* A container writes a line, which is to be pushed to the subscribers.
Writes(p, c) ==
    /\ Len(written[p]) < Len(Old[p]) + MaxNew
    /\ written' = [written EXCEPT ![p] = Append(@, c)]
    /\ unsent' = IF p \in subscribed
                   THEN [unsent EXCEPT ![p] = @ \cup {Len(written[p]) + 1}]
                   ELSE unsent
    /\ UNCHANGED <<selectedPod, selectedRange, tailLineCount, loadingMore,
                   noMoreOlder, logs, requests, link, calls, waiting,
                   subscribed, unserved>>

\* Variant: the feed grows.
AppendLogs_All(p, k) ==
    /\ k \in unsent[p]
    /\ \A j \in unsent[p] : written[p][j] = written[p][k] => j >= k
    /\ unsent' = [unsent EXCEPT ![p] = @ \ {k}]
    /\ logs' = Append(logs, <<p, k>>)
    /\ UNCHANGED <<written, selectedPod, selectedRange, tailLineCount, loadingMore,
                   noMoreOlder, requests, link, calls, waiting, subscribed,
                   unserved>>

\* appendLogs: the newest MaxLines of what is there and the batch, which is the
\* next line of a container.
AppendLogs(p, k) ==
    /\ k \in unsent[p]
    /\ \A j \in unsent[p] : written[p][j] = written[p][k] => j >= k
    /\ unsent' = [unsent EXCEPT ![p] = @ \ {k}]
    /\ logs' = LastOf(Append(logs, <<p, k>>), MaxLines)
    /\ UNCHANGED <<written, selectedPod, selectedRange, tailLineCount, loadingMore,
                   noMoreOlder, requests, link, calls, waiting, subscribed,
                   unserved>>

\* The connection is there: subscriptions that waited are sent.
LinkUp ==
    /\ link # "up"
    /\ link' = "up"
    /\ calls' = [i \in DOMAIN waiting |-> <<"SubscribeToPod", waiting[i]>>]
    /\ waiting' = <<>>
    /\ UNCHANGED <<written, selectedPod, selectedRange, tailLineCount,
                   loadingMore, noMoreOlder, logs, requests, subscribed, unsent,
                   unserved>>

\* It is lost, or its start fails: the hub drops its subscriptions, and the page
\* does not renew them.
LinkDown ==
    /\ link # "down"
    /\ link' = "down"
    /\ calls' = <<>> /\ waiting' = <<>>
    /\ subscribed' = {}
    /\ unsent' = [p \in Pods |-> {}]
    /\ unserved' = TRUE
    /\ UNCHANGED <<written, selectedPod, selectedRange, tailLineCount,
                   loadingMore, noMoreOlder, logs, requests>>

-----------------------------------------------------------------------------
(* What is shown                                                           *)

LevelOf(l) == IF l[2] % 2 = 0 THEN "Error" ELSE "Information"
DayOf(l) == IF Recent(l) THEN "today" ELSE "earlier"

\* onLevelsChange: no level means all.
SelectedLevels(levels) == IF levels = {} THEN Levels ELSE levels

VisibleLogs(levels) ==
    Picked(logs, {i \in DOMAIN logs :
                     /\ LevelOf(logs[i]) \in SelectedLevels(levels)
                     /\ selectedRange = "seconds" => Recent(logs[i])})

FeedStep(rows, l) ==
    IF rows # <<>> /\ DayOf(Last(rows).of) = DayOf(l)
    THEN Append(rows, [kind |-> "log", of |-> l])
    ELSE rows \o <<[kind |-> "date", of |-> l], [kind |-> "log", of |-> l]>>

\* feed: the lines backwards, a divider where the day changes.
FeedOf(lines) ==
    LET rows[n \in 0..Len(lines)] ==
            IF n = 0 THEN <<>> ELSE FeedStep(rows[n - 1], lines[n])
    IN  rows[Len(lines)]
Feed(levels) == FeedOf(Reverse(VisibleLogs(levels)))

-----------------------------------------------------------------------------
PageNext ==
    \/ \E r \in requests : ServerReads(r) \/ TailArrives(r) \/ TailFails(r)
    \/ \E p \in Pods : OnPodSelect(p)
    \/ \E range \in Ranges : OnRangeSelect(range)
    \/ OnPodClear \/ LoadOlder \/ Reload \/ Clear \/ LeaveAndReturn
    \/ HubHandles \/ LinkUp \/ LinkDown
    \/ \E p \in Pods, c \in Containers : Writes(p, c)
    \/ \E p \in Pods : \E k \in unsent[p] : AppendLogs(p, k)

PageSpec == PageInit /\ [][PageNext]_pageVars

-----------------------------------------------------------------------------
Lines == UNION {{p} \X (1..Len(written[p])) : p \in Pods}

PageTypeOK ==
    /\ \A p \in Pods : IsPrefix(Old[p], written[p])
    /\ selectedPod \in Pods \cup {NoPod}
    /\ selectedRange \in Ranges
    /\ tailLineCount \in 0..MaxTail
    /\ loadingMore \in BOOLEAN /\ noMoreOlder \in BOOLEAN
    /\ Range(logs) \subseteq Lines
    /\ Len(logs) <= Max({MaxLines, Max({MaxTail, MaxNew}) * Cardinality(Containers)})
    /\ \A r \in requests : IF r.read THEN Range(r.logs) \subseteq Lines
                                     ELSE r.pod \in Pods /\ r.lines \in 0..MaxTail
    /\ link \in {"up", "starting", "down"}
    /\ link # "up" => calls = <<>> /\ subscribed = {}
    /\ subscribed \subseteq Pods
    /\ \A p \in Pods : /\ unsent[p] \subseteq 1..Len(written[p])
                      /\ p \notin subscribed => unsent[p] = {}
    /\ unserved \in BOOLEAN

\* The hub streams the selected pod once it has worked through the invocations,
\* in whatever order the user selects pods while the connection comes and goes,
\* unless the subscription was refused or lost with the connection.
SelectedIsStreamed ==
    selectedPod # NoPod /\ calls = <<>> /\ link = "up"
       => selectedPod \in subscribed \/ unserved

\* Whatever the lines and filters: the feed shows each visible line, from the
\* last to the first, and each below a divider of its day or a line of that day.
FeedIsComplete ==
    logs # <<>> => \A levels \in SUBSET Levels :
       LET feed == Feed(levels)
           OfDay(i) == DayOf(feed[i].of)
           lines == Picked(feed, {i \in DOMAIN feed : feed[i].kind = "log"})
       IN  /\ [i \in DOMAIN lines |-> lines[i].of] = Reverse(VisibleLogs(levels))
           /\ \A i \in DOMAIN feed :
                 IF feed[i].kind = "date"
                   THEN /\ i = 1 \/ OfDay(i - 1) # OfDay(i)
                        /\ feed[i + 1].kind = "log"
                   ELSE i > 1 /\ OfDay(i - 1) = OfDay(i)

\* "Load older" is disabled only while its request is under way, also when the
\* pod or the range has changed meanwhile.
LoadingIsUnderWay == loadingMore => \E r \in requests : r.loadOlder

\* What the page promises: it is fed with the selected pod, shows all of its
\* lines, and "Load older" comes back (PodLogsPageComponent).
LogsPagePromise ==
    /\ SelectedIsStreamed
    /\ FeedIsComplete
    /\ LoadingIsUnderWay
=============================================================================
