---------------------------- MODULE ClusterWatch ----------------------------
(***************************************************************************)
(* ClusterWatchManager, the hub that drives it (KubernetesDashboardHub)    *)
(* and the start/stop count of PodMonitorService it holds.                 *)
(*                                                                         *)
(* Under one lock the manager counts dashboard connections.  The first one *)
(* starts a generation of tasks (a metrics loop, the watches, and the loops *)
(* of the pod monitor), the last one cancels it.  Cancelling does not wait: *)
(* the tasks of a cancelled generation finish the call they are in while   *)
(* the next generation already runs.                                       *)
(***************************************************************************)
EXTENDS Naturals, FiniteSets

CONSTANTS
    Conns,          \* dashboard connections
    Watches,        \* the resources watched: nodes, pods, events
    Loops,          \* the loops of PodMonitorService: log scan, metrics
    MaxGen,         \* bound: how often the watchers are started
    MaxVersion      \* bound: versions of the cluster's state

ASSUME ConnsAssumption == IsFiniteSet(Conns)
ASSUME WatchBoundsAssumption == MaxGen \in Nat /\ MaxVersion \in Nat \ {0}
ASSUME ChannelsAssumption == "metrics" \notin Watches

Gens == 1..MaxGen
Channels == Watches \cup {"metrics"}
Versions == 0..MaxVersion           \* 0: nothing received yet

VARIABLES
    attached,       \* connections whose OnConnectedAsync has run
    group,          \* SignalR group "cluster-default"
    subscribers,    \* _subscribers
    genMade,        \* generations started so far
    gen,            \* the generation of _cts, 0 for null
    cancelled,      \* generations whose source is cancelled
    task,           \* task[g][ch]: where a task of generation g is
    got,            \* got[g][ch]: the version it has read and not passed on
    cache,          \* the cached cluster metrics: version, storing generation
    shown,          \* shown[c][ch]: last push to a connection, likewise
    started,        \* PodMonitorService._started
    monitorMade,    \* monitor generations so far
    monitorGen,     \* the generation of PodMonitorService._cts, 0 for null
    monitorCancelled,
    loop,           \* loop[g][l]: a loop of monitor generation g
    version,        \* the API server's state
    up              \* FALSE once the manager is disposed

lockVars == <<subscribers, genMade, gen, cancelled>>
monitorGenVars == <<started, monitorMade, monitorGen, monitorCancelled, loop>>
flowVars == <<task, got, cache, shown>>
watchVars == <<attached, group, lockVars, flowVars, monitorGenVars, version, up>>

TaskStates == {"unmade", "queued", "head", "calling", "answered", "pushing",
               "delay", "ended"}
LoopStates == {"unmade", "queued", "running", "ended"}

Received == [version : Versions, by : 0..MaxGen]
Nothing == [version |-> 0, by |-> 0]

WatchInit ==
    /\ attached = {} /\ group = {}
    /\ subscribers = 0 /\ genMade = 0 /\ gen = 0 /\ cancelled = {}
    /\ task = [g \in Gens |-> [ch \in Channels |-> "unmade"]]
    /\ got = [g \in Gens |-> [ch \in Channels |-> 0]]
    /\ cache = Nothing
    /\ shown = [c \in Conns |-> [ch \in Channels |-> Nothing]]
    /\ started = 0 /\ monitorMade = 0 /\ monitorGen = 0
    /\ monitorCancelled = {}
    /\ loop = [g \in Gens |-> [l \in Loops |-> "unmade"]]
    /\ version = 1
    /\ up = TRUE

-----------------------------------------------------------------------------
(* PodMonitorService.Start and Stop: they count their callers too.         *)

MonitorStart ==
    IF started > 0
      THEN /\ started' = started + 1
           /\ UNCHANGED <<monitorMade, monitorGen, monitorCancelled, loop>>
      ELSE /\ started' = 1
           /\ monitorMade' = monitorMade + 1
           /\ monitorGen' = monitorMade + 1
           /\ loop' = [loop EXCEPT ![monitorMade + 1] = [l \in Loops |-> "queued"]]
           /\ UNCHANGED monitorCancelled

MonitorStop ==
    IF started = 0
      THEN UNCHANGED monitorGenVars
      ELSE /\ started' = started - 1
           /\ IF started > 1
                THEN UNCHANGED <<monitorGen, monitorCancelled>>
                ELSE /\ monitorCancelled' = monitorCancelled
                                              \cup ({monitorGen} \ {0})
                     /\ monitorGen' = 0
           /\ UNCHANGED <<monitorMade, loop>>

-----------------------------------------------------------------------------
(* The manager: everything under _gate is one step.                        *)

StartWatchers ==
    /\ cancelled' = cancelled \cup ({gen} \ {0})
    /\ genMade' = genMade + 1
    /\ gen' = genMade + 1
    /\ task' = [task EXCEPT ![genMade + 1] = [ch \in Channels |-> "queued"]]
    /\ MonitorStart

\* Variant: the source is forgotten without being cancelled.
StopWatchers_NoCancel ==
    /\ gen' = 0
    /\ UNCHANGED <<genMade, cancelled, task>>
    /\ MonitorStop

\* Variant: the pod monitor is left running.
StopWatchers_NoMonitorStop ==
    /\ cancelled' = cancelled \cup ({gen} \ {0})
    /\ gen' = 0
    /\ UNCHANGED <<genMade, task, monitorGenVars>>

StopWatchers ==
    /\ cancelled' = cancelled \cup ({gen} \ {0})
    /\ gen' = 0
    /\ UNCHANGED <<genMade, task>>
    /\ MonitorStop

AddSubscriber ==
    /\ subscribers' = subscribers + 1
    /\ IF subscribers' = 1
         THEN StartWatchers
         ELSE UNCHANGED <<genMade, gen, cancelled, task, monitorGenVars>>

\* Variant: the watchers stop while one connection is left.
RemoveSubscriber_OffByOne ==
    IF subscribers = 0
      THEN UNCHANGED <<lockVars, task, monitorGenVars>>
      ELSE /\ subscribers' = subscribers - 1
           /\ IF subscribers' <= 1
                THEN StopWatchers
                ELSE UNCHANGED <<genMade, gen, cancelled, task, monitorGenVars>>

RemoveSubscriber ==
    IF subscribers = 0
      THEN UNCHANGED <<lockVars, task, monitorGenVars>>
      ELSE /\ subscribers' = subscribers - 1
           /\ IF subscribers' = 0
                THEN StopWatchers
                ELSE UNCHANGED <<genMade, gen, cancelled, task, monitorGenVars>>

\* OnConnectedAsync.
Connect(c) ==
    /\ up /\ c \notin attached
    /\ genMade < MaxGen /\ monitorMade < MaxGen
    /\ attached' = attached \cup {c}
    /\ AddSubscriber
    /\ UNCHANGED <<group, got, cache, shown, version, up>>

\* OnDisconnectedAsync; SignalR takes the connection out of its groups.
Disconnect(c) ==
    /\ c \in attached
    /\ attached' = attached \ {c}
    /\ group' = group \ {c}
    /\ shown' = [shown EXCEPT ![c] = [ch \in Channels |-> Nothing]]
    /\ RemoveSubscriber
    /\ UNCHANGED <<got, cache, version, up>>

SubscribeToCluster(c) ==
    /\ c \in attached
    /\ group' = group \cup {c}
    /\ UNCHANGED <<attached, lockVars, flowVars, monitorGenVars, version, up>>

UnsubscribeFromCluster(c) ==
    /\ c \in attached
    /\ group' = group \ {c}
    /\ UNCHANGED <<attached, lockVars, flowVars, monitorGenVars, version, up>>

\* DisposeAsync of the manager, then of the pod monitor it depends on; a
\* connection may still be closing.
DisposeAsync ==
    /\ up
    /\ up' = FALSE
    /\ subscribers' = 0
    /\ StopWatchers
    /\ UNCHANGED <<attached, group, got, cache, shown, version>>

DisposeMonitor ==
    /\ ~up
    /\ started' = 0
    /\ monitorCancelled' = monitorCancelled \cup ({monitorGen} \ {0})
    /\ monitorGen' = 0
    /\ UNCHANGED <<attached, group, lockVars, flowVars, monitorMade, loop,
                   version, up>>

-----------------------------------------------------------------------------
(* The tasks of a generation.  Token checks are made at the loop heads and *)
(* in the delay; GetMetrics takes no token at all.                         *)

Moves(g, ch, from, to) ==
    /\ task[g][ch] = from
    /\ task' = [task EXCEPT ![g][ch] = to]
    /\ UNCHANGED <<attached, group, lockVars, monitorGenVars, version, up>>

\* Task.Run(loop, token): a task cancelled before it starts never runs.
TaskStarts(g, ch) ==
    /\ Moves(g, ch, "queued", IF g \in cancelled THEN "ended" ELSE "head")
    /\ UNCHANGED <<got, cache, shown>>

\* while (!token.IsCancellationRequested), then the call to the API server.
\* The call that opens a watch counts as one: a watch reads frame after frame.
Call(g, ch) ==
    /\ Moves(g, ch, "head", IF g \in cancelled THEN "ended" ELSE "calling")
    /\ UNCHANGED <<got, cache, shown>>

\* The API server answers with its state, or sends the next watch frame.
Answer(g, ch) ==
    /\ Moves(g, ch, "calling", "answered")
    /\ got' = [got EXCEPT ![g][ch] = version]
    /\ UNCHANGED <<cache, shown>>

\* MetricsLoop stores the answer in the cache and then pushes it.
Store(g) ==
    /\ Moves(g, "metrics", "answered", "pushing")
    /\ cache' = [version |-> got[g]["metrics"], by |-> g]
    /\ UNCHANGED <<got, shown>>

ShowTo(conns, ch, g) ==
    shown' = [c \in Conns |->
                IF c \in conns
                  THEN [shown[c] EXCEPT ![ch] = [version |-> got[g][ch], by |-> g]]
                  ELSE shown[c]]

\* SendClusterUpdate to the group; then the loop waits.
PushMetrics(g) ==
    /\ Moves(g, "metrics", "pushing", "delay")
    /\ ShowTo(group, "metrics", g)
    /\ UNCHANGED <<got, cache>>

\* onEvent of a watch: SendNodeUpdate, SendClusterPodUpdate, SendEventUpdate.
PushEvent(g, w) ==
    /\ Moves(g, w, "answered", "head")
    /\ ShowTo(group, w, g)
    /\ UNCHANGED <<got, cache>>

\* The metrics call fails: a transient error or any other, the loop goes on
\* after a delay.
MetricsFails(g) ==
    /\ Moves(g, "metrics", "calling", "delay")
    /\ UNCHANGED <<got, cache, shown>>

\* The metrics call is cancelled by its own HTTP timeout: the exception is an
\* OperationCanceledException, caught by the clause that breaks the loop.
MetricsTimesOut(g) ==
    /\ Moves(g, "metrics", "calling", "ended")
    /\ UNCHANGED <<got, cache, shown>>

\* Variant: the loop repeats its call after the delay whatever the token says.
PollDelayEnds_NoToken(g) ==
    /\ Moves(g, "metrics", "delay", "calling")
    /\ UNCHANGED <<got, cache, shown>>

\* Task.Delay(delay, token).
PollDelayEnds(g) ==
    /\ Moves(g, "metrics", "delay", IF g \in cancelled THEN "ended" ELSE "head")
    /\ UNCHANGED <<got, cache, shown>>

\* The read of a watch is cancelled.
WatchCancelled(g, w) ==
    /\ g \in cancelled
    /\ Moves(g, w, "calling", "ended")
    /\ UNCHANGED <<got, cache, shown>>

\* The API server closes a watch, or it fails: the task logs and is over.
WatchCloses(g, w) ==
    /\ Moves(g, w, "calling", "ended")
    /\ UNCHANGED <<got, cache, shown>>

GoLoop(g, l, from, to) ==
    /\ loop[g][l] = from
    /\ loop' = [loop EXCEPT ![g][l] = to]
    /\ UNCHANGED <<attached, group, lockVars, flowVars, started, monitorMade,
                   monitorGen, monitorCancelled, version, up>>

\* LogScanLoop and MetricsLoop of the pod monitor, as far as start and stop go
\* (module PodMonitor models what they do).
LoopStarts(g, l) ==
    GoLoop(g, l, "queued", IF g \in monitorCancelled THEN "ended" ELSE "running")

LoopCancelled(g, l) ==
    /\ g \in monitorCancelled
    /\ GoLoop(g, l, "running", "ended")

\* The cluster changes.
ClusterChanges ==
    /\ version < MaxVersion
    /\ version' = version + 1
    /\ UNCHANGED <<attached, group, lockVars, flowVars, monitorGenVars, up>>

-----------------------------------------------------------------------------
ChannelStep(g, ch) ==
    TaskStarts(g, ch) \/ Call(g, ch) \/ Answer(g, ch)

MetricsStep(g) ==
    \/ ChannelStep(g, "metrics")
    \/ Store(g) \/ PushMetrics(g) \/ PollDelayEnds(g)
    \/ MetricsFails(g) \/ MetricsTimesOut(g)

WatchStep(g, w) ==
    ChannelStep(g, w) \/ PushEvent(g, w) \/ WatchCancelled(g, w)

LoopStep(g, l) == LoopStarts(g, l) \/ LoopCancelled(g, l)

WatchNext ==
    \/ \E c \in Conns : \/ Connect(c) \/ Disconnect(c)
                        \/ SubscribeToCluster(c) \/ UnsubscribeFromCluster(c)
    \/ DisposeAsync
    \/ DisposeMonitor
    \/ \E g \in Gens : MetricsStep(g)
    \/ \E g \in Gens, w \in Watches : WatchStep(g, w) \/ WatchCloses(g, w)
    \/ \E g \in Gens, l \in Loops : LoopStep(g, l)
    \/ ClusterChanges

\* Tasks are run on: an HTTP call answers, fails or times out, a cancelled
\* read throws.  A watch gets no frame unless the cluster sends one, and no
\* client is made to connect or disconnect.
WatchFairness ==
    /\ \A g \in Gens : WF_watchVars(MetricsStep(g))
    /\ \A g \in Gens, w \in Watches :
          WF_watchVars(TaskStarts(g, w) \/ Call(g, w) \/ PushEvent(g, w)
                    \/ WatchCancelled(g, w))
    /\ \A g \in Gens, l \in Loops : WF_watchVars(LoopStep(g, l))

WatchSpec == WatchInit /\ [][WatchNext]_watchVars /\ WatchFairness

-----------------------------------------------------------------------------
WatchTypeOK ==
    /\ attached \subseteq Conns /\ group \subseteq Conns
    /\ subscribers \in Nat
    /\ genMade \in 0..MaxGen /\ gen \in 0..MaxGen /\ cancelled \subseteq Gens
    /\ task \in [Gens -> [Channels -> TaskStates]]
    /\ got \in [Gens -> [Channels -> Versions]]
    /\ cache \in Received
    /\ shown \in [Conns -> [Channels -> Received]]
    /\ started \in Nat
    /\ monitorMade \in 0..MaxGen /\ monitorGen \in 0..MaxGen
    /\ monitorCancelled \subseteq Gens
    /\ loop \in [Gens -> [Loops -> LoopStates]]
    /\ version \in Versions
    /\ up \in BOOLEAN

\* The manager's count is the number of attached connections, and every
\* generation but the current one is cancelled, in the manager and in the pod
\* monitor, whose own count never gets ahead of or behind the manager's: the
\* monitor scans exactly while a client is attached.
OneLiveGeneration ==
    /\ subscribers = IF up THEN Cardinality(attached) ELSE 0
    /\ gen # 0 <=> subscribers > 0
    /\ \A g \in 1..genMade : g \notin cancelled <=> g = gen
    /\ started = IF gen # 0 THEN 1 ELSE 0
    /\ monitorGen # 0 <=> started > 0
    /\ \A g \in 1..monitorMade : g \notin monitorCancelled <=> g = monitorGen

Lease == INSTANCE WatchLease WITH watching <- gen # 0

\* The reference count implements the lease: the watchers are on exactly while
\* a dashboard client is attached.
LeaseImplemented == Lease!Spec

\* Metrics in the cache, and what a client that stays connected has been shown,
\* go back in time only when a cancelled generation is one of the two writers:
\* a generation by itself never does.
Older(new, old) == new.version < old.version
TwoGenerations(new, old) == {new.by, old.by} \cap cancelled # {}

RegressionOK ==
    /\ Older(cache', cache) => TwoGenerations(cache', cache)
    /\ \A c \in attached \cap attached', ch \in Channels :
          Older(shown'[c][ch], shown[c][ch]) =>
             TwoGenerations(shown'[c][ch], shown[c][ch])

RegressionNeedsOldGeneration == [][RegressionOK]_watchVars

NothingRuns ==
    /\ \A g \in Gens, ch \in Channels : task[g][ch] \in {"unmade", "ended"}
    /\ \A g \in Gens, l \in Loops : loop[g][l] \in {"unmade", "ended"}

\* "We only consume cluster API quota while a UI is actually attached": once
\* the last client is gone, every task of every generation comes to its end
\* unless a client attaches again.
QuotaOnlyWhileAttached == gen = 0 ~> (gen # 0 \/ NothingRuns)

\* "Watchers start when the first SignalR client connects to the dashboard hub
\* and stop when the last one disconnects": in between every watch goes on.
WatchesRunWhileAttached ==
    gen # 0 => \A w \in Watches : task[gen][w] # "ended"

\* TaskCanceledException is on the list of transient errors: a metrics call
\* that times out does not end the loop of the current generation.
MetricsLoopSurvives == gen # 0 => task[gen]["metrics"] # "ended"
=============================================================================
