------------------------- MODULE ClusterWatchProofs -------------------------
(***************************************************************************)
(* Proofs about ClusterWatch for any finite set of connections and any     *)
(* bounds: type correctness, the count and the single live generation, and *)
(* the refinement of WatchLease.                                           *)
(***************************************************************************)
EXTENDS ClusterWatch, FiniteSetTheorems, TLAPS

\* Generations are numbered in the order they are made.
GenerationsOK ==
    /\ gen <= genMade /\ cancelled \subseteq 1..genMade
    /\ monitorGen <= monitorMade /\ monitorCancelled \subseteq 1..monitorMade

Inv == WatchTypeOK /\ GenerationsOK /\ OneLiveGeneration

USE ConnsAssumption, WatchBoundsAssumption, ChannelsAssumption

LEMMA AttachedFinite ==
  ASSUME WatchTypeOK
  PROVE  IsFiniteSet(attached) /\ Cardinality(attached) \in Nat
  BY FS_Subset, FS_CardinalityType DEF WatchTypeOK

\* One connection more or less changes the count by one.
LEMMA AttachedCount ==
  ASSUME WatchTypeOK, NEW c \in Conns
  PROVE  /\ c \notin attached =>
              Cardinality(attached \cup {c}) = Cardinality(attached) + 1
         /\ c \in attached =>
              /\ Cardinality(attached \ {c}) = Cardinality(attached) - 1
              /\ Cardinality(attached) > 0
<1>1. IsFiniteSet(attached) /\ Cardinality(attached) \in Nat
  BY AttachedFinite
<1>2. c \in attached => Cardinality(attached) # 0
  BY <1>1, FS_EmptySet
<1>3. c \notin attached =>
        Cardinality(attached \cup {c}) = Cardinality(attached) + 1
  BY <1>1, FS_AddElement
<1>4. c \in attached =>
        Cardinality(attached \ {c}) = Cardinality(attached) - 1
  BY <1>1, FS_RemoveElement
<1> QED
  BY <1>1, <1>2, <1>3, <1>4

LEMMA InitInv == WatchInit => Inv
<1> SUFFICES ASSUME WatchInit PROVE Inv
  OBVIOUS
<1>1. WatchTypeOK
  BY DEF WatchInit, WatchTypeOK, Gens, Versions, Received, Nothing, TaskStates, LoopStates
<1>2. GenerationsOK /\ OneLiveGeneration
  BY FS_EmptySet DEF WatchInit, GenerationsOK, OneLiveGeneration
<1> QED  BY <1>1, <1>2 DEF Inv

-----------------------------------------------------------------------------
(* The lock-protected operations.                                          *)

LEMMA MonitorStartInv ==
  ASSUME Inv, MonitorStart, monitorMade < MaxGen, started = 0
  PROVE  /\ started' = 1
         /\ monitorMade' \in 0..MaxGen /\ monitorGen' \in 1..monitorMade'
         /\ monitorCancelled' \subseteq 1..monitorMade'
         /\ monitorCancelled' \subseteq Gens
         /\ loop' \in [Gens -> [Loops -> LoopStates]]
         /\ \A g \in 1..monitorMade' : g \notin monitorCancelled' <=> g = monitorGen'
<1>1. monitorGen = 0
  BY DEF Inv, OneLiveGeneration, WatchTypeOK
<1>2. \A g \in 1..monitorMade : g \in monitorCancelled
  BY <1>1 DEF Inv, OneLiveGeneration, WatchTypeOK
<1>3. /\ started' = 1 /\ monitorMade' = monitorMade + 1
      /\ monitorGen' = monitorMade + 1 /\ monitorCancelled' = monitorCancelled
      /\ loop' = [loop EXCEPT ![monitorMade + 1] = [l \in Loops |-> "queued"]]
  BY DEF MonitorStart
<1>4. monitorMade + 1 \in Gens /\ monitorMade \in Nat
  BY DEF Inv, WatchTypeOK, Gens
<1>5. loop' \in [Gens -> [Loops -> LoopStates]]
  BY <1>3, <1>4 DEF Inv, WatchTypeOK, LoopStates
<1>6. monitorCancelled \subseteq 1..monitorMade /\ monitorCancelled \subseteq Gens
  BY DEF Inv, WatchTypeOK, GenerationsOK
<1> QED
  BY <1>2, <1>3, <1>4, <1>5, <1>6 DEF Gens

LEMMA MonitorStopInv ==
  ASSUME Inv, MonitorStop
  PROVE  /\ started' = 0 /\ monitorGen' = 0
         /\ monitorMade' \in 0..MaxGen
         /\ monitorCancelled' \subseteq 1..monitorMade'
         /\ monitorCancelled' \subseteq Gens
         /\ loop' \in [Gens -> [Loops -> LoopStates]]
         /\ \A g \in 1..monitorMade' : g \in monitorCancelled'
<1>1. started \in {0, 1} /\ monitorGen \in 0..monitorMade /\ monitorMade \in 0..MaxGen
  BY DEF Inv, WatchTypeOK, GenerationsOK, OneLiveGeneration
<1>2. CASE started = 0
  <2>1. UNCHANGED monitorGenVars /\ monitorGen = 0
    BY <1>1, <1>2 DEF MonitorStop, Inv, OneLiveGeneration
  <2> QED
    BY <1>1, <1>2, <2>1 DEF Inv, WatchTypeOK, GenerationsOK, OneLiveGeneration,
       monitorGenVars
<1>3. CASE started = 1
  <2>1. /\ started' = 0 /\ monitorGen' = 0 /\ monitorMade' = monitorMade
        /\ monitorCancelled' = monitorCancelled \cup ({monitorGen} \ {0})
        /\ loop' = loop
    BY <1>3 DEF MonitorStop
  <2>2. monitorGen \in 1..monitorMade /\ monitorGen \in Gens
    BY <1>1, <1>3 DEF Inv, OneLiveGeneration, Gens
  <2> QED
    BY <1>1, <2>1, <2>2 DEF Inv, WatchTypeOK, GenerationsOK, OneLiveGeneration
<1> QED  BY <1>1, <1>2, <1>3

LEMMA StartInv ==
  ASSUME Inv, StartWatchers, gen = 0, genMade < MaxGen, monitorMade < MaxGen
  PROVE  /\ genMade' \in 0..MaxGen /\ gen' \in 1..genMade'
         /\ cancelled' \subseteq 1..genMade' /\ cancelled' \subseteq Gens
         /\ task' \in [Gens -> [Channels -> TaskStates]]
         /\ \A g \in 1..genMade' : g \notin cancelled' <=> g = gen'
  BY DEF StartWatchers, Inv, WatchTypeOK, GenerationsOK, OneLiveGeneration, Gens,
     TaskStates

LEMMA StopInv ==
  ASSUME Inv, StopWatchers
  PROVE  /\ genMade' = genMade /\ gen' = 0
         /\ cancelled' \subseteq 1..genMade' /\ cancelled' \subseteq Gens
         /\ task' = task
         /\ \A g \in 1..genMade' : g \in cancelled'
  BY DEF StopWatchers, Inv, WatchTypeOK, GenerationsOK, OneLiveGeneration, Gens

LEMMA ConnectInv ==
  ASSUME Inv, NEW c \in Conns, Connect(c)
  PROVE  Inv'
<1> USE DEF Connect, AddSubscriber
<1>1. Cardinality(attached') = Cardinality(attached) + 1
  BY AttachedCount DEF Inv
<1>2. subscribers = Cardinality(attached) /\ subscribers \in Nat
  BY DEF Inv, OneLiveGeneration, WatchTypeOK
<1>3. CASE subscribers = 0
  <2>1. StartWatchers /\ MonitorStart /\ gen = 0 /\ started = 0
    BY <1>2, <1>3 DEF Inv, OneLiveGeneration, WatchTypeOK, StartWatchers
  <2>2. WatchTypeOK'
    BY <2>1, <1>2, <1>3, StartInv, MonitorStartInv DEF Inv, WatchTypeOK
  <2>3. GenerationsOK' /\ OneLiveGeneration'
    BY <2>1, <1>1, <1>2, <1>3, StartInv, MonitorStartInv
       DEF Inv, WatchTypeOK, GenerationsOK, OneLiveGeneration
  <2> QED  BY <2>2, <2>3 DEF Inv
<1>4. CASE subscribers # 0
  <2>1. UNCHANGED <<genMade, gen, cancelled, task, monitorGenVars>>
    BY <1>2, <1>4
  <2>2. WatchTypeOK'
    BY <2>1, <1>2, <1>4 DEF Inv, WatchTypeOK, monitorGenVars
  <2>3. GenerationsOK' /\ OneLiveGeneration'
    BY <2>1, <1>1, <1>2, <1>4
       DEF Inv, WatchTypeOK, GenerationsOK, OneLiveGeneration, monitorGenVars
  <2> QED  BY <2>2, <2>3 DEF Inv
<1> QED  BY <1>3, <1>4

LEMMA DisconnectInv ==
  ASSUME Inv, NEW c \in Conns, Disconnect(c)
  PROVE  Inv'
<1> USE DEF Disconnect, RemoveSubscriber
<1>1. Cardinality(attached') = Cardinality(attached) - 1 /\ Cardinality(attached) > 0
  BY AttachedCount DEF Inv
<1>2. subscribers = (IF up THEN Cardinality(attached) ELSE 0) /\ subscribers \in Nat
  BY DEF Inv, OneLiveGeneration, WatchTypeOK
<1>3. /\ attached' \subseteq Conns /\ group' \subseteq Conns
      /\ shown' \in [Conns -> [Channels -> Received]]
  BY DEF Inv, WatchTypeOK, Received, Nothing, Versions
<1>4. CASE subscribers = 0
  <2>1. ~up
    BY <1>1, <1>2, <1>4
  <2>2. WatchTypeOK'
    BY <1>3, <1>4 DEF Inv, WatchTypeOK, lockVars, monitorGenVars
  <2>3. GenerationsOK' /\ OneLiveGeneration'
    BY <2>1, <1>4
       DEF Inv, WatchTypeOK, GenerationsOK, OneLiveGeneration, lockVars, monitorGenVars
  <2> QED  BY <2>2, <2>3 DEF Inv
<1>5. CASE subscribers = 1
  <2>1. subscribers' = 0 /\ StopWatchers /\ MonitorStop
    BY <1>5 DEF StopWatchers
  <2>2. WatchTypeOK'
    BY <2>1, <1>3, StopInv, MonitorStopInv DEF Inv, WatchTypeOK
  <2>3. GenerationsOK' /\ OneLiveGeneration'
    BY <2>1, <1>1, <1>2, <1>5, StopInv, MonitorStopInv
       DEF Inv, WatchTypeOK, GenerationsOK, OneLiveGeneration
  <2> QED  BY <2>2, <2>3 DEF Inv
<1>6. CASE subscribers > 1
  <2>1. /\ subscribers' = subscribers - 1
        /\ UNCHANGED <<genMade, gen, cancelled, task, monitorGenVars>>
    BY <1>2, <1>6
  <2>2. WatchTypeOK'
    BY <2>1, <1>2, <1>3, <1>6 DEF Inv, WatchTypeOK, monitorGenVars
  <2>3. GenerationsOK' /\ OneLiveGeneration'
    BY <2>1, <1>1, <1>2, <1>6
       DEF Inv, WatchTypeOK, GenerationsOK, OneLiveGeneration, monitorGenVars
  <2> QED  BY <2>2, <2>3 DEF Inv
<1> QED  BY <1>2, <1>4, <1>5, <1>6

LEMMA DisposeInv ==
  ASSUME Inv, DisposeAsync
  PROVE  Inv'
<1>1. StopWatchers /\ MonitorStop
  BY DEF DisposeAsync, StopWatchers
<1>2. WatchTypeOK'
  <2>1. /\ subscribers' = 0
        /\ UNCHANGED <<attached, group, got, cache, shown, version>>
    BY DEF DisposeAsync
  <2>4. up' \in BOOLEAN
    BY Zenon DEF DisposeAsync
  <2>2. /\ genMade' = genMade /\ gen' = 0 /\ cancelled' \subseteq Gens /\ task' = task
    BY <1>1, StopInv
  <2>3. /\ started' = 0 /\ monitorGen' = 0 /\ monitorMade' \in 0..MaxGen
        /\ monitorCancelled' \subseteq Gens
        /\ loop' \in [Gens -> [Loops -> LoopStates]]
    BY <1>1, MonitorStopInv
  <2> QED  BY <2>1, <2>2, <2>3, <2>4 DEF Inv, WatchTypeOK
<1>3. GenerationsOK' /\ OneLiveGeneration'
  BY <1>1, StopInv, MonitorStopInv
     DEF DisposeAsync, Inv, WatchTypeOK, GenerationsOK, OneLiveGeneration
<1> QED  BY <1>2, <1>3 DEF Inv

LEMMA DisposeMonitorInv ==
  ASSUME Inv, DisposeMonitor
  PROVE  Inv'
<1>1. WatchTypeOK'
  <2>1. monitorCancelled' \subseteq Gens
    BY DEF DisposeMonitor, Inv, WatchTypeOK, Gens
  <2> QED  BY <2>1 DEF DisposeMonitor, Inv, WatchTypeOK, lockVars, flowVars
<1>2. GenerationsOK' /\ OneLiveGeneration'
  BY DEF DisposeMonitor, Inv, WatchTypeOK, GenerationsOK, OneLiveGeneration, lockVars
<1> QED  BY <1>1, <1>2 DEF Inv

-----------------------------------------------------------------------------
(* Everything else leaves the counts and the generations alone.            *)

LEMMA CountsUnchangedInv ==
  ASSUME Inv, WatchTypeOK', UNCHANGED <<attached, lockVars, started, monitorMade,
                                   monitorGen, monitorCancelled, up>>
  PROVE  Inv'
  BY DEF Inv, GenerationsOK, OneLiveGeneration, lockVars

LEMMA GroupInv ==
  ASSUME Inv, NEW c \in Conns, SubscribeToCluster(c) \/ UnsubscribeFromCluster(c)
  PROVE  Inv'
<1>1. WatchTypeOK'
  BY DEF SubscribeToCluster, UnsubscribeFromCluster, Inv, WatchTypeOK, lockVars,
     flowVars, monitorGenVars
<1> QED
  BY <1>1, CountsUnchangedInv DEF SubscribeToCluster, UnsubscribeFromCluster,
     lockVars, monitorGenVars

LEMMA GoInv ==
  ASSUME Inv, NEW g \in Gens, NEW ch \in Channels, NEW from,
         NEW to \in TaskStates, Moves(g, ch, from, to),
         got' \in [Gens -> [Channels -> Versions]], cache' \in Received,
         shown' \in [Conns -> [Channels -> Received]]
  PROVE  Inv'
<1>1. task' \in [Gens -> [Channels -> TaskStates]]
  BY DEF Moves, Inv, WatchTypeOK
<1>2. WatchTypeOK'
  BY <1>1 DEF Moves, Inv, WatchTypeOK, lockVars, monitorGenVars
<1> QED
  BY <1>2, CountsUnchangedInv DEF Moves, lockVars, monitorGenVars

LEMMA ShowType ==
  ASSUME Inv, NEW g \in Gens, NEW ch \in Channels, ShowTo(group, ch, g)
  PROVE  shown' \in [Conns -> [Channels -> Received]]
<1>1. [version |-> got[g][ch], by |-> g] \in Received
  BY DEF Inv, WatchTypeOK, Received, Gens
<1> QED  BY <1>1 DEF ShowTo, Inv, WatchTypeOK

LEMMA TaskStepInv ==
  ASSUME Inv, NEW g \in Gens, NEW ch \in Channels, ChannelStep(g, ch)
  PROVE  Inv'
<1>1. CASE TaskStarts(g, ch)
  BY <1>1, GoInv DEF TaskStarts, TaskStates, Inv, WatchTypeOK
<1>2. CASE Call(g, ch)
  BY <1>2, GoInv DEF Call, TaskStates, Inv, WatchTypeOK
<1>3. CASE Answer(g, ch)
  <2>1. got' \in [Gens -> [Channels -> Versions]]
    BY <1>3 DEF Answer, Inv, WatchTypeOK
  <2> QED  BY <1>3, <2>1, GoInv DEF Answer, TaskStates, Inv, WatchTypeOK
<1> QED  BY <1>1, <1>2, <1>3 DEF ChannelStep

LEMMA MetricsStepInv ==
  ASSUME Inv, NEW g \in Gens, MetricsStep(g)
  PROVE  Inv'
<1>0. "metrics" \in Channels
  BY DEF Channels
<1>1. CASE ChannelStep(g, "metrics")
  BY <1>0, <1>1, TaskStepInv
<1>2. CASE Store(g)
  <2>1. cache' \in Received
    BY <1>0, <1>2 DEF Store, Inv, WatchTypeOK, Received, Gens
  <2> QED  BY <1>0, <1>2, <2>1, GoInv DEF Store, TaskStates, Inv, WatchTypeOK
<1>3. CASE PushMetrics(g)
  BY <1>0, <1>3, ShowType, GoInv DEF PushMetrics, TaskStates, Inv, WatchTypeOK
<1>4. CASE PollDelayEnds(g)
  BY <1>0, <1>4, GoInv DEF PollDelayEnds, TaskStates, Inv, WatchTypeOK
<1>5. CASE MetricsFails(g) \/ MetricsTimesOut(g)
  BY <1>0, <1>5, GoInv DEF MetricsFails, MetricsTimesOut, TaskStates, Inv, WatchTypeOK
<1> QED  BY <1>1, <1>2, <1>3, <1>4, <1>5 DEF MetricsStep

LEMMA WatchStepInv ==
  ASSUME Inv, NEW g \in Gens, NEW w \in Watches, WatchStep(g, w) \/ WatchCloses(g, w)
  PROVE  Inv'
<1>0. w \in Channels
  BY DEF Channels
<1>1. CASE ChannelStep(g, w)
  BY <1>0, <1>1, TaskStepInv
<1>2. CASE PushEvent(g, w)
  BY <1>0, <1>2, ShowType, GoInv DEF PushEvent, TaskStates, Inv, WatchTypeOK
<1>3. CASE WatchCancelled(g, w) \/ WatchCloses(g, w)
  BY <1>0, <1>3, GoInv DEF WatchCancelled, WatchCloses, TaskStates, Inv, WatchTypeOK
<1> QED  BY <1>1, <1>2, <1>3 DEF WatchStep

LEMMA LoopStepInv ==
  ASSUME Inv, NEW g \in Gens, NEW l \in Loops, LoopStep(g, l)
  PROVE  Inv'
<1>1. ASSUME NEW from, NEW to \in LoopStates, GoLoop(g, l, from, to)
      PROVE  loop' \in [Gens -> [Loops -> LoopStates]]
  BY <1>1 DEF GoLoop, Inv, WatchTypeOK
<1>4. loop' \in [Gens -> [Loops -> LoopStates]]
  BY <1>1 DEF LoopStep, LoopStarts, LoopCancelled, LoopStates
<1>2. UNCHANGED <<attached, group, lockVars, flowVars, started, monitorMade,
                  monitorGen, monitorCancelled, version, up>>
  BY DEF LoopStep, LoopStarts, LoopCancelled, GoLoop
<1>3. WatchTypeOK'
  BY <1>4, <1>2 DEF Inv, WatchTypeOK, lockVars, flowVars
<1> QED  BY <1>2, <1>3, CountsUnchangedInv

LEMMA ClusterChangesInv ==
  ASSUME Inv, ClusterChanges
  PROVE  Inv'
<1>1. WatchTypeOK'
  BY DEF ClusterChanges, Inv, WatchTypeOK, Versions, lockVars, flowVars, monitorGenVars
<1> QED
  BY <1>1, CountsUnchangedInv DEF ClusterChanges, monitorGenVars

LEMMA StutterInv ==
  ASSUME Inv, UNCHANGED watchVars
  PROVE  Inv'
<1>1. WatchTypeOK'
  BY DEF watchVars, Inv, WatchTypeOK, lockVars, flowVars, monitorGenVars
<1> QED  BY <1>1, CountsUnchangedInv DEF watchVars, monitorGenVars

LEMMA NextInv == Inv /\ [WatchNext]_watchVars => Inv'
  BY ConnectInv, DisconnectInv, GroupInv, DisposeInv, DisposeMonitorInv,
     MetricsStepInv, WatchStepInv, LoopStepInv, ClusterChangesInv, StutterInv
     DEF WatchNext

LEMMA Invariance == WatchSpec => []Inv
  BY InitInv, NextInv, PTL DEF WatchSpec

\* Every variable keeps its type.
THEOREM TypeCorrect == WatchSpec => []WatchTypeOK
<1>1. Inv => WatchTypeOK
  BY DEF Inv
<1> QED  BY Invariance, <1>1, PTL

\* For any number of connections the manager counts exactly those attached, and
\* the manager and the pod monitor have one generation that is not cancelled
\* while a client is attached, and none otherwise.
THEOREM OneGeneration == WatchSpec => []OneLiveGeneration
<1>1. Inv => OneLiveGeneration
  BY DEF Inv
<1> QED  BY Invariance, <1>1, PTL

-----------------------------------------------------------------------------
(* The refinement: only Connect, Disconnect and DisposeAsync are visible in *)
(* the lease; every other step stutters.                                   *)

LEMMA LeaseInit == WatchInit => Lease!Init
  BY DEF WatchInit, Lease!Init

LEMMA LeaseStutter ==
  ASSUME UNCHANGED <<attached, gen, up>>
  PROVE  UNCHANGED Lease!vars
  BY DEF Lease!vars

LEMMA ConnectAttaches ==
  ASSUME Inv, Inv', NEW c \in Conns, Connect(c)
  PROVE  Lease!Attach(c)
<1>1. Cardinality(attached') > 0
  BY AttachedCount, AttachedFinite DEF Inv, Connect
<1>2. gen' # 0
  BY <1>1 DEF Inv, OneLiveGeneration, Connect
<1> QED  BY <1>2 DEF Connect, Lease!Attach

LEMMA DisconnectDetaches ==
  ASSUME Inv, Inv', NEW c \in Conns, Disconnect(c)
  PROVE  Lease!Detach(c)
<1>1. Cardinality(attached') \in Nat /\ (Cardinality(attached') = 0 <=> attached' = {})
  BY FS_Subset, FS_CardinalityType, FS_EmptySet DEF Inv, WatchTypeOK
<1>2. (gen' # 0) <=> (up /\ attached' # {})
  BY <1>1 DEF Inv, OneLiveGeneration, Disconnect
<1> QED  BY <1>2 DEF Disconnect, Lease!Detach

LEMMA DisposeDisposes ==
  ASSUME DisposeAsync
  PROVE  Lease!Dispose
  BY DEF DisposeAsync, StopWatchers, Lease!Dispose

LEMMA LeaseNext ==
  ASSUME Inv, Inv', [WatchNext]_watchVars
  PROVE  [Lease!Next]_(Lease!vars)
<1>1. ASSUME NEW c \in Conns, Connect(c) \/ Disconnect(c)
      PROVE  Lease!Next
  BY <1>1, ConnectAttaches, DisconnectDetaches DEF Lease!Next
<1>2. ASSUME NEW c \in Conns, SubscribeToCluster(c) \/ UnsubscribeFromCluster(c)
      PROVE  UNCHANGED <<attached, gen, up>>
  BY <1>2 DEF SubscribeToCluster, UnsubscribeFromCluster, lockVars
<1>3. CASE DisposeAsync
  BY <1>3, DisposeDisposes DEF Lease!Next
<1>4. CASE DisposeMonitor
  BY <1>4, LeaseStutter DEF DisposeMonitor, lockVars
<1>5. ASSUME NEW g \in Gens, MetricsStep(g)
      PROVE  UNCHANGED <<attached, gen, up>>
  BY <1>5 DEF MetricsStep, ChannelStep, TaskStarts, Call, Answer, Store, PushMetrics,
     PollDelayEnds, MetricsFails, MetricsTimesOut, Moves, lockVars
<1>6. ASSUME NEW g \in Gens, NEW w \in Watches, WatchStep(g, w) \/ WatchCloses(g, w)
      PROVE  UNCHANGED <<attached, gen, up>>
  BY <1>6 DEF WatchStep, ChannelStep, TaskStarts, Call, Answer, PushEvent,
     WatchCancelled, WatchCloses, Moves, lockVars
<1>7. ASSUME NEW g \in Gens, NEW l \in Loops, LoopStep(g, l)
      PROVE  UNCHANGED <<attached, gen, up>>
  BY <1>7 DEF LoopStep, LoopStarts, LoopCancelled, GoLoop, lockVars
<1>8. CASE ClusterChanges
  BY <1>8, LeaseStutter DEF ClusterChanges, lockVars
<1>9. CASE UNCHANGED watchVars
  BY <1>9, LeaseStutter DEF watchVars, lockVars
<1> QED
  BY <1>1, <1>2, <1>3, <1>4, <1>5, <1>6, <1>7, <1>8, <1>9, LeaseStutter DEF WatchNext

\* The reference count of ClusterWatchManager implements the lease: for any
\* number of clients, in any order, the watchers are on exactly while one of
\* them is attached.
THEOREM LeaseRefinement == WatchSpec => LeaseImplemented
<1>1. Inv /\ Inv' /\ [WatchNext]_watchVars => [Lease!Next]_(Lease!vars)
  BY LeaseNext
<1> QED
  BY Invariance, LeaseInit, <1>1, PTL DEF WatchSpec, LeaseImplemented, Lease!Spec

-----------------------------------------------------------------------------
(* Stale data.  A generation reads versions in order, so what it has stored *)
(* or pushed is never newer than what it read last.                        *)

ReceivedOK(r, ch) ==
    /\ r.by = 0 => r.version = 0
    /\ r.by # 0 => r.by <= genMade /\ r.version <= got[r.by][ch]

FlowOK ==
    /\ \A g \in Gens, ch \in Channels :
          /\ task[g][ch] # "unmade" => g <= genMade
          /\ got[g][ch] <= version
    /\ ReceivedOK(cache, "metrics")
    /\ \A c \in Conns, ch \in Channels : ReceivedOK(shown[c][ch], ch)

LEMMA InitFlow == WatchInit => FlowOK
  BY DEF WatchInit, FlowOK, ReceivedOK, Nothing, Gens, Channels, Versions

\* What the operations under the lock leave of the flow of data.
LockStep ==
    /\ UNCHANGED <<got, cache, version>>
    /\ genMade' \in Nat /\ genMade' >= genMade
    /\ \A g \in Gens, ch \in Channels :
          task'[g][ch] # "unmade" => task[g][ch] # "unmade" \/ g <= genMade'
    /\ \A c \in Conns, ch \in Channels :
          shown'[c][ch] = shown[c][ch] \/ (shown'[c][ch] = Nothing /\ c \notin attached')

LEMMA StartTask ==
  ASSUME Inv, StartWatchers, genMade < MaxGen
  PROVE  /\ genMade' \in Nat /\ genMade' >= genMade
         /\ \A g \in Gens, ch \in Channels :
               task'[g][ch] # "unmade" => task[g][ch] # "unmade" \/ g <= genMade'
<1>1. genMade + 1 \in Gens /\ genMade \in Nat
  BY DEF Inv, WatchTypeOK, Gens
<1> QED  BY <1>1 DEF StartWatchers, Inv, WatchTypeOK

LEMMA LockSteps ==
  ASSUME Inv, \/ \E c \in Conns : Connect(c) \/ Disconnect(c)
              \/ DisposeAsync \/ DisposeMonitor
  PROVE  LockStep
<1>1. ASSUME NEW c \in Conns, Connect(c)
      PROVE  LockStep
  <2>1. \/ StartWatchers /\ genMade < MaxGen
        \/ UNCHANGED <<genMade, task>>
    BY <1>1 DEF Connect, AddSubscriber
  <2>2. UNCHANGED <<got, cache, version, shown>>
    BY <1>1 DEF Connect
  <2> QED  BY <2>1, <2>2, StartTask DEF LockStep, Inv, WatchTypeOK
<1>2. ASSUME NEW c \in Conns, Disconnect(c)
      PROVE  LockStep
  <2>1. UNCHANGED <<genMade, task, got, cache, version>>
    BY <1>2 DEF Disconnect, RemoveSubscriber, StopWatchers, lockVars
  <2>2. /\ shown' = [shown EXCEPT ![c] = [ch \in Channels |-> Nothing]]
        /\ c \notin attached'
    BY <1>2 DEF Disconnect
  <2> QED  BY <2>1, <2>2 DEF LockStep, Inv, WatchTypeOK
<1>3. CASE DisposeAsync
  BY <1>3 DEF DisposeAsync, StopWatchers, LockStep, Inv, WatchTypeOK
<1>4. CASE DisposeMonitor
  BY <1>4 DEF DisposeMonitor, lockVars, flowVars, LockStep, Inv, WatchTypeOK
<1> QED  BY <1>1, <1>2, <1>3, <1>4

LEMMA LockStepFlow ==
  ASSUME Inv, FlowOK, LockStep
  PROVE  FlowOK' /\ RegressionOK
<1>1. /\ genMade \in Nat /\ genMade' \in Nat /\ genMade <= genMade' /\ got' = got
      /\ cache' = cache /\ version' = version /\ version \in Nat
      /\ "metrics" \in Channels /\ Gens \subseteq Nat
  BY DEF LockStep, Inv, WatchTypeOK, Versions, Gens, Channels
<1>2. ASSUME NEW r \in Received, NEW ch \in Channels, ReceivedOK(r, ch)
      PROVE  /\ r.by = 0 => r.version = 0
             /\ r.by # 0 => r.by <= genMade' /\ r.version <= got'[r.by][ch]
  BY <1>1, <1>2 DEF ReceivedOK, Received
<1>3. /\ cache \in Received
      /\ \A c \in Conns, ch \in Channels : shown[c][ch] \in Received
  BY DEF Inv, WatchTypeOK
<1>4. FlowOK'
  <2>1. ASSUME NEW g \in Gens, NEW ch \in Channels
        PROVE  /\ task'[g][ch] # "unmade" => g <= genMade'
               /\ got'[g][ch] <= version'
    <3>1. got'[g][ch] <= version'
      BY <1>1 DEF FlowOK
    <3>2. task[g][ch] # "unmade" => g <= genMade
      BY DEF FlowOK
    <3>3. g \in Nat
      BY <1>1
    <3> QED  BY <1>1, <3>1, <3>2, <3>3 DEF LockStep
  <2>2. ReceivedOK(cache, "metrics")'
    BY <1>1, <1>2, <1>3 DEF FlowOK, ReceivedOK
  <2>3. ASSUME NEW c \in Conns, NEW ch \in Channels
        PROVE  ReceivedOK(shown[c][ch], ch)'
    <3>1. CASE shown'[c][ch] = shown[c][ch]
      BY <1>2, <1>3, <3>1 DEF FlowOK, ReceivedOK
    <3>2. CASE shown'[c][ch] = Nothing
      BY <3>2 DEF ReceivedOK, Nothing
    <3> QED  BY <3>1, <3>2 DEF LockStep
  <2> QED  BY <2>1, <2>2, <2>3 DEF FlowOK
<1>5. RegressionOK
  <2>1. \A r \in Received : ~Older(r, r)
    BY DEF Older, Received, Versions
  <2>2. \A c \in attached \cap attached', ch \in Channels :
           shown'[c][ch] = shown[c][ch] /\ shown[c][ch] \in Received
    BY <1>3 DEF LockStep, Inv, WatchTypeOK
  <2> QED  BY <1>1, <1>3, <2>1, <2>2 DEF RegressionOK
<1> QED  BY <1>4, <1>5

\* Of two generations that are not cancelled there is only one.
LEMMA SameGeneration ==
  ASSUME Inv, NEW g \in 1..genMade, NEW h \in 1..genMade, g \notin cancelled, h \notin cancelled
  PROVE  g = h
  BY DEF Inv, OneLiveGeneration

\* A write by generation g of what it read last.
LEMMA WriteOK ==
  ASSUME Inv, NEW g \in 1..genMade, NEW ch \in Channels, NEW old \in Received,
         ReceivedOK(old, ch),
         Older([version |-> got[g][ch], by |-> g], old)
  PROVE  TwoGenerations([version |-> got[g][ch], by |-> g], old)
<1> DEFINE new == [version |-> got[g][ch], by |-> g]
<1>1. g \in Gens /\ got[g][ch] \in Nat /\ old.version \in Nat /\ old.by \in Nat
  BY DEF Inv, WatchTypeOK, Gens, Received, Versions
<1>2. got[g][ch] < old.version
  BY DEF Older
<1>3. old.by \in 1..genMade
  BY <1>1, <1>2 DEF ReceivedOK, Inv, WatchTypeOK
<1>4. old.by # g
  BY <1>1, <1>2, <1>3 DEF ReceivedOK
<1>5. g \in cancelled \/ old.by \in cancelled
  BY <1>3, <1>4, SameGeneration
<1> QED  BY <1>5 DEF TwoGenerations

LEMMA GoFlow ==
  ASSUME Inv, FlowOK, NEW g \in Gens, NEW ch \in Channels, NEW from, NEW to,
         from # "unmade", Moves(g, ch, from, to)
  PROVE  /\ g \in 1..genMade /\ genMade' = genMade /\ version' = version
         /\ attached' = attached
         /\ \A h \in Gens, k \in Channels : task'[h][k] # "unmade" => h <= genMade'
  BY DEF Moves, Inv, WatchTypeOK, FlowOK, lockVars, Gens

\* A step that passes nothing on.
LEMMA QuietFlow ==
  ASSUME Inv, FlowOK, NEW g \in Gens, NEW ch \in Channels, NEW from, NEW to,
         from # "unmade", Moves(g, ch, from, to), UNCHANGED <<got, cache, shown>>
  PROVE  FlowOK' /\ RegressionOK
<1>1. FlowOK'
  BY GoFlow DEF FlowOK, ReceivedOK
<1>2. RegressionOK
  BY DEF RegressionOK, Older, Inv, WatchTypeOK, Received, Versions
<1> QED  BY <1>1, <1>2

LEMMA AnswerFlow ==
  ASSUME Inv, FlowOK, NEW g \in Gens, NEW ch \in Channels, Answer(g, ch)
  PROVE  FlowOK' /\ RegressionOK
<1>1. Moves(g, ch, "calling", "answered") /\ UNCHANGED <<cache, shown>>
      /\ got' = [got EXCEPT ![g][ch] = version]
  BY DEF Answer
<1>2. \A h \in Gens, k \in Channels : got[h][k] <= got'[h][k] /\ got'[h][k] <= version
  BY <1>1 DEF FlowOK, Inv, WatchTypeOK, Versions
<1>3. \A r \in Received, k \in Channels : ReceivedOK(r, k) =>
         /\ r.by = 0 => r.version = 0
         /\ r.by # 0 => r.by <= genMade /\ r.version <= got'[r.by][k]
  <2> SUFFICES ASSUME NEW r \in Received, NEW k \in Channels, ReceivedOK(r, k), r.by # 0
               PROVE  r.by <= genMade /\ r.version <= got'[r.by][k]
    BY DEF ReceivedOK
  <2>1. r.by \in Gens /\ r.version \in Nat
    BY DEF Received, Gens, Versions
  <2>2. got[r.by][k] \in Nat /\ got'[r.by][k] \in Nat
    BY <1>1, <2>1 DEF Inv, WatchTypeOK, Versions
  <2> QED  BY <1>2, <2>1, <2>2 DEF ReceivedOK
<1>4. "metrics" \in Channels /\ cache \in Received
      /\ \A c \in Conns, k \in Channels : shown[c][k] \in Received
  BY DEF Channels, Inv, WatchTypeOK
<1>5. FlowOK'
  <2>1. genMade' = genMade /\ version' = version
        /\ \A h \in Gens, k \in Channels : task'[h][k] # "unmade" => h <= genMade'
    BY <1>1, GoFlow
  <2>2. ReceivedOK(cache, "metrics")'
    BY <1>1, <1>3, <1>4, <2>1 DEF FlowOK, ReceivedOK
  <2>3. \A c \in Conns, k \in Channels : ReceivedOK(shown[c][k], k)'
    BY <1>1, <1>3, <1>4, <2>1 DEF FlowOK, ReceivedOK
  <2> QED  BY <1>2, <2>1, <2>2, <2>3 DEF FlowOK
<1>6. RegressionOK
  BY <1>1 DEF RegressionOK, Older, Inv, WatchTypeOK, Received, Versions
<1> QED  BY <1>5, <1>6

LEMMA StoreFlow ==
  ASSUME Inv, FlowOK, NEW g \in Gens, Store(g)
  PROVE  FlowOK' /\ RegressionOK
<1>1. /\ Moves(g, "metrics", "answered", "pushing")
      /\ cache' = [version |-> got[g]["metrics"], by |-> g]
      /\ UNCHANGED <<got, shown>> /\ "metrics" \in Channels
  BY DEF Store, Channels
<1>2. /\ g \in 1..genMade /\ genMade' = genMade /\ version' = version
      /\ \A h \in Gens, k \in Channels : task'[h][k] # "unmade" => h <= genMade'
  BY <1>1, GoFlow
<1>3. ReceivedOK(cache, "metrics")'
  BY <1>1, <1>2 DEF ReceivedOK, Inv, WatchTypeOK, Versions
<1>4. FlowOK'
  BY <1>1, <1>2, <1>3 DEF FlowOK, ReceivedOK
<1>5. Older(cache', cache) => TwoGenerations(cache', cache)
  BY <1>1, <1>2, WriteOK DEF FlowOK, Inv, WatchTypeOK
<1>6. RegressionOK
  BY <1>1, <1>5 DEF RegressionOK, Older, Inv, WatchTypeOK, Received, Versions
<1> QED  BY <1>4, <1>6

LEMMA PushFlow ==
  ASSUME Inv, FlowOK, NEW g \in Gens, NEW ch \in Channels, NEW from, NEW to,
         from # "unmade", Moves(g, ch, from, to), ShowTo(group, ch, g),
         UNCHANGED <<got, cache>>
  PROVE  FlowOK' /\ RegressionOK
<1> DEFINE new == [version |-> got[g][ch], by |-> g]
<1>1. /\ g \in 1..genMade /\ genMade' = genMade /\ version' = version
      /\ \A h \in Gens, k \in Channels : task'[h][k] # "unmade" => h <= genMade'
  BY GoFlow
<1>2. \A c \in Conns, k \in Channels :
         \/ shown'[c][k] = shown[c][k]
         \/ k = ch /\ shown'[c][k] = new
  BY DEF ShowTo, Inv, WatchTypeOK
<1>3. ReceivedOK(new, ch)
  BY <1>1 DEF ReceivedOK, Inv, WatchTypeOK, Versions
<1>4. FlowOK'
  BY <1>1, <1>2, <1>3 DEF FlowOK, ReceivedOK
<1>5. ASSUME NEW c \in Conns, NEW k \in Channels, Older(shown'[c][k], shown[c][k])
      PROVE  TwoGenerations(shown'[c][k], shown[c][k])
  <2>1. shown[c][k] \in Received /\ ReceivedOK(shown[c][k], k)
    BY DEF FlowOK, Inv, WatchTypeOK
  <2>2. k = ch /\ shown'[c][k] = new
    BY <1>2, <1>5, <2>1 DEF Older, Received, Versions
  <2> QED  BY <1>1, <1>5, <2>1, <2>2, WriteOK
<1>6. RegressionOK
  BY <1>5 DEF RegressionOK, Older, Inv, WatchTypeOK, Received, Versions
<1> QED  BY <1>4, <1>6

LEMMA TaskStepFlow ==
  ASSUME Inv, FlowOK, NEW g \in Gens, NEW ch \in Channels, ChannelStep(g, ch)
  PROVE  FlowOK' /\ RegressionOK
  BY QuietFlow, AnswerFlow DEF ChannelStep, TaskStarts, Call

LEMMA MetricsFlow ==
  ASSUME Inv, FlowOK, NEW g \in Gens, MetricsStep(g)
  PROVE  FlowOK' /\ RegressionOK
<1>1. "metrics" \in Channels
  BY DEF Channels
<1>2. CASE PushMetrics(g)
  BY <1>1, <1>2, PushFlow DEF PushMetrics
<1>3. CASE PollDelayEnds(g) \/ MetricsFails(g) \/ MetricsTimesOut(g)
  BY <1>1, <1>3, QuietFlow DEF PollDelayEnds, MetricsFails, MetricsTimesOut
<1> QED  BY <1>1, <1>2, <1>3, StoreFlow, TaskStepFlow DEF MetricsStep

LEMMA WatchFlow ==
  ASSUME Inv, FlowOK, NEW g \in Gens, NEW w \in Watches,
         WatchStep(g, w) \/ WatchCloses(g, w)
  PROVE  FlowOK' /\ RegressionOK
<1>1. w \in Channels
  BY DEF Channels
<1>2. CASE PushEvent(g, w)
  BY <1>1, <1>2, PushFlow DEF PushEvent
<1>3. CASE WatchCancelled(g, w) \/ WatchCloses(g, w)
  BY <1>1, <1>3, QuietFlow DEF WatchCancelled, WatchCloses
<1> QED  BY <1>1, <1>2, <1>3, TaskStepFlow DEF WatchStep

\* A step that touches neither the data nor the tasks of the manager.
LEMMA OtherFlow ==
  ASSUME Inv, FlowOK, UNCHANGED <<flowVars, genMade>>,
         version' \in Nat, version' >= version
  PROVE  FlowOK' /\ RegressionOK
<1>1. /\ version \in Nat
      /\ \A g \in Gens, ch \in Channels : got[g][ch] \in Nat /\ got'[g][ch] = got[g][ch]
  BY DEF Inv, WatchTypeOK, Versions, flowVars
<1>2. \A g \in Gens, ch \in Channels : got'[g][ch] <= version'
  BY <1>1 DEF FlowOK
<1>3. FlowOK'
  BY <1>2 DEF FlowOK, ReceivedOK, flowVars
<1>4. RegressionOK
  BY DEF RegressionOK, Older, flowVars, Inv, WatchTypeOK, Received, Versions
<1> QED  BY <1>3, <1>4

LEMMA NextFlow ==
  ASSUME Inv, FlowOK, [WatchNext]_watchVars
  PROVE  FlowOK' /\ [RegressionOK]_watchVars
<1>1. CASE \/ \E c \in Conns : Connect(c) \/ Disconnect(c)
           \/ DisposeAsync \/ DisposeMonitor
  BY <1>1, LockSteps, LockStepFlow
<1>2. CASE \/ \E c \in Conns : SubscribeToCluster(c) \/ UnsubscribeFromCluster(c)
           \/ \E g \in Gens, l \in Loops : LoopStep(g, l)
           \/ UNCHANGED watchVars
  <2>1. UNCHANGED <<flowVars, genMade, version>>
    BY <1>2 DEF SubscribeToCluster, UnsubscribeFromCluster, LoopStep, LoopStarts,
       LoopCancelled, GoLoop, lockVars, watchVars
  <2> QED  BY <2>1, OtherFlow DEF Inv, WatchTypeOK, Versions
<1>3. CASE ClusterChanges
  <2>1. UNCHANGED <<flowVars, genMade>> /\ version' = version + 1
    BY <1>3 DEF ClusterChanges, lockVars
  <2> QED  BY <2>1, OtherFlow DEF Inv, WatchTypeOK, Versions
<1>4. CASE \E g \in Gens : MetricsStep(g)
  BY <1>4, MetricsFlow
<1>5. CASE \E g \in Gens, w \in Watches : WatchStep(g, w) \/ WatchCloses(g, w)
  BY <1>5, WatchFlow
<1> QED  BY <1>1, <1>2, <1>3, <1>4, <1>5 DEF WatchNext

\* Metrics or events go back in time only when a generation whose clients have
\* all left writes late: for any number of clients, generations and watches, a
\* single generation of watchers never shows a client older data.
THEOREM RegressionsAreLate == WatchSpec => RegressionNeedsOldGeneration
<1>1. Inv /\ FlowOK /\ [WatchNext]_watchVars => FlowOK' /\ [RegressionOK]_watchVars
  BY NextFlow
<1> QED
  BY Invariance, InitFlow, <1>1, PTL DEF WatchSpec, RegressionNeedsOldGeneration
=============================================================================
