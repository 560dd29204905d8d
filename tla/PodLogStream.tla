---------------------------- MODULE PodLogStream ----------------------------
(***************************************************************************)
(* The registry of live pod log streams (PodLogStreamService) together     *)
(* with the SignalR hub that drives it (PodLogHub).                        *)
(*                                                                         *)
(* Every pod that somebody watches has at most one entry in the concurrent *)
(* dictionary _streams; a background task per stream copies the log lines  *)
(* of the pod to a SignalR group.  No lock protects a whole operation: only *)
(* the single dictionary calls are atomic, so each of them is a step here. *)
(* The calls of one connection run one after the other (the SignalR        *)
(* default), the calls of different connections and the tasks interleave.  *)
(***************************************************************************)
EXTENDS Naturals, FiniteSets

CONSTANTS
    Conns,          \* connection ids (never reused)
    Pods,           \* dictionary keys "ns/pod"
    Containers,     \* container names
    Streams,        \* identities of PodStream objects: bounds how many are made
    NoStream        \* "no entry" / "nothing held"

ASSUME NoStreamAssumption == NoStream \notin Streams

VARIABLES
    registry,       \* _streams: the entry of every pod
    podOf,          \* the pod a stream was started for
    task,           \* where the background task of a stream is
    open,           \* containers whose StreamContainer is still running
    cancelled,      \* streams whose Cts is cancelled
    subscribers,    \* PodStream.Subscribers
    group,          \* SignalR group "pod-<ns>-<pod>" of every pod
    pc,             \* where the running hub call of a connection is
    target,         \* its pod argument (or the key it enumerates)
    held,           \* its local variable `stream'
    toVisit,        \* keys RemoveAllForConnection has yet to enumerate
    leaving,        \* connections whose OnDisconnectedAsync has begun
    up              \* FALSE once the service is disposed

taskVars == <<podOf, task, open>>
callVars == <<pc, target, held, toVisit, leaving>>
vars == <<registry, taskVars, cancelled, subscribers, group, callVars, up>>

TaskStates == {"unmade", "queued", "reading", "streaming", "finally",
               "done", "skipped"}
CallStates == {"idle", "getoradd", "publish", "addsub", "lookup", "removesub",
               "checkempty", "drop", "visit", "gone"}


\* An empty registry, no connection has called anything yet.
Init ==
    /\ registry = [p \in Pods |-> NoStream]
    /\ podOf \in [Streams -> Pods]
    /\ task = [s \in Streams |-> "unmade"]
    /\ open = [s \in Streams |-> {}]
    /\ cancelled = {}
    /\ subscribers = [s \in Streams |-> {}]
    /\ group = [p \in Pods |-> {}]
    /\ pc = [c \in Conns |-> "idle"]
    /\ target \in [Conns -> Pods]
    /\ held = [c \in Conns |-> NoStream]
    /\ toVisit = [c \in Conns |-> {}]
    /\ leaving = {}
    /\ up = TRUE

-----------------------------------------------------------------------------
(* PodLogHub.SubscribeToPod, PodLogStreamService.SubscribeAsync            *)

\* The hub joins the group, then calls the service.
Subscribe(c, p) ==
    /\ up /\ pc[c] = "idle"
    /\ group' = [group EXCEPT ![p] = @ \cup {c}]
    /\ pc' = [pc EXCEPT ![c] = "getoradd"]
    /\ target' = [target EXCEPT ![c] = p]
    /\ UNCHANGED <<registry, taskVars, cancelled, subscribers, held, toVisit,
                   leaving, up>>

\* GetOrAdd finds the entry.
GetExisting(c) ==
    /\ pc[c] = "getoradd"
    /\ registry[target[c]] # NoStream
    /\ held' = [held EXCEPT ![c] = registry[target[c]]]
    /\ pc' = [pc EXCEPT ![c] = "addsub"]
    /\ UNCHANGED <<registry, taskVars, cancelled, subscribers, group, target,
                   toVisit, leaving, up>>

\* GetOrAdd finds nothing and runs the factory, outside any lock: the task of
\* the new stream is queued before the stream is in the dictionary.
StartPodStream(c, s) ==
    /\ pc[c] = "getoradd"
    /\ registry[target[c]] = NoStream
    /\ task[s] = "unmade"
    /\ podOf' = [podOf EXCEPT ![s] = target[c]]
    /\ task' = [task EXCEPT ![s] = "queued"]
    /\ held' = [held EXCEPT ![c] = s]
    /\ pc' = [pc EXCEPT ![c] = "publish"]
    /\ UNCHANGED <<registry, open, cancelled, subscribers, group, target,
                   toVisit, leaving, up>>

\* GetOrAdd adds the factory's stream, or returns the one that got there
\* first; the loser's stream is forgotten with its task running.
Publish(c) ==
    /\ pc[c] = "publish"
    /\ \/ /\ registry[target[c]] = NoStream
          /\ registry' = [registry EXCEPT ![target[c]] = held[c]]
          /\ UNCHANGED held
       \/ /\ registry[target[c]] # NoStream
          /\ held' = [held EXCEPT ![c] = registry[target[c]]]
          /\ UNCHANGED registry
    /\ pc' = [pc EXCEPT ![c] = "addsub"]
    /\ UNCHANGED <<taskVars, cancelled, subscribers, group, target, toVisit,
                   leaving, up>>

\* stream.Subscribers.TryAdd.
AddSubscriber(c) ==
    /\ pc[c] = "addsub"
    /\ subscribers' = [subscribers EXCEPT ![held[c]] = @ \cup {c}]
    /\ held' = [held EXCEPT ![c] = NoStream]
    /\ pc' = [pc EXCEPT ![c] = "idle"]
    /\ UNCHANGED <<registry, taskVars, cancelled, group, target, toVisit,
                   leaving, up>>

-----------------------------------------------------------------------------
(* PodLogHub.UnsubscribeFromPod, PodLogStreamService.UnsubscribeAsync      *)

\* Return from a call, or go on with the next key of RemoveAllForConnection.
Return(c) ==
    /\ pc' = [pc EXCEPT ![c] = IF c \in leaving THEN "visit" ELSE "idle"]
    /\ held' = [held EXCEPT ![c] = NoStream]

\* The hub leaves the group, then calls the service.
Unsubscribe(c, p) ==
    /\ up /\ pc[c] = "idle"
    /\ group' = [group EXCEPT ![p] = @ \ {c}]
    /\ pc' = [pc EXCEPT ![c] = "lookup"]
    /\ target' = [target EXCEPT ![c] = p]
    /\ UNCHANGED <<registry, taskVars, cancelled, subscribers, held, toVisit,
                   leaving, up>>

\* TryGetValue.
Lookup(c) ==
    /\ pc[c] = "lookup"
    /\ \/ /\ registry[target[c]] = NoStream
          /\ Return(c)
       \/ /\ registry[target[c]] # NoStream
          /\ held' = [held EXCEPT ![c] = registry[target[c]]]
          /\ pc' = [pc EXCEPT ![c] = "removesub"]
    /\ UNCHANGED <<registry, taskVars, cancelled, subscribers, group, target,
                   toVisit, leaving, up>>

\* Variant: the subscriber is tested but never removed.
RemoveSubscriber_Keeps(c) ==
    /\ pc[c] = "removesub"
    /\ pc' = [pc EXCEPT ![c] = "checkempty"]
    /\ UNCHANGED <<registry, taskVars, cancelled, subscribers, group, target,
                   held, toVisit, leaving, up>>

\* Subscribers.TryRemove; RemoveAllForConnection goes on to the IsEmpty test
\* only when it removed something, UnsubscribeAsync always.
RemoveSubscriber(c) ==
    /\ pc[c] = "removesub"
    /\ subscribers' = [subscribers EXCEPT ![held[c]] = @ \ {c}]
    /\ \/ /\ c \in leaving => c \in subscribers[held[c]]
          /\ pc' = [pc EXCEPT ![c] = "checkempty"]
          /\ UNCHANGED held
       \/ /\ c \in leaving /\ c \notin subscribers[held[c]]
          /\ Return(c)
    /\ UNCHANGED <<registry, taskVars, cancelled, group, target, toVisit,
                   leaving, up>>

\* Variant: the entry is dropped without cancelling its stream.
CheckEmpty_NoCancel(c) ==
    /\ pc[c] = "checkempty"
    /\ \/ /\ subscribers[held[c]] = {}
          /\ pc' = [pc EXCEPT ![c] = "drop"]
          /\ UNCHANGED held
       \/ /\ subscribers[held[c]] # {}
          /\ Return(c)
    /\ UNCHANGED <<registry, taskVars, cancelled, subscribers, group, target,
                   toVisit, leaving, up>>

\* Variant: no IsEmpty test, the first to leave stops the stream.
CheckEmpty_Always(c) ==
    /\ pc[c] = "checkempty"
    /\ cancelled' = cancelled \cup {held[c]}
    /\ pc' = [pc EXCEPT ![c] = "drop"]
    /\ UNCHANGED <<registry, taskVars, subscribers, group, target, held,
                   toVisit, leaving, up>>

\* Subscribers.IsEmpty, and Cts.Cancel if so.
CheckEmpty(c) ==
    /\ pc[c] = "checkempty"
    /\ \/ /\ subscribers[held[c]] = {}
          /\ cancelled' = cancelled \cup {held[c]}
          /\ pc' = [pc EXCEPT ![c] = "drop"]
          /\ UNCHANGED held
       \/ /\ subscribers[held[c]] # {}
          /\ Return(c)
          /\ UNCHANGED cancelled
    /\ UNCHANGED <<registry, taskVars, subscribers, group, target, toVisit,
                   leaving, up>>

\* Variant: the entry stays.
Drop_Keeps(c) ==
    /\ pc[c] = "drop"
    /\ Return(c)
    /\ UNCHANGED <<registry, taskVars, cancelled, subscribers, group, target,
                   toVisit, leaving, up>>

\* _streams.TryRemove(key): by key, whatever stream is there by now.
Drop(c) ==
    /\ pc[c] = "drop"
    /\ registry' = [registry EXCEPT ![target[c]] = NoStream]
    /\ Return(c)
    /\ UNCHANGED <<taskVars, cancelled, subscribers, group, target, toVisit,
                   leaving, up>>

-----------------------------------------------------------------------------
(* PodLogHub.OnDisconnectedAsync, PodLogStreamService.RemoveAllForConnection *)

\* Variant: OnDisconnectedAsync without RemoveAllForConnection.
Disconnect_NoCleanup(c) ==
    /\ pc[c] = "idle"
    /\ pc' = [pc EXCEPT ![c] = "visit"]
    /\ leaving' = leaving \cup {c}
    /\ UNCHANGED <<registry, taskVars, cancelled, subscribers, group, target,
                   held, toVisit, up>>

Disconnect(c) ==
    /\ pc[c] = "idle"
    /\ pc' = [pc EXCEPT ![c] = "visit"]
    /\ leaving' = leaving \cup {c}
    /\ toVisit' = [toVisit EXCEPT ![c] = Pods]
    /\ UNCHANGED <<registry, taskVars, cancelled, subscribers, group, target,
                   held, up>>

\* The enumerator reaches a key, and finds an entry there or not.
Visit(c, p) ==
    /\ pc[c] = "visit"
    /\ p \in toVisit[c]
    /\ toVisit' = [toVisit EXCEPT ![c] = @ \ {p}]
    /\ \/ /\ registry[p] = NoStream
          /\ UNCHANGED <<pc, target, held>>
       \/ /\ registry[p] # NoStream
          /\ target' = [target EXCEPT ![c] = p]
          /\ held' = [held EXCEPT ![c] = registry[p]]
          /\ pc' = [pc EXCEPT ![c] = "removesub"]
    /\ UNCHANGED <<registry, taskVars, cancelled, subscribers, group, leaving,
                   up>>

\* The enumeration ends; SignalR then takes the connection out of its groups.
Gone(c) ==
    /\ pc[c] = "visit"
    /\ toVisit[c] = {}
    /\ pc' = [pc EXCEPT ![c] = "gone"]
    /\ group' = [p \in Pods |-> group[p] \ {c}]
    /\ UNCHANGED <<registry, taskVars, cancelled, subscribers, target, held,
                   toVisit, leaving, up>>

-----------------------------------------------------------------------------
(* The background task of a stream: StartPodStream's lambda, StreamContainer *)

\* Task.Run(body, token): a token cancelled before the task starts means that
\* neither the body nor its finally block ever runs.
TaskStarts(s) ==
    /\ task[s] = "queued"
    /\ task' = [task EXCEPT ![s] = IF s \in cancelled THEN "skipped"
                                                      ELSE "reading"]
    /\ UNCHANGED <<registry, podOf, open, cancelled, subscribers, group,
                   callVars, up>>

\* ReadNamespacedPodAsync answers with the pod's containers; no container,
\* an error or a cancellation leads to the finally block.
ReadPod(s, containers) ==
    /\ task[s] = "reading"
    /\ open' = [open EXCEPT ![s] = containers]
    /\ task' = [task EXCEPT ![s] = IF containers = {} THEN "finally"
                                                      ELSE "streaming"]
    /\ UNCHANGED <<registry, podOf, cancelled, subscribers, group, callVars,
                   up>>

\* The API server ends a container's log (the container exited, an error).
ContainerEnds(s, k) ==
    /\ task[s] = "streaming"
    /\ k \in open[s]
    /\ open' = [open EXCEPT ![s] = @ \ {k}]
    /\ UNCHANGED <<registry, podOf, task, cancelled, subscribers, group,
                   callVars, up>>

\* The loop of a container sees its token cancelled.
ContainerCancelled(s, k) ==
    /\ s \in cancelled
    /\ task[s] = "streaming"
    /\ k \in open[s]
    /\ open' = [open EXCEPT ![s] = @ \ {k}]
    /\ UNCHANGED <<registry, podOf, task, cancelled, subscribers, group,
                   callVars, up>>

\* Task.WhenAll: every container is finished.
AllContainersEnded(s) ==
    /\ task[s] = "streaming"
    /\ open[s] = {}
    /\ task' = [task EXCEPT ![s] = "finally"]
    /\ UNCHANGED <<registry, podOf, open, cancelled, subscribers, group,
                   callVars, up>>

\* finally { _streams.TryRemove(key) }: by key again.
Finally(s) ==
    /\ task[s] = "finally"
    /\ task' = [task EXCEPT ![s] = "done"]
    /\ registry' = [registry EXCEPT ![podOf[s]] = NoStream]
    /\ UNCHANGED <<podOf, open, cancelled, subscribers, group, callVars, up>>

\* Host shutdown: SignalR has closed every connection, then the container
\* disposes the service, which cancels the registered streams and clears.
DisposeAsync ==
    /\ up
    /\ \A c \in Conns : pc[c] = "gone"
    /\ up' = FALSE
    /\ cancelled' = cancelled \cup {registry[p] : p \in {q \in Pods :
                                                   registry[q] # NoStream}}
    /\ registry' = [p \in Pods |-> NoStream]
    /\ UNCHANGED <<taskVars, subscribers, group, callVars>>

-----------------------------------------------------------------------------
\* What a connection's client decides.
ClientStep(c) ==
    \/ \E p \in Pods : Subscribe(c, p) \/ Unsubscribe(c, p)
    \/ Disconnect(c)

\* What the server does for a call in progress.
CallStep(c) ==
    \/ GetExisting(c)
    \/ \E s \in Streams : StartPodStream(c, s)
    \/ Publish(c)
    \/ AddSubscriber(c)
    \/ Lookup(c)
    \/ RemoveSubscriber(c)
    \/ CheckEmpty(c)
    \/ Drop(c)
    \/ \E p \in Pods : Visit(c, p)
    \/ Gone(c)

\* What a background task does by itself or because it is cancelled.
TaskStep(s) ==
    \/ TaskStarts(s)
    \/ \E containers \in SUBSET Containers : ReadPod(s, containers)
    \/ \E k \in Containers : ContainerCancelled(s, k)
    \/ AllContainersEnded(s)
    \/ Finally(s)

Next ==
    \/ \E c \in Conns : ClientStep(c) \/ CallStep(c)
    \/ \E s \in Streams : TaskStep(s)
    \/ \E s \in Streams, k \in Containers : ContainerEnds(s, k)
    \/ DisposeAsync

\* The thread pool runs every call and every task on; nothing makes a client
\* call, a pod's log end, or the host stop.
Fairness ==
    /\ \A c \in Conns : WF_vars(CallStep(c))
    /\ \A s \in Streams : WF_vars(TaskStep(s))

Spec == Init /\ [][Next]_vars /\ Fairness

-----------------------------------------------------------------------------
TypeOK ==
    /\ registry \in [Pods -> Streams \cup {NoStream}]
    /\ podOf \in [Streams -> Pods]
    /\ task \in [Streams -> TaskStates]
    /\ open \in [Streams -> SUBSET Containers]
    /\ cancelled \subseteq Streams
    /\ subscribers \in [Streams -> SUBSET Conns]
    /\ group \in [Pods -> SUBSET Conns]
    /\ pc \in [Conns -> CallStates]
    /\ target \in [Conns -> Pods]
    /\ held \in [Conns -> Streams \cup {NoStream}]
    /\ toVisit \in [Conns -> SUBSET Pods]
    /\ leaving \subseteq Conns
    /\ up \in BOOLEAN

\* The dictionary never keeps an entry nobody will clear: a registered stream
\* without subscribers, or already cancelled, has a call on its way that will
\* add the subscriber or drop the entry.  (Without this a cancelled stream
\* would answer every later SubscribeAsync for its pod with silence.)
EntryIsOwned ==
    \A p \in Pods : LET s == registry[p] IN s # NoStream =>
        /\ subscribers[s] = {} =>
              \E c \in Conns : \/ pc[c] \in {"addsub", "checkempty"} /\ held[c] = s
                               \/ pc[c] = "drop" /\ target[c] = p
        /\ s \in cancelled => \E c \in Conns : pc[c] = "drop" /\ target[c] = p

\* No ghost subscriber: a connection is counted by the registered stream of a
\* pod only while it is in the pod's group, or while its own UnsubscribeAsync
\* or RemoveAllForConnection has yet to get to that stream.  (A ghost would
\* keep the stream, and the API server connection under it, alive for good.)
NoGhostSubscriber ==
    \A p \in Pods, c \in Conns :
        (registry[p] # NoStream /\ c \in subscribers[registry[p]]) =>
            IF c \in leaving
              THEN \/ p \in toVisit[c]
                   \/ pc[c] = "removesub" /\ held[c] = registry[p]
              ELSE \/ c \in group[p]
                   \/ pc[c] = "lookup" /\ target[c] = p
                   \/ pc[c] = "removesub" /\ held[c] = registry[p]

\* A removal by key that was meant for another stream of the pod: by a call
\* that cancelled a predecessor, or by the finally block of one.
StaleRemoval(p) ==
    \/ \E c \in Conns : pc[c] = "drop" /\ target[c] = p /\ held[c] # registry[p]
    \/ \E s \in Streams \ {registry[p]} : task[s] = "finally" /\ podOf[s] = p

\* The entry of a pod disappears while its stream is live and wanted only by
\* such a removal; every other removal is of a stream that has been cancelled
\* or has ended.
EvictionOK ==
    \A p \in Pods : (registry[p] # NoStream /\ registry'[p] = NoStream) =>
        \/ registry[p] \in cancelled'
        \/ task'[registry[p]] = "done"
        \/ StaleRemoval(p)

EvictedOnlyByStaleRemoval == [][EvictionOK]_vars
=============================================================================
