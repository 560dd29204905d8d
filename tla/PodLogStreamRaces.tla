-------------------------- MODULE PodLogStreamRaces --------------------------
(***************************************************************************)
(* What a client of the pod log hub may count on, and when.  The registry  *)
(* of PodLogStream lets two calls, or a call and the task of an earlier    *)
(* stream, overlap in ways that leave a subscriber without lines or a      *)
(* stream without an owner.  The history variable `raced' records the pods *)
(* at which one of exactly five overlaps has happened; the theorem of the  *)
(* runs is that nothing else goes wrong.                                   *)
(***************************************************************************)
EXTENDS PodLogStream

VARIABLE raced

rvars == <<vars, raced>>

\* 1. Two first subscribers both run the GetOrAdd factory, one stream loses.
LosesFactory(c, p) == pc[c] = "publish" /\ target[c] = p /\ registry[p] # NoStream

\* 2. The task of the new stream ends before GetOrAdd has added the stream.
PublishesDead(c, p) == pc[c] = "publish" /\ target[c] = p /\ task[held[c]] = "done"

\* 3. A subscriber is added to a stream whose last subscriber is leaving.
JoinsCancelled(c, p) ==
    pc[c] = "addsub" /\ target[c] = p /\ held[c] \in cancelled

\* 4. A call that cancelled one stream removes the entry of its successor.
DropsSuccessor(c, p) ==
    pc[c] = "drop" /\ target[c] = p /\ registry[p] \notin {NoStream, held[c]}

\* 5. The finally block of one stream removes the entry of its successor.
FinallyDropsSuccessor(s, p) ==
    task[s] = "finally" /\ podOf[s] = p /\ registry[p] \notin {NoStream, s}

\* The overlap, if any, of the step (vars, vars').
RacedBy(p) ==
    \/ \E c \in Conns : /\ pc'[c] # pc[c]
                        /\ \/ LosesFactory(c, p)
                           \/ PublishesDead(c, p)
                           \/ JoinsCancelled(c, p)
                           \/ DropsSuccessor(c, p)
    \/ \E s \in Streams : task'[s] # task[s] /\ FinallyDropsSuccessor(s, p)

RInit == Init /\ raced = {}

RNext == Next /\ raced' = raced \cup {p \in Pods : RacedBy(p)}

RSpec == RInit /\ [][RNext]_rvars /\ Fairness

-----------------------------------------------------------------------------
\* The log of a pod is still being followed for the stream's subscribers.
Live(s) == s \notin cancelled /\ task[s] \in {"queued", "reading", "streaming"}

\* Every client that has subscribed to a pod and is not in a call is counted
\* by a stream that is live and that its Unsubscribe will find, or by one that
\* ended because the pod's log did and has left the dictionary, so that the
\* next Subscribe starts anew, unless calls overlapped at that pod.
ServedUnlessRaced ==
    \A c \in Conns, p \in Pods :
        (p \notin raced /\ pc[c] = "idle" /\ c \in group[p]) =>
            \E s \in Streams :
                /\ podOf[s] = p /\ c \in subscribers[s] /\ s \notin cancelled
                /\ Live(s) => registry[p] = s
                /\ task[s] = "done" => registry[p] # s

\* A stream that follows a pod's log is the one the dictionary knows, so that
\* the last Unsubscribe can stop it and no line reaches the group twice,
\* unless calls overlapped at that pod.
NoOrphanUnlessRaced ==
    up => \A s \in Streams :
        (podOf[s] \notin raced /\ Live(s)) =>
            \/ registry[podOf[s]] = s
            \/ \E c \in Conns : pc[c] = "publish" /\ held[c] = s

\* A stream all of whose subscribers are disconnecting stops, unless another
\* subscriber joins it or calls overlapped at that pod.
LastLeaverStopsStream ==
    \A s \in Streams :
        (Live(s) /\ subscribers[s] # {} /\ subscribers[s] \subseteq leaving) ~>
            \/ task[s] \in {"done", "skipped"}
            \/ ~ (subscribers[s] \subseteq leaving)
            \/ podOf[s] \in raced
=============================================================================
