------------------------- MODULE PodLogStreamProofs -------------------------
(***************************************************************************)
(* Proofs about PodLogStream for every set of connections, pods,           *)
(* containers and stream identities.                                       *)
(***************************************************************************)
EXTENDS PodLogStreamRaces, TLAPS

\* What the local variable `stream' of a call in progress denotes.
HeldOK ==
    \A c \in Conns :
        /\ pc[c] \in {"publish", "addsub", "removesub", "checkempty"} =>
              /\ held[c] \in Streams
              /\ task[held[c]] # "unmade"
              /\ podOf[held[c]] = target[c]
        /\ pc[c] = "drop" => held[c] \in Streams \cap cancelled

\* Before GetOrAdd publishes it, nobody but its maker knows a stream.
FreshOK ==
    \A c \in Conns : pc[c] = "publish" =>
        /\ subscribers[held[c]] = {}
        /\ held[c] \notin cancelled
        /\ \A p \in Pods : registry[p] # held[c]
        /\ \A d \in Conns \ {c} : held[d] # held[c]

\* A stream identity that is still free has no trace anywhere.
UnmadeOK ==
    \A s \in Streams : task[s] = "unmade" =>
        /\ subscribers[s] = {}
        /\ s \notin cancelled
        /\ \A c \in Conns : held[c] # s

\* An entry is a stream made for that pod.
RegistryOK ==
    \A p \in Pods : registry[p] # NoStream =>
        /\ task[registry[p]] # "unmade"
        /\ podOf[registry[p]] = p

\* A call that subscribes is in the group; a disconnecting connection makes
\* no call.
CallOK ==
    \A c \in Conns :
        /\ pc[c] \in {"getoradd", "publish", "addsub"} => c \in group[target[c]]
        /\ pc[c] \in {"idle", "getoradd", "publish", "addsub", "lookup"} =>
              c \notin leaving
        /\ pc[c] \in {"visit", "gone"} => c \in leaving

Shape == TypeOK /\ HeldOK /\ FreshOK /\ UnmadeOK /\ RegistryOK /\ CallOK

\* The inductive invariant: the two safety properties of the registry, and the
\* shape of the calls in progress that they rest on.
Inv == Shape /\ EntryIsOwned /\ NoGhostSubscriber

USE NoStreamAssumption

LEMMA InitInv == Init => Inv
  BY DEF Init, Inv, Shape, TypeOK, HeldOK, FreshOK, UnmadeOK, RegistryOK, CallOK,
         EntryIsOwned, NoGhostSubscriber, TaskStates, CallStates

LEMMA SubscribeInv ==
  ASSUME Inv, NEW c \in Conns, NEW p \in Pods, Subscribe(c, p)
  PROVE  Inv'
<1> USE DEF Subscribe, taskVars
<1>1. TypeOK'
  BY DEF Inv, Shape, TypeOK, HeldOK, TaskStates, CallStates
<1>2. HeldOK' /\ RegistryOK' /\ CallOK'
  BY DEF Inv, Shape, TypeOK, HeldOK, RegistryOK, CallOK, UnmadeOK
<1>3. FreshOK' /\ UnmadeOK'
  BY DEF Inv, Shape, TypeOK, HeldOK, FreshOK, UnmadeOK, RegistryOK
<1>4. EntryIsOwned'
  BY DEF Inv, Shape, TypeOK, HeldOK, FreshOK, RegistryOK, CallOK, EntryIsOwned
<1>5. NoGhostSubscriber'
  BY DEF Inv, Shape, TypeOK, HeldOK, FreshOK, RegistryOK, CallOK, NoGhostSubscriber
<1> QED  BY <1>1, <1>2, <1>3, <1>4, <1>5 DEF Inv, Shape

LEMMA GetExistingInv ==
  ASSUME Inv, NEW c \in Conns, GetExisting(c)
  PROVE  Inv'
<1> USE DEF GetExisting, taskVars
<1>1. TypeOK'
  BY DEF Inv, Shape, TypeOK, HeldOK, TaskStates, CallStates
<1>2. HeldOK' /\ RegistryOK' /\ CallOK'
  BY DEF Inv, Shape, TypeOK, HeldOK, RegistryOK, CallOK, UnmadeOK
<1>3. FreshOK' /\ UnmadeOK'
  BY DEF Inv, Shape, TypeOK, HeldOK, FreshOK, UnmadeOK, RegistryOK
<1>4. EntryIsOwned'
  BY DEF Inv, Shape, TypeOK, HeldOK, FreshOK, RegistryOK, CallOK, EntryIsOwned
<1>5. NoGhostSubscriber'
  BY DEF Inv, Shape, TypeOK, HeldOK, FreshOK, RegistryOK, CallOK, NoGhostSubscriber
<1> QED  BY <1>1, <1>2, <1>3, <1>4, <1>5 DEF Inv, Shape

LEMMA StartPodStreamInv ==
  ASSUME Inv, NEW c \in Conns, NEW s \in Streams, StartPodStream(c, s)
  PROVE  Inv'
<1> USE DEF StartPodStream, taskVars
<1>1. TypeOK'
  BY DEF Inv, Shape, TypeOK, HeldOK, TaskStates, CallStates
<1>2. HeldOK' /\ RegistryOK' /\ CallOK'
  BY DEF Inv, Shape, TypeOK, HeldOK, RegistryOK, CallOK, UnmadeOK
<1>3. FreshOK' /\ UnmadeOK'
  BY DEF Inv, Shape, TypeOK, HeldOK, FreshOK, UnmadeOK, RegistryOK
<1>4. EntryIsOwned'
  BY DEF Inv, Shape, TypeOK, HeldOK, FreshOK, RegistryOK, CallOK, EntryIsOwned
<1>5. NoGhostSubscriber'
  BY DEF Inv, Shape, TypeOK, HeldOK, FreshOK, RegistryOK, CallOK, NoGhostSubscriber
<1> QED  BY <1>1, <1>2, <1>3, <1>4, <1>5 DEF Inv, Shape

LEMMA PublishInv ==
  ASSUME Inv, NEW c \in Conns, Publish(c)
  PROVE  Inv'
<1> USE DEF Publish, taskVars
<1>1. TypeOK'
  BY DEF Inv, Shape, TypeOK, HeldOK, TaskStates, CallStates
<1>2. HeldOK' /\ RegistryOK' /\ CallOK'
  BY DEF Inv, Shape, TypeOK, HeldOK, RegistryOK, CallOK, UnmadeOK
<1>3. FreshOK' /\ UnmadeOK'
  BY DEF Inv, Shape, TypeOK, HeldOK, FreshOK, UnmadeOK, RegistryOK
<1>4. EntryIsOwned'
  BY DEF Inv, Shape, TypeOK, HeldOK, FreshOK, RegistryOK, CallOK, EntryIsOwned
<1>5. NoGhostSubscriber'
  BY DEF Inv, Shape, TypeOK, HeldOK, FreshOK, RegistryOK, CallOK, NoGhostSubscriber
<1> QED  BY <1>1, <1>2, <1>3, <1>4, <1>5 DEF Inv, Shape

LEMMA AddSubscriberInv ==
  ASSUME Inv, NEW c \in Conns, AddSubscriber(c)
  PROVE  Inv'
<1> USE DEF AddSubscriber, taskVars
<1>1. TypeOK'
  <2>1. held[c] \in Streams
    BY DEF Inv, Shape, HeldOK
  <2>2. subscribers' \in [Streams -> SUBSET Conns]
    BY <2>1 DEF Inv, Shape, TypeOK
  <2>3. pc' \in [Conns -> CallStates] /\ held' \in [Conns -> Streams \cup {NoStream}]
    BY DEF Inv, Shape, TypeOK, CallStates
  <2> QED  BY <2>2, <2>3 DEF Inv, Shape, TypeOK
<1>2. HeldOK' /\ RegistryOK' /\ CallOK'
  BY DEF Inv, Shape, TypeOK, HeldOK, RegistryOK, CallOK, UnmadeOK
<1>3. FreshOK' /\ UnmadeOK'
  BY DEF Inv, Shape, TypeOK, HeldOK, FreshOK, UnmadeOK, RegistryOK
<1>4. EntryIsOwned'
  <2> SUFFICES ASSUME NEW p \in Pods, registry[p] # NoStream
               PROVE  /\ subscribers'[registry[p]] = {} =>
                            \E d \in Conns :
                               \/ /\ pc'[d] \in {"addsub", "checkempty"}
                                  /\ held'[d] = registry[p]
                               \/ pc'[d] = "drop" /\ target[d] = p
                      /\ registry[p] \in cancelled =>
                            \E d \in Conns : pc'[d] = "drop" /\ target[d] = p
    BY DEF EntryIsOwned
  <2>1. \A d \in Conns \ {c} : pc'[d] = pc[d] /\ held'[d] = held[d]
    BY DEF Inv, Shape, TypeOK
  <2>2. pc[c] = "addsub" /\ held[c] \in Streams /\ registry[p] \in Streams
    BY DEF Inv, Shape, TypeOK, HeldOK
  <2>3. CASE registry[p] = held[c]
    <3>1. subscribers'[registry[p]] # {}
      BY <2>2, <2>3 DEF Inv, Shape, TypeOK
    <3> QED  BY <2>1, <2>2, <3>1 DEF Inv, EntryIsOwned
  <2>4. CASE registry[p] # held[c]
    <3>1. subscribers'[registry[p]] = subscribers[registry[p]]
      BY <2>2, <2>4 DEF Inv, Shape, TypeOK
    <3> QED  BY <2>1, <2>2, <2>4, <3>1 DEF Inv, EntryIsOwned
  <2> QED  BY <2>3, <2>4
<1>5. NoGhostSubscriber'
  BY DEF Inv, Shape, TypeOK, HeldOK, FreshOK, RegistryOK, CallOK, NoGhostSubscriber
<1> QED  BY <1>1, <1>2, <1>3, <1>4, <1>5 DEF Inv, Shape

LEMMA UnsubscribeInv ==
  ASSUME Inv, NEW c \in Conns, NEW p \in Pods, Unsubscribe(c, p)
  PROVE  Inv'
<1> USE DEF Unsubscribe, taskVars
<1>1. TypeOK'
  BY DEF Inv, Shape, TypeOK, HeldOK, TaskStates, CallStates
<1>2. HeldOK' /\ RegistryOK' /\ CallOK'
  BY DEF Inv, Shape, TypeOK, HeldOK, RegistryOK, CallOK, UnmadeOK
<1>3. FreshOK' /\ UnmadeOK'
  BY DEF Inv, Shape, TypeOK, HeldOK, FreshOK, UnmadeOK, RegistryOK
<1>4. EntryIsOwned'
  BY DEF Inv, Shape, TypeOK, HeldOK, FreshOK, RegistryOK, CallOK, EntryIsOwned
<1>5. NoGhostSubscriber'
  BY DEF Inv, Shape, TypeOK, HeldOK, FreshOK, RegistryOK, CallOK, NoGhostSubscriber
<1> QED  BY <1>1, <1>2, <1>3, <1>4, <1>5 DEF Inv, Shape

LEMMA LookupInv ==
  ASSUME Inv, NEW c \in Conns, Lookup(c)
  PROVE  Inv'
<1> USE DEF Lookup, Return, taskVars
<1>1. TypeOK'
  BY DEF Inv, Shape, TypeOK, HeldOK, TaskStates, CallStates
<1>2. HeldOK' /\ RegistryOK' /\ CallOK'
  BY DEF Inv, Shape, TypeOK, HeldOK, RegistryOK, CallOK, UnmadeOK
<1>3. FreshOK' /\ UnmadeOK'
  BY DEF Inv, Shape, TypeOK, HeldOK, FreshOK, UnmadeOK, RegistryOK
<1>4. EntryIsOwned'
  BY DEF Inv, Shape, TypeOK, HeldOK, FreshOK, RegistryOK, CallOK, EntryIsOwned
<1>5. NoGhostSubscriber'
  BY DEF Inv, Shape, TypeOK, HeldOK, FreshOK, RegistryOK, CallOK, NoGhostSubscriber
<1> QED  BY <1>1, <1>2, <1>3, <1>4, <1>5 DEF Inv, Shape

LEMMA RemoveSubscriberInv ==
  ASSUME Inv, NEW c \in Conns, RemoveSubscriber(c)
  PROVE  Inv'
<1> USE DEF RemoveSubscriber, Return, taskVars
<1>1. TypeOK'
  <2>1. held[c] \in Streams
    BY DEF Inv, Shape, HeldOK
  <2>2. subscribers' \in [Streams -> SUBSET Conns]
    BY <2>1 DEF Inv, Shape, TypeOK
  <2>3. pc' \in [Conns -> CallStates] /\ held' \in [Conns -> Streams \cup {NoStream}]
    BY DEF Inv, Shape, TypeOK, CallStates
  <2> QED  BY <2>2, <2>3 DEF Inv, Shape, TypeOK
<1>2. HeldOK' /\ RegistryOK' /\ CallOK'
  BY DEF Inv, Shape, TypeOK, HeldOK, RegistryOK, CallOK, UnmadeOK
<1>3. FreshOK' /\ UnmadeOK'
  BY DEF Inv, Shape, TypeOK, HeldOK, FreshOK, UnmadeOK, RegistryOK
<1>4. EntryIsOwned'
  BY DEF Inv, Shape, TypeOK, HeldOK, FreshOK, RegistryOK, CallOK, EntryIsOwned
<1>5. NoGhostSubscriber'
  BY DEF Inv, Shape, TypeOK, HeldOK, FreshOK, RegistryOK, CallOK, NoGhostSubscriber
<1> QED  BY <1>1, <1>2, <1>3, <1>4, <1>5 DEF Inv, Shape

LEMMA CheckEmptyInv ==
  ASSUME Inv, NEW c \in Conns, CheckEmpty(c)
  PROVE  Inv'
<1> USE DEF CheckEmpty, Return, taskVars
<1>1. TypeOK'
  BY DEF Inv, Shape, TypeOK, HeldOK, TaskStates, CallStates
<1>2. HeldOK' /\ RegistryOK' /\ CallOK'
  BY DEF Inv, Shape, TypeOK, HeldOK, RegistryOK, CallOK, UnmadeOK
<1>3. FreshOK' /\ UnmadeOK'
  BY DEF Inv, Shape, TypeOK, HeldOK, FreshOK, UnmadeOK, RegistryOK
<1>4. EntryIsOwned'
  BY DEF Inv, Shape, TypeOK, HeldOK, FreshOK, RegistryOK, CallOK, EntryIsOwned
<1>5. NoGhostSubscriber'
  BY DEF Inv, Shape, TypeOK, HeldOK, FreshOK, RegistryOK, CallOK, NoGhostSubscriber
<1> QED  BY <1>1, <1>2, <1>3, <1>4, <1>5 DEF Inv, Shape

LEMMA DropInv ==
  ASSUME Inv, NEW c \in Conns, Drop(c)
  PROVE  Inv'
<1> USE DEF Drop, Return, taskVars
<1>1. TypeOK'
  BY DEF Inv, Shape, TypeOK, HeldOK, TaskStates, CallStates
<1>2. HeldOK' /\ RegistryOK' /\ CallOK'
  BY DEF Inv, Shape, TypeOK, HeldOK, RegistryOK, CallOK, UnmadeOK
<1>3. FreshOK' /\ UnmadeOK'
  BY DEF Inv, Shape, TypeOK, HeldOK, FreshOK, UnmadeOK, RegistryOK
<1>4. EntryIsOwned'
  BY DEF Inv, Shape, TypeOK, HeldOK, FreshOK, RegistryOK, CallOK, EntryIsOwned
<1>5. NoGhostSubscriber'
  BY DEF Inv, Shape, TypeOK, HeldOK, FreshOK, RegistryOK, CallOK, NoGhostSubscriber
<1> QED  BY <1>1, <1>2, <1>3, <1>4, <1>5 DEF Inv, Shape

LEMMA DisconnectInv ==
  ASSUME Inv, NEW c \in Conns, Disconnect(c)
  PROVE  Inv'
<1> USE DEF Disconnect, taskVars
<1>1. TypeOK'
  BY DEF Inv, Shape, TypeOK, HeldOK, TaskStates, CallStates
<1>2. HeldOK' /\ RegistryOK' /\ CallOK'
  BY DEF Inv, Shape, TypeOK, HeldOK, RegistryOK, CallOK, UnmadeOK
<1>3. FreshOK' /\ UnmadeOK'
  BY DEF Inv, Shape, TypeOK, HeldOK, FreshOK, UnmadeOK, RegistryOK
<1>4. EntryIsOwned'
  BY DEF Inv, Shape, TypeOK, HeldOK, FreshOK, RegistryOK, CallOK, EntryIsOwned
<1>5. NoGhostSubscriber'
  BY DEF Inv, Shape, TypeOK, HeldOK, FreshOK, RegistryOK, CallOK, NoGhostSubscriber
<1> QED  BY <1>1, <1>2, <1>3, <1>4, <1>5 DEF Inv, Shape

LEMMA VisitInv ==
  ASSUME Inv, NEW c \in Conns, NEW p \in Pods, Visit(c, p)
  PROVE  Inv'
<1> USE DEF Visit, taskVars
<1>1. TypeOK'
  BY DEF Inv, Shape, TypeOK, HeldOK, TaskStates, CallStates
<1>2. HeldOK' /\ RegistryOK' /\ CallOK'
  BY DEF Inv, Shape, TypeOK, HeldOK, RegistryOK, CallOK, UnmadeOK
<1>3. FreshOK' /\ UnmadeOK'
  BY DEF Inv, Shape, TypeOK, HeldOK, FreshOK, UnmadeOK, RegistryOK
<1>4. EntryIsOwned'
  BY DEF Inv, Shape, TypeOK, HeldOK, FreshOK, RegistryOK, CallOK, EntryIsOwned
<1>5. NoGhostSubscriber'
  BY DEF Inv, Shape, TypeOK, HeldOK, FreshOK, RegistryOK, CallOK, NoGhostSubscriber
<1> QED  BY <1>1, <1>2, <1>3, <1>4, <1>5 DEF Inv, Shape

LEMMA GoneInv ==
  ASSUME Inv, NEW c \in Conns, Gone(c)
  PROVE  Inv'
<1> USE DEF Gone, taskVars
<1>1. TypeOK'
  BY DEF Inv, Shape, TypeOK, HeldOK, TaskStates, CallStates
<1>2. HeldOK' /\ RegistryOK' /\ CallOK'
  BY DEF Inv, Shape, TypeOK, HeldOK, RegistryOK, CallOK, UnmadeOK
<1>3. FreshOK' /\ UnmadeOK'
  BY DEF Inv, Shape, TypeOK, HeldOK, FreshOK, UnmadeOK, RegistryOK
<1>4. EntryIsOwned'
  BY DEF Inv, Shape, TypeOK, HeldOK, FreshOK, RegistryOK, CallOK, EntryIsOwned
<1>5. NoGhostSubscriber'
  BY DEF Inv, Shape, TypeOK, HeldOK, FreshOK, RegistryOK, CallOK, NoGhostSubscriber
<1> QED  BY <1>1, <1>2, <1>3, <1>4, <1>5 DEF Inv, Shape

LEMMA TaskStartsInv ==
  ASSUME Inv, NEW s \in Streams, TaskStarts(s)
  PROVE  Inv'
<1> USE DEF TaskStarts, callVars
<1>1. TypeOK'
  BY DEF Inv, Shape, TypeOK, HeldOK, TaskStates, CallStates
<1>2. HeldOK' /\ RegistryOK' /\ CallOK'
  BY DEF Inv, Shape, TypeOK, HeldOK, RegistryOK, CallOK, UnmadeOK
<1>3. FreshOK' /\ UnmadeOK'
  BY DEF Inv, Shape, TypeOK, HeldOK, FreshOK, UnmadeOK, RegistryOK
<1>4. EntryIsOwned'
  BY DEF Inv, Shape, TypeOK, HeldOK, FreshOK, RegistryOK, CallOK, EntryIsOwned
<1>5. NoGhostSubscriber'
  BY DEF Inv, Shape, TypeOK, HeldOK, FreshOK, RegistryOK, CallOK, NoGhostSubscriber
<1> QED  BY <1>1, <1>2, <1>3, <1>4, <1>5 DEF Inv, Shape

LEMMA ReadPodInv ==
  ASSUME Inv, NEW s \in Streams, NEW containers \in SUBSET Containers, ReadPod(s, containers)
  PROVE  Inv'
<1> USE DEF ReadPod, callVars
<1>1. TypeOK'
  BY DEF Inv, Shape, TypeOK, HeldOK, TaskStates, CallStates
<1>2. HeldOK' /\ RegistryOK' /\ CallOK'
  BY DEF Inv, Shape, TypeOK, HeldOK, RegistryOK, CallOK, UnmadeOK
<1>3. FreshOK' /\ UnmadeOK'
  BY DEF Inv, Shape, TypeOK, HeldOK, FreshOK, UnmadeOK, RegistryOK
<1>4. EntryIsOwned'
  BY DEF Inv, Shape, TypeOK, HeldOK, FreshOK, RegistryOK, CallOK, EntryIsOwned
<1>5. NoGhostSubscriber'
  BY DEF Inv, Shape, TypeOK, HeldOK, FreshOK, RegistryOK, CallOK, NoGhostSubscriber
<1> QED  BY <1>1, <1>2, <1>3, <1>4, <1>5 DEF Inv, Shape

LEMMA ContainerEndsInv ==
  ASSUME Inv, NEW s \in Streams, NEW k \in Containers, ContainerEnds(s, k)
  PROVE  Inv'
<1> USE DEF ContainerEnds, callVars
<1>1. TypeOK'
  BY DEF Inv, Shape, TypeOK, HeldOK, TaskStates, CallStates
<1>2. HeldOK' /\ RegistryOK' /\ CallOK'
  BY DEF Inv, Shape, TypeOK, HeldOK, RegistryOK, CallOK, UnmadeOK
<1>3. FreshOK' /\ UnmadeOK'
  BY DEF Inv, Shape, TypeOK, HeldOK, FreshOK, UnmadeOK, RegistryOK
<1>4. EntryIsOwned'
  BY DEF Inv, Shape, TypeOK, HeldOK, FreshOK, RegistryOK, CallOK, EntryIsOwned
<1>5. NoGhostSubscriber'
  BY DEF Inv, Shape, TypeOK, HeldOK, FreshOK, RegistryOK, CallOK, NoGhostSubscriber
<1> QED  BY <1>1, <1>2, <1>3, <1>4, <1>5 DEF Inv, Shape

LEMMA ContainerCancelledInv ==
  ASSUME Inv, NEW s \in Streams, NEW k \in Containers, ContainerCancelled(s, k)
  PROVE  Inv'
<1> USE DEF ContainerCancelled, callVars
<1>1. TypeOK'
  BY DEF Inv, Shape, TypeOK, HeldOK, TaskStates, CallStates
<1>2. HeldOK' /\ RegistryOK' /\ CallOK'
  BY DEF Inv, Shape, TypeOK, HeldOK, RegistryOK, CallOK, UnmadeOK
<1>3. FreshOK' /\ UnmadeOK'
  BY DEF Inv, Shape, TypeOK, HeldOK, FreshOK, UnmadeOK, RegistryOK
<1>4. EntryIsOwned'
  BY DEF Inv, Shape, TypeOK, HeldOK, FreshOK, RegistryOK, CallOK, EntryIsOwned
<1>5. NoGhostSubscriber'
  BY DEF Inv, Shape, TypeOK, HeldOK, FreshOK, RegistryOK, CallOK, NoGhostSubscriber
<1> QED  BY <1>1, <1>2, <1>3, <1>4, <1>5 DEF Inv, Shape

LEMMA AllContainersEndedInv ==
  ASSUME Inv, NEW s \in Streams, AllContainersEnded(s)
  PROVE  Inv'
<1> USE DEF AllContainersEnded, callVars
<1>1. TypeOK'
  BY DEF Inv, Shape, TypeOK, HeldOK, TaskStates, CallStates
<1>2. HeldOK' /\ RegistryOK' /\ CallOK'
  BY DEF Inv, Shape, TypeOK, HeldOK, RegistryOK, CallOK, UnmadeOK
<1>3. FreshOK' /\ UnmadeOK'
  BY DEF Inv, Shape, TypeOK, HeldOK, FreshOK, UnmadeOK, RegistryOK
<1>4. EntryIsOwned'
  BY DEF Inv, Shape, TypeOK, HeldOK, FreshOK, RegistryOK, CallOK, EntryIsOwned
<1>5. NoGhostSubscriber'
  BY DEF Inv, Shape, TypeOK, HeldOK, FreshOK, RegistryOK, CallOK, NoGhostSubscriber
<1> QED  BY <1>1, <1>2, <1>3, <1>4, <1>5 DEF Inv, Shape

LEMMA FinallyInv ==
  ASSUME Inv, NEW s \in Streams, Finally(s)
  PROVE  Inv'
<1> USE DEF Finally, callVars
<1>1. TypeOK'
  BY DEF Inv, Shape, TypeOK, HeldOK, TaskStates, CallStates
<1>2. HeldOK' /\ RegistryOK' /\ CallOK'
  BY DEF Inv, Shape, TypeOK, HeldOK, RegistryOK, CallOK, UnmadeOK
<1>3. FreshOK' /\ UnmadeOK'
  BY DEF Inv, Shape, TypeOK, HeldOK, FreshOK, UnmadeOK, RegistryOK
<1>4. EntryIsOwned'
  BY DEF Inv, Shape, TypeOK, HeldOK, FreshOK, RegistryOK, CallOK, EntryIsOwned
<1>5. NoGhostSubscriber'
  BY DEF Inv, Shape, TypeOK, HeldOK, FreshOK, RegistryOK, CallOK, NoGhostSubscriber
<1> QED  BY <1>1, <1>2, <1>3, <1>4, <1>5 DEF Inv, Shape

LEMMA DisposeAsyncInv ==
  ASSUME Inv, DisposeAsync
  PROVE  Inv'
<1> USE DEF DisposeAsync, taskVars, callVars
<1>1. TypeOK'
  <2>1. {registry[p] : p \in {q \in Pods : registry[q] # NoStream}} \subseteq Streams
    BY DEF Inv, Shape, TypeOK
  <2> QED  BY <2>1 DEF Inv, Shape, TypeOK
<1>2. HeldOK' /\ RegistryOK' /\ CallOK'
  BY DEF Inv, Shape, TypeOK, HeldOK, RegistryOK, CallOK, UnmadeOK
<1>3. FreshOK' /\ UnmadeOK'
  BY DEF Inv, Shape, TypeOK, HeldOK, FreshOK, UnmadeOK, RegistryOK
<1>4. EntryIsOwned'
  BY DEF Inv, Shape, TypeOK, HeldOK, FreshOK, RegistryOK, CallOK, EntryIsOwned
<1>5. NoGhostSubscriber'
  BY DEF Inv, Shape, TypeOK, HeldOK, FreshOK, RegistryOK, CallOK, NoGhostSubscriber
<1> QED  BY <1>1, <1>2, <1>3, <1>4, <1>5 DEF Inv, Shape

LEMMA StutterInv ==
  ASSUME Inv, UNCHANGED vars
  PROVE  Inv'
  BY DEF Inv, Shape, TypeOK, HeldOK, FreshOK, UnmadeOK, RegistryOK, CallOK,
         EntryIsOwned, NoGhostSubscriber, vars, taskVars, callVars

LEMMA NextInv ==
  ASSUME Inv, [Next]_vars
  PROVE  Inv'
<1>1. ASSUME NEW c \in Conns, ClientStep(c)
      PROVE  Inv'
  BY <1>1, SubscribeInv, UnsubscribeInv, DisconnectInv DEF ClientStep
<1>2. ASSUME NEW c \in Conns, CallStep(c)
      PROVE  Inv'
  BY <1>2, GetExistingInv, StartPodStreamInv, PublishInv, AddSubscriberInv,
     LookupInv, RemoveSubscriberInv, CheckEmptyInv, DropInv, VisitInv, GoneInv
     DEF CallStep
<1>3. ASSUME NEW s \in Streams, TaskStep(s)
      PROVE  Inv'
  BY <1>3, TaskStartsInv, ReadPodInv, ContainerCancelledInv,
     AllContainersEndedInv, FinallyInv DEF TaskStep
<1>4. ASSUME NEW s \in Streams, NEW k \in Containers, ContainerEnds(s, k)
      PROVE  Inv'
  BY <1>4, ContainerEndsInv
<1> QED
  BY <1>1, <1>2, <1>3, <1>4, DisposeAsyncInv, StutterInv DEF Next

LEMMA Invariance == Spec => []Inv
<1>1. Inv /\ [Next]_vars => Inv'
  BY NextInv
<1> QED  BY InitInv, <1>1, PTL DEF Spec

\* Every variable keeps its type, whatever the interleaving.
THEOREM TypeCorrect == Spec => []TypeOK
<1>1. Inv => TypeOK
  BY DEF Inv, Shape
<1> QED  BY Invariance, <1>1, PTL

\* The registry never holds an entry that no call will clear: SubscribeAsync
\* and UnsubscribeAsync of any number of connections leave behind no cancelled
\* stream and no stream without subscribers.
THEOREM EntriesAreOwned == Spec => []EntryIsOwned
<1>1. Inv => EntryIsOwned
  BY DEF Inv
<1> QED  BY Invariance, <1>1, PTL

\* A registered stream counts no connection that has left the pod's group or
\* disconnected, once that connection's own call is over.
THEOREM NoGhostSubscribers == Spec => []NoGhostSubscriber
<1>1. Inv => NoGhostSubscriber
  BY DEF Inv
<1> QED  BY Invariance, <1>1, PTL

\* An entry whose stream is live goes away only by a removal meant for another
\* stream of the same pod.
THEOREM EvictionsAreStale == Spec => EvictedOnlyByStaleRemoval
<1>1. ASSUME Inv, [Next]_vars
      PROVE  [EvictionOK]_vars
  <2> SUFFICES ASSUME Next, NEW p \in Pods,
                      registry[p] # NoStream, registry'[p] = NoStream
               PROVE  \/ registry[p] \in cancelled'
                      \/ task'[registry[p]] = "done"
                      \/ StaleRemoval(p)
    BY <1>1 DEF EvictionOK
  <2>1. ASSUME NEW c \in Conns, ClientStep(c)
        PROVE  FALSE
    BY <2>1 DEF ClientStep, Subscribe, Unsubscribe, Disconnect
  <2>2. ASSUME NEW c \in Conns, CallStep(c)
        PROVE  Drop(c)
    <3>1. CASE Publish(c)
      BY <1>1, <3>1 DEF Publish, Inv, Shape, TypeOK, HeldOK
    <3> QED
      BY <2>2, <3>1 DEF CallStep, GetExisting, StartPodStream, AddSubscriber,
         Lookup, RemoveSubscriber, CheckEmpty, Visit, Gone
  <2>3. ASSUME NEW c \in Conns, Drop(c)
        PROVE  registry[p] \in cancelled' \/ StaleRemoval(p)
    BY <1>1, <2>3 DEF Drop, Inv, Shape, TypeOK, HeldOK, StaleRemoval
  <2>4. ASSUME NEW s \in Streams, TaskStep(s)
        PROVE  Finally(s)
    BY <2>4 DEF TaskStep, TaskStarts, ReadPod, ContainerCancelled,
       AllContainersEnded
  <2>5. ASSUME NEW s \in Streams, Finally(s)
        PROVE  task'[registry[p]] = "done" \/ StaleRemoval(p)
    BY <1>1, <2>5 DEF Finally, Inv, Shape, TypeOK, StaleRemoval
  <2>6. ASSUME NEW s \in Streams, NEW k \in Containers, ContainerEnds(s, k)
        PROVE  FALSE
    BY <2>6 DEF ContainerEnds
  <2>7. CASE DisposeAsync
    BY <2>7 DEF DisposeAsync
  <2> QED  BY <2>1, <2>2, <2>3, <2>4, <2>5, <2>6, <2>7 DEF Next
<1> QED  BY Invariance, <1>1, PTL DEF Spec, EvictedOnlyByStaleRemoval

-----------------------------------------------------------------------------
\* The history variable only watches: the behaviours the runs check are those
\* of the service, so that what is proved of Spec holds of RSpec too.
THEOREM HistoryOnlyWatches == RSpec => Spec
<1>1. RInit => Init
    BY DEF RInit
<1>2. [RNext]_rvars => [Next]_vars
    BY DEF RNext, rvars
<1> QED BY <1>1, <1>2, PTL DEF RSpec, Spec

-----------------------------------------------------------------------------
(* What clients may count on (PodLogStreamRaces).                          *)

Subscribing(c, p) ==
    target[c] = p /\ pc[c] \in {"getoradd", "publish", "addsub"}

\* The service is disposed when every connection is gone.
DownOK == ~up => \A c \in Conns : pc[c] = "gone"

\* A call that unsubscribes has left the group.
UnsubscribingOK ==
    \A c \in Conns \ leaving :
        pc[c] \in {"lookup", "removesub", "checkempty", "drop"}
            => c \notin group[target[c]]

\* A stream that has ended is in the dictionary only after an overlap.
EndedOK ==
    \A s \in Streams :
        podOf[s] \notin raced /\ task[s] = "done" => registry[podOf[s]] # s

\* c is counted by stream s of p, which its Unsubscribe will find or which has
\* ended and is gone.
CountedBy(s, c, p) ==
    /\ podOf[s] = p /\ c \in subscribers[s] /\ s \notin cancelled
    /\ Live(s) => registry[p] = s
    /\ task[s] = "done" => registry[p] # s

\* ServedUnlessRaced also during calls, other than one that subscribes to the
\* same pod again, and until the connection leaves.
ServedInCalls ==
    \A c \in Conns \ leaving, p \in Pods \ raced :
        c \in group[p] /\ ~Subscribing(c, p)
            => \E s \in Streams : CountedBy(s, c, p)

RInv ==
    /\ Inv
    /\ DownOK
    /\ UnsubscribingOK
    /\ EndedOK
    /\ NoOrphanUnlessRaced
    /\ ServedInCalls

\* What RInv adds to Inv, and what the history variable makes of a step.
Following ==
    DownOK /\ UnsubscribingOK /\ EndedOK /\ NoOrphanUnlessRaced /\ ServedInCalls

Watched == raced' = raced \cup {p \in Pods : RacedBy(p)}

\* A pod that is not raced after a step was not raced before, nor by it.
LEMMA NotRaced ==
  ASSUME Watched, NEW p \in Pods \ raced'
  PROVE  p \notin raced /\ ~RacedBy(p)
  BY DEF Watched

\* Steps of a call that change neither the dictionary nor a stream.
QuietCall(c) ==
    \/ \E p \in Pods : Subscribe(c, p) \/ Unsubscribe(c, p) \/ Visit(c, p)
    \/ GetExisting(c) \/ Lookup(c) \/ Disconnect(c) \/ Gone(c)

\* Steps of a stream's task that leave it the entry it has.
QuietTask(s) ==
    \/ TaskStarts(s) \/ AllContainersEnded(s)
    \/ \E containers \in SUBSET Containers : ReadPod(s, containers)
    \/ \E k \in Containers : ContainerEnds(s, k) \/ ContainerCancelled(s, k)

LEMMA QuietCallFollows ==
  ASSUME RInv, Watched, NEW c \in Conns, QuietCall(c)
  PROVE  Following'
<1>1. TypeOK /\ TypeOK'
  BY SubscribeInv, UnsubscribeInv, VisitInv, GetExistingInv, LookupInv,
     DisconnectInv, GoneInv DEF QuietCall, RInv, Inv, Shape
<1>2. raced \subseteq raced'
  BY DEF Watched
<1>3. /\ UNCHANGED <<registry, podOf, task, cancelled, subscribers, up>>
      /\ \A d \in Conns \ {c} : pc'[d] = pc[d] /\ held'[d] = held[d]
      /\ pc[c] # "publish" /\ pc'[c] # "publish"
  <2>1. ASSUME NEW p \in Pods, Subscribe(c, p) \/ Unsubscribe(c, p) \/ Visit(c, p)
        PROVE  <1>3!:
    BY <1>1, <2>1 DEF Subscribe, Unsubscribe, Visit, taskVars, TypeOK
  <2>2. CASE GetExisting(c) \/ Lookup(c) \/ Disconnect(c) \/ Gone(c)
    BY <1>1, <2>2 DEF GetExisting, Lookup, Return, Disconnect, Gone, taskVars, TypeOK
  <2> QED  BY <2>1, <2>2 DEF QuietCall
<1>4. DownOK' /\ UnsubscribingOK'
  <2> USE DEF RInv, DownOK, UnsubscribingOK, Inv, Shape, CallOK, TypeOK
  <2>1. ASSUME NEW p \in Pods, Subscribe(c, p)
        PROVE  DownOK' /\ UnsubscribingOK'
    BY <1>1, <2>1 DEF Subscribe
  <2>2. ASSUME NEW p \in Pods, Unsubscribe(c, p)
        PROVE  DownOK' /\ UnsubscribingOK'
    BY <1>1, <2>2 DEF Unsubscribe
  <2>3. ASSUME NEW p \in Pods, Visit(c, p)
        PROVE  DownOK' /\ UnsubscribingOK'
    BY <1>1, <2>3 DEF Visit
  <2>4. CASE GetExisting(c) \/ Disconnect(c) \/ Gone(c)
    BY <1>1, <2>4 DEF GetExisting, Disconnect, Gone
  <2>5. CASE Lookup(c)
    BY <1>1, <2>5 DEF Lookup, Return
  <2> QED  BY <2>1, <2>2, <2>3, <2>4, <2>5 DEF QuietCall
<1>5. EndedOK' /\ NoOrphanUnlessRaced'
  BY <1>1, <1>2, <1>3 DEF RInv, EndedOK, NoOrphanUnlessRaced, Live
<1>6. ServedInCalls'
  <2> SUFFICES ASSUME NEW d \in Conns \ leaving', NEW q \in Pods \ raced',
                      d \in group'[q], ~Subscribing(d, q)'
               PROVE  \E t \in Streams : CountedBy(t, d, q)'
    BY DEF ServedInCalls
  <2>1. d \in group[q] /\ ~Subscribing(d, q) /\ d \notin leaving
    BY <1>1 DEF QuietCall, Subscribe, Unsubscribe, Visit, GetExisting, Lookup,
       Return, Disconnect, Gone, Subscribing, RInv, Inv, Shape, CallOK, TypeOK
  <2>2. PICK t \in Streams : CountedBy(t, d, q)
    BY <1>2, <2>1 DEF RInv, ServedInCalls
  <2>3. CountedBy(t, d, q)'
    BY <1>3, <2>2 DEF CountedBy, Live
  <2> QED  BY <2>3
<1> QED  BY <1>4, <1>5, <1>6 DEF Following

LEMMA QuietTaskFollows ==
  ASSUME RInv, Watched, NEW s \in Streams, QuietTask(s)
  PROVE  Following'
<1>1. TypeOK /\ TypeOK'
  BY TaskStartsInv, AllContainersEndedInv, ReadPodInv, ContainerEndsInv,
     ContainerCancelledInv DEF QuietTask, RInv, Inv, Shape
<1>2. raced \subseteq raced'
  BY DEF Watched
<1>3. /\ UNCHANGED <<registry, podOf, cancelled, subscribers, group, callVars, up>>
      /\ \A t \in Streams : /\ Live(t)' => Live(t)
                            /\ task'[t] = "done" => task[t] = "done"
  BY <1>1 DEF QuietTask, TaskStarts, AllContainersEnded, ReadPod, ContainerEnds,
     ContainerCancelled, Live, TypeOK
<1>4. DownOK' /\ UnsubscribingOK'
  BY <1>3 DEF RInv, DownOK, UnsubscribingOK, callVars
<1>5. EndedOK' /\ NoOrphanUnlessRaced'
  BY <1>1, <1>2, <1>3 DEF RInv, EndedOK, NoOrphanUnlessRaced, callVars
<1>6. ServedInCalls'
  <2> SUFFICES ASSUME NEW d \in Conns \ leaving', NEW q \in Pods \ raced',
                      d \in group'[q], ~Subscribing(d, q)'
               PROVE  \E t \in Streams : CountedBy(t, d, q)'
    BY DEF ServedInCalls
  <2>1. d \in group[q] /\ ~Subscribing(d, q) /\ d \notin leaving
    BY <1>3 DEF Subscribing, callVars
  <2>2. PICK t \in Streams : CountedBy(t, d, q)
    BY <1>2, <2>1 DEF RInv, ServedInCalls
  <2>3. CountedBy(t, d, q)'
    BY <1>3, <2>2 DEF CountedBy
  <2> QED  BY <2>3
<1> QED  BY <1>4, <1>5, <1>6 DEF Following

LEMMA StartPodStreamFollows ==
  ASSUME RInv, Watched, NEW c \in Conns, NEW s \in Streams, StartPodStream(c, s)
  PROVE  Following'
<1> USE DEF StartPodStream, taskVars
<1>1. TypeOK /\ TypeOK'
  BY StartPodStreamInv DEF RInv, Inv, Shape
<1>2. raced \subseteq raced'
  BY DEF Watched
<1>3. DownOK' /\ UnsubscribingOK'
  BY <1>1 DEF RInv, DownOK, UnsubscribingOK, TypeOK, Inv, Shape, CallOK
<1>4. EndedOK'
  BY <1>1, <1>2 DEF RInv, EndedOK, TypeOK, Inv, Shape, RegistryOK, UnmadeOK
<1>5. NoOrphanUnlessRaced'
  BY <1>1, <1>2
     DEF RInv, NoOrphanUnlessRaced, Live, TypeOK, Inv, Shape, RegistryOK, UnmadeOK
<1>6. ServedInCalls'
  <2> SUFFICES ASSUME NEW d \in Conns \ leaving', NEW q \in Pods \ raced',
                      d \in group'[q], ~Subscribing(d, q)'
               PROVE  \E t \in Streams : CountedBy(t, d, q)'
    BY DEF ServedInCalls
  <2>1. d \in group[q] /\ ~Subscribing(d, q)
    BY <1>1 DEF Subscribing, TypeOK, RInv, Inv, Shape, CallOK
  <2>2. PICK t \in Streams : CountedBy(t, d, q)
    BY <1>2, <2>1 DEF RInv, ServedInCalls
  <2>3. CountedBy(t, d, q)'
    BY <1>1, <2>1, <2>2
       DEF CountedBy, Live, TypeOK, RInv, Inv, Shape, UnmadeOK, UnsubscribingOK, HeldOK
  <2> QED  BY <2>3
<1> QED  BY <1>3, <1>4, <1>5, <1>6 DEF Following

LEMMA PublishFollows ==
  ASSUME RInv, Watched, NEW c \in Conns, Publish(c)
  PROVE  Following'
<1> USE DEF Publish, taskVars
<1>1. TypeOK /\ TypeOK'
  BY PublishInv DEF RInv, Inv, Shape
<1>2. raced \subseteq raced'
  BY DEF Watched
<1>3. target[c] \in Pods /\ held[c] \in Streams /\ podOf[held[c]] = target[c]
  BY <1>1 DEF RInv, Inv, Shape, TypeOK, HeldOK
<1>4. target[c] \notin raced' => /\ registry[target[c]] = NoStream
                                 /\ task[held[c]] # "done"
  BY <1>1, <1>3, NotRaced DEF RacedBy, LosesFactory, PublishesDead, TypeOK
<1>5. DownOK' /\ UnsubscribingOK'
  BY <1>1 DEF RInv, DownOK, UnsubscribingOK, TypeOK, Inv, Shape, CallOK
<1>6. EndedOK'
  BY <1>1, <1>2, <1>3, <1>4
     DEF RInv, EndedOK, TypeOK, Inv, Shape, RegistryOK, UnmadeOK
<1>7. NoOrphanUnlessRaced'
  BY <1>1, <1>2, <1>3, <1>4
     DEF RInv, NoOrphanUnlessRaced, Live, TypeOK, Inv, Shape, RegistryOK, UnmadeOK
<1>8. ServedInCalls'
  <2> SUFFICES ASSUME NEW d \in Conns \ leaving', NEW q \in Pods \ raced',
                      d \in group'[q], ~Subscribing(d, q)'
               PROVE  \E t \in Streams : CountedBy(t, d, q)'
    BY DEF ServedInCalls
  <2>1. d \in group[q] /\ ~Subscribing(d, q)
    BY <1>1 DEF Subscribing, TypeOK, RInv, Inv, Shape, CallOK
  <2>2. PICK t \in Streams : CountedBy(t, d, q)
    BY <1>2, <2>1 DEF RInv, ServedInCalls
  <2>3. CountedBy(t, d, q)'
    BY <1>1, <1>2, <1>3, <1>4, <2>1, <2>2
       DEF CountedBy, Live, TypeOK, FreshOK, RInv, Inv, Shape, UnmadeOK,
           UnsubscribingOK, HeldOK
  <2> QED  BY <2>3
<1> QED  BY <1>5, <1>6, <1>7, <1>8 DEF Following

LEMMA AddSubscriberFollows ==
  ASSUME RInv, Watched, NEW c \in Conns, AddSubscriber(c)
  PROVE  Following'
<1> USE DEF AddSubscriber, taskVars
<1>1. TypeOK /\ TypeOK'
  BY AddSubscriberInv DEF RInv, Inv, Shape
<1>2. raced \subseteq raced'
  BY DEF Watched
<1>3. DownOK' /\ UnsubscribingOK'
  BY <1>1 DEF RInv, DownOK, UnsubscribingOK, TypeOK, Inv, Shape, CallOK
<1>4. EndedOK'
  BY <1>1, <1>2 DEF RInv, EndedOK, TypeOK, Inv, Shape, RegistryOK, UnmadeOK
<1>5. NoOrphanUnlessRaced'
  BY <1>1, <1>2
     DEF RInv, NoOrphanUnlessRaced, Live, TypeOK, Inv, Shape, RegistryOK, UnmadeOK
<1>6. ServedInCalls'
  <2> SUFFICES ASSUME NEW d \in Conns \ leaving', NEW q \in Pods \ raced',
                      d \in group'[q], ~Subscribing(d, q)'
               PROVE  \E t \in Streams : CountedBy(t, d, q)'
    BY DEF ServedInCalls
  <2>1. CASE d = c /\ q = target[c]
    <3>1. PICK t \in Streams : t = held[c]
      BY <1>1 DEF RInv, Inv, Shape, HeldOK
    <3>2. podOf[t] = q /\ up
      BY <1>1, <2>1, <3>1 DEF RInv, Inv, Shape, HeldOK, DownOK
    <3>3. t \notin cancelled
      BY <1>1, <2>1, <3>1, NotRaced DEF RacedBy, JoinsCancelled, TypeOK
    <3>4. Live(t) => registry[q] = t
      BY <1>1, <1>2, <2>1, <3>1, <3>2
         DEF RInv, Inv, Shape, FreshOK, NoOrphanUnlessRaced
    <3>5. task[t] = "done" => registry[q] # t
      BY <1>2, <3>2 DEF RInv, EndedOK
    <3>6. CountedBy(t, d, q)'
      BY <1>1, <2>1, <3>1, <3>2, <3>3, <3>4, <3>5 DEF CountedBy, Live, TypeOK
    <3> QED  BY <3>6
  <2>2. CASE ~(d = c /\ q = target[c])
    <3>1. d \in group[q] /\ ~Subscribing(d, q)
      BY <1>1, <2>2 DEF Subscribing, TypeOK
    <3>2. PICK t \in Streams : CountedBy(t, d, q)
      BY <1>2, <3>1 DEF RInv, ServedInCalls
    <3>3. CountedBy(t, d, q)'
      BY <1>1, <3>1, <3>2 DEF CountedBy, Live, TypeOK
    <3> QED  BY <3>3
  <2> QED  BY <2>1, <2>2
<1> QED  BY <1>3, <1>4, <1>5, <1>6 DEF Following

LEMMA RemoveSubscriberFollows ==
  ASSUME RInv, Watched, NEW c \in Conns, RemoveSubscriber(c)
  PROVE  Following'
<1> USE DEF RemoveSubscriber, Return, taskVars
<1>1. TypeOK /\ TypeOK'
  BY RemoveSubscriberInv DEF RInv, Inv, Shape
<1>2. raced \subseteq raced'
  BY DEF Watched
<1>3. DownOK' /\ UnsubscribingOK'
  BY <1>1 DEF RInv, DownOK, UnsubscribingOK, TypeOK, Inv, Shape, CallOK
<1>4. EndedOK'
  BY <1>1, <1>2 DEF RInv, EndedOK, TypeOK, Inv, Shape, RegistryOK, UnmadeOK
<1>5. NoOrphanUnlessRaced'
  BY <1>1, <1>2
     DEF RInv, NoOrphanUnlessRaced, Live, TypeOK, Inv, Shape, RegistryOK, UnmadeOK
<1>6. ServedInCalls'
  <2> SUFFICES ASSUME NEW d \in Conns \ leaving', NEW q \in Pods \ raced',
                      d \in group'[q], ~Subscribing(d, q)'
               PROVE  \E t \in Streams : CountedBy(t, d, q)'
    BY DEF ServedInCalls
  <2>1. d \in group[q] /\ ~Subscribing(d, q)
    BY <1>1 DEF Subscribing, TypeOK, RInv, Inv, Shape, CallOK
  <2>2. PICK t \in Streams : CountedBy(t, d, q)
    BY <1>2, <2>1 DEF RInv, ServedInCalls
  <2>3. CountedBy(t, d, q)'
    BY <1>1, <2>1, <2>2
       DEF CountedBy, Live, TypeOK, RInv, Inv, Shape, UnmadeOK, UnsubscribingOK, HeldOK
  <2> QED  BY <2>3
<1> QED  BY <1>3, <1>4, <1>5, <1>6 DEF Following

LEMMA CheckEmptyFollows ==
  ASSUME RInv, Watched, NEW c \in Conns, CheckEmpty(c)
  PROVE  Following'
<1> USE DEF CheckEmpty, Return, taskVars
<1>1. TypeOK /\ TypeOK'
  BY CheckEmptyInv DEF RInv, Inv, Shape
<1>2. raced \subseteq raced'
  BY DEF Watched
<1>3. DownOK' /\ UnsubscribingOK'
  BY <1>1 DEF RInv, DownOK, UnsubscribingOK, TypeOK, Inv, Shape, CallOK
<1>4. EndedOK'
  BY <1>1, <1>2 DEF RInv, EndedOK, TypeOK, Inv, Shape, RegistryOK, UnmadeOK
<1>5. NoOrphanUnlessRaced'
  BY <1>1, <1>2
     DEF RInv, NoOrphanUnlessRaced, Live, TypeOK, Inv, Shape, RegistryOK, UnmadeOK
<1>6. ServedInCalls'
  <2> SUFFICES ASSUME NEW d \in Conns \ leaving', NEW q \in Pods \ raced',
                      d \in group'[q], ~Subscribing(d, q)'
               PROVE  \E t \in Streams : CountedBy(t, d, q)'
    BY DEF ServedInCalls
  <2>1. d \in group[q] /\ ~Subscribing(d, q)
    BY <1>1 DEF Subscribing, TypeOK, RInv, Inv, Shape, CallOK
  <2>2. PICK t \in Streams : CountedBy(t, d, q)
    BY <1>2, <2>1 DEF RInv, ServedInCalls
  <2>3. CountedBy(t, d, q)'
    BY <1>1, <2>1, <2>2
       DEF CountedBy, Live, TypeOK, RInv, Inv, Shape, UnmadeOK, UnsubscribingOK, HeldOK
  <2> QED  BY <2>3
<1> QED  BY <1>3, <1>4, <1>5, <1>6 DEF Following

LEMMA DropFollows ==
  ASSUME RInv, Watched, NEW c \in Conns, Drop(c)
  PROVE  Following'
<1> USE DEF Drop, Return, taskVars
<1>1. TypeOK /\ TypeOK'
  BY DropInv DEF RInv, Inv, Shape
<1>2. raced \subseteq raced'
  BY DEF Watched
<1>3. target[c] \in Pods /\ held[c] \in Streams \cap cancelled
  BY <1>1 DEF RInv, Inv, Shape, TypeOK, HeldOK
<1>4. target[c] \notin raced' => registry[target[c]] \in {NoStream, held[c]}
  BY <1>1, <1>3, NotRaced DEF RacedBy, DropsSuccessor, TypeOK
<1>5. DownOK' /\ UnsubscribingOK'
  BY <1>1 DEF RInv, DownOK, UnsubscribingOK, TypeOK, Inv, Shape, CallOK
<1>6. EndedOK'
  BY <1>1, <1>2 DEF RInv, EndedOK, TypeOK, Inv, Shape, RegistryOK, UnmadeOK
<1>7. NoOrphanUnlessRaced'
  BY <1>1, <1>2, <1>3, <1>4
     DEF RInv, NoOrphanUnlessRaced, Live, TypeOK, Inv, Shape, RegistryOK, UnmadeOK
<1>8. ServedInCalls'
  <2> SUFFICES ASSUME NEW d \in Conns \ leaving', NEW q \in Pods \ raced',
                      d \in group'[q], ~Subscribing(d, q)'
               PROVE  \E t \in Streams : CountedBy(t, d, q)'
    BY DEF ServedInCalls
  <2>1. d \in group[q] /\ ~Subscribing(d, q)
    BY <1>1 DEF Subscribing, TypeOK, RInv, Inv, Shape, CallOK
  <2>2. PICK t \in Streams : CountedBy(t, d, q)
    BY <1>2, <2>1 DEF RInv, ServedInCalls
  <2>3. CountedBy(t, d, q)'
    BY <1>1, <1>2, <1>3, <1>4, <2>1, <2>2
       DEF CountedBy, Live, TypeOK, RInv, Inv, Shape, UnmadeOK, UnsubscribingOK, HeldOK
  <2> QED  BY <2>3
<1> QED  BY <1>5, <1>6, <1>7, <1>8 DEF Following

LEMMA FinallyFollows ==
  ASSUME RInv, Watched, NEW s \in Streams, Finally(s)
  PROVE  Following'
<1> USE DEF Finally, callVars
<1>1. TypeOK /\ TypeOK'
  BY FinallyInv DEF RInv, Inv, Shape
<1>2. raced \subseteq raced'
  BY DEF Watched
<1>3. podOf[s] \in Pods
  BY <1>1 DEF TypeOK
<1>4. podOf[s] \notin raced' => registry[podOf[s]] \in {NoStream, s}
  BY <1>1, <1>3, NotRaced DEF RacedBy, FinallyDropsSuccessor, TypeOK
<1>5. DownOK' /\ UnsubscribingOK'
  BY <1>1 DEF RInv, DownOK, UnsubscribingOK, TypeOK, Inv, Shape, CallOK
<1>6. EndedOK'
  BY <1>1, <1>2 DEF RInv, EndedOK, TypeOK, Inv, Shape, RegistryOK, UnmadeOK
<1>7. NoOrphanUnlessRaced'
  BY <1>1, <1>2, <1>3, <1>4
     DEF RInv, NoOrphanUnlessRaced, Live, TypeOK, Inv, Shape, RegistryOK, UnmadeOK
<1>8. ServedInCalls'
  <2> SUFFICES ASSUME NEW d \in Conns \ leaving', NEW q \in Pods \ raced',
                      d \in group'[q], ~Subscribing(d, q)'
               PROVE  \E t \in Streams : CountedBy(t, d, q)'
    BY DEF ServedInCalls
  <2>1. d \in group[q] /\ ~Subscribing(d, q)
    BY <1>1 DEF Subscribing, TypeOK, RInv, Inv, Shape, CallOK
  <2>2. PICK t \in Streams : CountedBy(t, d, q)
    BY <1>2, <2>1 DEF RInv, ServedInCalls
  <2>3. CountedBy(t, d, q)'
    BY <1>1, <1>2, <1>3, <1>4, <2>1, <2>2
       DEF CountedBy, Live, TypeOK, RInv, Inv, Shape, UnmadeOK, UnsubscribingOK, HeldOK
  <2> QED  BY <2>3
<1> QED  BY <1>5, <1>6, <1>7, <1>8 DEF Following

LEMMA DisposeAsyncFollows ==
  ASSUME RInv, Watched, DisposeAsync
  PROVE  Following'
<1> USE DEF DisposeAsync, taskVars, callVars
<1>1. TypeOK /\ TypeOK'
  BY DisposeAsyncInv DEF RInv, Inv, Shape
<1>2. raced \subseteq raced'
  BY DEF Watched
<1>3. DownOK' /\ UnsubscribingOK'
  BY <1>1 DEF RInv, DownOK, UnsubscribingOK, TypeOK, Inv, Shape, CallOK
<1>4. EndedOK'
  BY <1>1, <1>2 DEF RInv, EndedOK, TypeOK, Inv, Shape, RegistryOK, UnmadeOK
<1>5. NoOrphanUnlessRaced'
  BY <1>1, <1>2
     DEF RInv, NoOrphanUnlessRaced, Live, TypeOK, Inv, Shape, RegistryOK, UnmadeOK
<1>6. ServedInCalls'
  <2>1. leaving' = Conns
    BY <1>1 DEF RInv, Inv, Shape, CallOK, TypeOK
  <2> QED  BY <2>1 DEF ServedInCalls
<1> QED  BY <1>3, <1>4, <1>5, <1>6 DEF Following

LEMMA RNextInv ==
  ASSUME RInv, [RNext]_rvars
  PROVE  RInv'
<1>1. Inv'
  BY NextInv DEF RInv, RNext, rvars
<1>2. CASE RNext
  <2>1. Watched
    BY <1>2 DEF RNext, Watched
  <2>2. ASSUME NEW c \in Conns, ClientStep(c)
        PROVE  Following'
    BY <2>1, <2>2, QuietCallFollows DEF ClientStep, QuietCall
  <2>3. ASSUME NEW c \in Conns, CallStep(c)
        PROVE  Following'
    BY <2>1, <2>3, QuietCallFollows, StartPodStreamFollows, PublishFollows,
       AddSubscriberFollows, RemoveSubscriberFollows, CheckEmptyFollows, DropFollows
       DEF CallStep, QuietCall
  <2>4. ASSUME NEW s \in Streams, TaskStep(s)
        PROVE  Following'
    BY <2>1, <2>4, QuietTaskFollows, FinallyFollows DEF TaskStep, QuietTask
  <2>5. ASSUME NEW s \in Streams, NEW k \in Containers, ContainerEnds(s, k)
        PROVE  Following'
    BY <2>1, <2>5, QuietTaskFollows DEF QuietTask
  <2>6. Following'
    BY <1>2, <2>1, <2>2, <2>3, <2>4, <2>5, DisposeAsyncFollows DEF RNext, Next
  <2> QED  BY <1>1, <2>6 DEF RInv, Following
<1>3. CASE UNCHANGED rvars
  BY <1>1, <1>3 DEF rvars, vars, taskVars, callVars, RInv, DownOK, UnsubscribingOK,
     EndedOK, NoOrphanUnlessRaced, Live, ServedInCalls, Subscribing, CountedBy
<1> QED  BY <1>2, <1>3

LEMMA RInvariance == RSpec => []RInv
<1>1. RInit => RInv
  <2> SUFFICES ASSUME RInit
               PROVE  RInv
    OBVIOUS
  <2>1. Inv
    BY InitInv DEF RInit
  <2> QED
    BY <2>1 DEF RInit, Init, RInv, DownOK, UnsubscribingOK, EndedOK,
       NoOrphanUnlessRaced, Live, ServedInCalls
<1>2. RInv /\ [RNext]_rvars => RInv'
  BY RNextInv
<1> QED  BY <1>1, <1>2, PTL DEF RSpec

\* Whatever the number of clients, pods and streams: a client that has subscribed
\* is counted by a live stream or by one that ended with its log and is out of
\* the dictionary, unless one of the five overlaps happened at that pod.
THEOREM ServedUnlessRacedHolds == RSpec => []ServedUnlessRaced
<1>1. RInv => ServedUnlessRaced
  BY DEF RInv, Inv, Shape, CallOK, ServedInCalls, ServedUnlessRaced, CountedBy,
     Subscribing
<1> QED  BY RInvariance, <1>1, PTL

\* A stream that follows a pod's log can be found by the last Unsubscribe,
\* unless one of the five overlaps happened at that pod.
THEOREM NoOrphanUnlessRacedHolds == RSpec => []NoOrphanUnlessRaced
<1>1. RInv => NoOrphanUnlessRaced
  BY DEF RInv
<1> QED  BY RInvariance, <1>1, PTL
=============================================================================
