--------------------------- MODULE ClusterWidgets ----------------------------
(***************************************************************************)
(* The views of the cluster's metrics: the strip in the header             *)
(* (ClusterStripComponent), the overview (WClusterOverviewComponent) and   *)
(* the cards of the nodes (WKubernetesComponent).  Each one fetches the    *)
(* metrics when it is opened and is pushed new ones by the dashboard hub.  *)
(***************************************************************************)
EXTENDS Naturals, Sequences, FiniteSets

CONSTANTS
    Nodes,
    NodesAt,        \* NodesAt[v]: the nodes of version v of the metrics
    MaxGets         \* bound: how often a view fetches

ASSUME ViewsAssumption ==
    /\ NodesAt \in Seq(SUBSET Nodes) /\ NodesAt # <<>>
    /\ MaxGets \in Nat

Views == {"strip", "overview", "cards"}
MetricVersions == 1..Len(NodesAt)

VARIABLES
    metrics,        \* the version the server would compute
    pushes,         \* ClusterUpdates and NodeUpdates on their way
    get,            \* get[w]: the GET of a view: "no", "sent" or "read"
    answer,         \* answer[w]: the version that it brings
    gets,           \* gets[w]: how often w has fetched
    shownCluster,   \* shownCluster[w]: the version a view shows, 0 for null
    viewLoading, viewError,
    cards,          \* the cards: which version a node's values are from
    crossed,        \* history: views whose answer was older than what they showed
    missed          \* history: a push was lost

viewVars == <<metrics, pushes, get, answer, gets, shownCluster, viewLoading,
              viewError, cards, crossed, missed>>

ViewsInit ==
    /\ metrics = 1
    /\ pushes = <<>>
    /\ get = [w \in Views |-> "sent"]
    /\ answer = [w \in Views |-> 0]
    /\ gets = [w \in Views |-> 1]
    /\ shownCluster = [w \in Views |-> 0]
    /\ viewLoading = [w \in Views \ {"strip"} |-> TRUE]
    /\ viewError = [w \in Views \ {"strip"} |-> FALSE]
    /\ cards = {}
    /\ crossed = {} /\ missed = FALSE

-----------------------------------------------------------------------------
(* The server                                                              *)

\* MetricsLoop: new metrics are pushed to those who are connected.
Measures ==
    /\ metrics < Len(NodesAt)
    /\ metrics' = metrics + 1
    /\ \/ pushes' = Append(pushes, metrics + 1) /\ UNCHANGED missed
       \/ missed' = TRUE /\ UNCHANGED pushes
    /\ UNCHANGED <<get, answer, gets, shownCluster, viewLoading, viewError,
                   cards, crossed>>

\* GET /api/kubernetes/metrics
ServerAnswers(w) ==
    /\ get[w] = "sent"
    /\ get' = [get EXCEPT ![w] = "read"]
    /\ answer' = [answer EXCEPT ![w] = metrics]
    /\ UNCHANGED <<metrics, pushes, gets, shownCluster, viewLoading, viewError,
                   cards, crossed, missed>>

-----------------------------------------------------------------------------
(* The views                                                               *)

\* Variant: the cards of nodes that are gone stay.
MergeNodes_Keeps(v) ==
    cards' = {c \in cards : c.name \notin NodesAt[v]}
                \cup {[name |-> n, values |-> v, total |-> v] : n \in NodesAt[v]}

\* mergeNodes: the card of a node that has one is kept and its values are set,
\* but for the memory total.
MergeNodes(v) ==
    LET known(n) == {c \in cards : c.name = n}
    IN  cards' = {[name |-> n, values |-> v,
                   total |-> IF known(n) = {} THEN v
                             ELSE (CHOOSE c \in known(n) : TRUE).total]
                     : n \in NodesAt[v]}

AnswerArrives(w) ==
    /\ get[w] = "read"
    /\ get' = [get EXCEPT ![w] = "no"]
    /\ answer' = [answer EXCEPT ![w] = 0]
    /\ shownCluster' = [shownCluster EXCEPT ![w] = answer[w]]
    /\ IF w = "cards" THEN MergeNodes(answer[w]) ELSE UNCHANGED cards
    /\ viewLoading' = [x \in DOMAIN viewLoading |-> x # w /\ viewLoading[x]]
    /\ crossed' = IF answer[w] < shownCluster[w] THEN crossed \cup {w} ELSE crossed
    /\ UNCHANGED <<metrics, pushes, gets, viewError, missed>>

\* The strip ignores it.
AnswerFails(w) ==
    /\ get[w] # "no"
    /\ get' = [get EXCEPT ![w] = "no"]
    /\ answer' = [answer EXCEPT ![w] = 0]
    /\ viewLoading' = [x \in DOMAIN viewLoading |-> x # w /\ viewLoading[x]]
    /\ viewError' = [x \in DOMAIN viewError |-> x = w \/ viewError[x]]
    /\ UNCHANGED <<metrics, pushes, gets, shownCluster, cards, crossed, missed>>

\* What a view shows.
Face(w) ==
    CASE w = "strip" -> IF shownCluster[w] = 0 THEN "empty" ELSE "data"
      [] w = "overview" ->
           IF viewLoading[w] /\ shownCluster[w] = 0 THEN "loading"
           ELSE IF viewError[w] THEN "error"
           ELSE IF shownCluster[w] = 0 THEN "empty" ELSE "data"
      [] w = "cards" ->
           IF viewLoading[w] /\ cards = {} THEN "loading"
           ELSE IF viewError[w] THEN "error"
           ELSE IF cards = {} THEN "empty" ELSE "data"

ViewRetry(w) ==
    /\ w # "strip" /\ Face(w) = "error" /\ gets[w] < MaxGets
    /\ viewError' = [viewError EXCEPT ![w] = FALSE]
    /\ get' = [get EXCEPT ![w] = "sent"]
    /\ gets' = [gets EXCEPT ![w] = @ + 1]
    /\ UNCHANGED <<metrics, pushes, answer, shownCluster, viewLoading, cards,
                   crossed, missed>>

\* clusterUpdate goes to all views that are open.
ClusterUpdate ==
    /\ pushes # <<>>
    /\ pushes' = Tail(pushes)
    /\ shownCluster' = [w \in Views |-> Head(pushes)]
    /\ MergeNodes(Head(pushes))
    /\ viewLoading' = [w \in DOMAIN viewLoading |-> FALSE]
    /\ crossed' = {}
    /\ UNCHANGED <<metrics, get, answer, gets, viewError, missed>>

ViewsNext ==
    \/ Measures \/ ClusterUpdate
    \/ \E w \in Views : \/ ServerAnswers(w) \/ AnswerArrives(w) \/ AnswerFails(w)
                        \/ ViewRetry(w)

ViewsSpec == ViewsInit /\ [][ViewsNext]_viewVars

-----------------------------------------------------------------------------
ViewsTypeOK ==
    /\ metrics \in MetricVersions
    /\ shownCluster \in [Views -> 0..metrics]
    /\ \A w \in Views : get[w] = "read" <=> answer[w] # 0
    /\ \A c \in cards : c.name \in Nodes /\ c.values \in 1..metrics
                        /\ c.total \in 1..metrics

\* A view that loads has its request under way, and one with neither data nor
\* error has its metrics still coming.
LoadingIsRequested ==
    \A w \in Views \ {"strip"} : Face(w) = "loading" => get[w] # "no"

\* However answers and pushes cross, the cards are those of the nodes in the
\* metrics last received, one for each, with their values.
CardsAreTheNodes ==
    shownCluster["cards"] # 0 =>
       {[name |-> c.name, values |-> c.values] : c \in cards}
          = {[name |-> n, values |-> shownCluster["cards"]]
               : n \in NodesAt[shownCluster["cards"]]}

\* The views agree once everything has arrived, unless an answer that was
\* computed before a push came in after it, a request failed or a push was lost.
ViewsAgree ==
    /\ pushes = <<>> /\ crossed = {} /\ ~missed
    /\ \A w \in Views : get[w] = "no" /\ shownCluster[w] # 0
    => \A w \in Views : shownCluster[w] = metrics

\* What the three views of the cluster promise while their answers and the pushes
\* cross.
WidgetsPromise ==
    /\ LoadingIsRequested
    /\ CardsAreTheNodes
    /\ ViewsAgree
=============================================================================
