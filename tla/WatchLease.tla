----------------------------- MODULE WatchLease -----------------------------
(***************************************************************************)
(* What ClusterWatchManager promises, without counters, locks or tasks:    *)
(* the cluster is watched exactly while some dashboard client is attached, *)
(* and no longer once the service is disposed.                             *)
(***************************************************************************)
CONSTANT Conns

VARIABLES
    attached,       \* dashboard connections
    watching,       \* the watchers of the cluster are switched on
    up              \* the service has not been disposed

vars == <<attached, watching, up>>

Init == attached = {} /\ watching = FALSE /\ up = TRUE

Attach(c) ==
    /\ up /\ c \notin attached
    /\ attached' = attached \cup {c}
    /\ watching' = TRUE
    /\ UNCHANGED up

Detach(c) ==
    /\ c \in attached
    /\ attached' = attached \ {c}
    /\ watching' = (up /\ attached' # {})
    /\ UNCHANGED up

Dispose ==
    /\ up
    /\ up' = FALSE
    /\ watching' = FALSE
    /\ UNCHANGED attached

Next == \/ \E c \in Conns : Attach(c) \/ Detach(c)
        \/ Dispose

Spec == Init /\ [][Next]_vars
=============================================================================
