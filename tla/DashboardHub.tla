---------------------------- MODULE DashboardHub -----------------------------
(***************************************************************************)
(* The browser's client of the dashboard hub (api/SignalRService), which   *)
(* AppComponent starts and stops with the login, and the indicator of its  *)
(* state (ConnectionStatusComponent).  Unlike the client of the pod log    *)
(* hub it never restarts a connection by itself.                           *)
(***************************************************************************)
EXTENDS Naturals

CONSTANT MaxDash        \* bound: connections ever built

ASSUME DashAssumption == MaxDash \in Nat

DashConns == 1..MaxDash

VARIABLES
    loggedIn,       \* the last value of AuthService.isLoggedIn
    dashBuilt,
    dashState,      \* dashState[c]: HubConnectionState
    dashHub,        \* hubConnection, 0 for undefined
    heard,          \* heard[c]: how often the listeners have been added
    invoked,          \* invoked[c]: SubscribeToCluster has been invoked since c is up
    dashConnected,  \* the value of connected$
    lateClose       \* history: the onclose of a stopped connection came after
                    \* its successor was up

dashVars == <<loggedIn, dashBuilt, dashState, dashHub, heard, invoked,
              dashConnected, lateClose>>

DashLive == {"Connecting", "Connected", "Reconnecting"}

DashInit ==
    /\ loggedIn = FALSE
    /\ dashBuilt = 0
    /\ dashState = [c \in DashConns |-> "unbuilt"]
    /\ dashHub = 0
    /\ heard = [c \in DashConns |-> 0]
    /\ invoked = [c \in DashConns |-> FALSE]
    /\ dashConnected = FALSE
    /\ lateClose = FALSE

\* startConnection, for every token that is announced: a live one is kept.
LoggedIn ==
    /\ loggedIn' = TRUE
    /\ IF dashHub # 0 /\ dashState[dashHub] \in DashLive
         THEN UNCHANGED <<dashBuilt, dashState, dashHub>>
         ELSE /\ dashBuilt < MaxDash
              /\ dashBuilt' = dashBuilt + 1
              /\ dashState' = [dashState EXCEPT ![dashBuilt + 1] = "Connecting"]
              /\ dashHub' = dashBuilt + 1
    /\ UNCHANGED <<heard, invoked, dashConnected, lateClose>>

\* Variant: a connection that is not up yet is dropped without stop().
StopConnection_OnlyOpen ==
    dashState' = IF dashHub # 0 /\ dashState[dashHub] = "Connected"
                   THEN [dashState EXCEPT ![dashHub] = "Disconnecting"]
                   ELSE dashState

StopConnection ==
    dashState' = IF dashHub # 0 /\ dashState[dashHub] \in DashLive
                   THEN [dashState EXCEPT ![dashHub] = "Disconnecting"]
                   ELSE dashState

LoggedOut ==
    /\ loggedIn' = FALSE
    /\ StopConnection
    /\ dashHub' = 0
    /\ dashConnected' = FALSE
    /\ UNCHANGED <<dashBuilt, heard, invoked, lateClose>>

AddKubernetesListeners == heard' = [heard EXCEPT ![dashHub] = @ + 1]
SubscribeToCluster == invoked' = [invoked EXCEPT ![dashHub] = TRUE]

DashStarts(c) ==
    /\ dashState[c] = "Connecting"
    /\ dashState' = [dashState EXCEPT ![c] = "Connected"]
    /\ AddKubernetesListeners
    /\ SubscribeToCluster
    /\ dashConnected' = TRUE
    /\ UNCHANGED <<loggedIn, dashBuilt, dashHub, lateClose>>

Late(c) == lateClose' = (lateClose \/ c # dashHub)

DashStartFails(c) ==
    /\ heard[c] = 0 /\ dashState[c] \in {"Connecting", "Disconnecting"}
    /\ dashState' = [dashState EXCEPT ![c] = "Disconnected"]
    /\ dashConnected' = FALSE
    /\ Late(c)
    /\ UNCHANGED <<loggedIn, dashBuilt, dashHub, heard, invoked>>

DashReconnecting(c) ==
    /\ dashState[c] = "Connected"
    /\ dashState' = [dashState EXCEPT ![c] = "Reconnecting"]
    /\ invoked' = [invoked EXCEPT ![c] = FALSE]
    /\ dashConnected' = FALSE
    /\ UNCHANGED <<loggedIn, dashBuilt, dashHub, heard, lateClose>>

\* The hub has forgotten the subscription of the connection that broke.
DashReconnected(c) ==
    /\ dashState[c] = "Reconnecting"
    /\ dashState' = [dashState EXCEPT ![c] = "Connected"]
    /\ SubscribeToCluster
    /\ dashConnected' = TRUE
    /\ UNCHANGED <<loggedIn, dashBuilt, dashHub, heard, lateClose>>

DashCloses(c) ==
    /\ heard[c] > 0 /\ dashState[c] \in {"Reconnecting", "Disconnecting"}
    /\ dashState' = [dashState EXCEPT ![c] = "Disconnected"]
    /\ dashConnected' = FALSE
    /\ Late(c)
    /\ UNCHANGED <<loggedIn, dashBuilt, dashHub, heard, invoked>>

\* What ConnectionStatusComponent shows of this hub.
Indicator ==
    IF ~loggedIn THEN "none" ELSE IF dashConnected THEN "Live" ELSE "Offline"

DashNext ==
    \/ LoggedIn \/ LoggedOut
    \/ \E c \in DashConns : \/ DashStarts(c) \/ DashStartFails(c) \/ DashCloses(c)
                            \/ DashReconnecting(c) \/ DashReconnected(c)

DashSpec == DashInit /\ [][DashNext]_dashVars

-----------------------------------------------------------------------------
DashTypeOK ==
    /\ loggedIn \in BOOLEAN /\ dashConnected \in BOOLEAN /\ lateClose \in BOOLEAN
    /\ dashBuilt \in 0..MaxDash /\ dashHub \in {0, dashBuilt}
    /\ \A c \in DashConns : dashState[c] = "unbuilt" <=> c > dashBuilt
    /\ heard \in [DashConns -> Nat] /\ invoked \in [DashConns -> BOOLEAN]

\* "disconnect on logout": no connection outlives its session, also one that was
\* still starting or reconnecting when the user logged out.
NoConnectionWithoutLogin ==
    \A c \in DashConns : dashState[c] \in DashLive => loggedIn /\ c = dashHub

\* A connection that is up hears each push once, and is in the cluster's group
\* again after every reconnect.
HeardOnce ==
    \A c \in DashConns :
       dashState[c] = "Connected" => heard[c] = 1 /\ invoked[c]

\* The indicator agrees with the connection, unless the end of an earlier one
\* was reported late.
IndicatorIsTrue ==
    /\ Indicator = "Live" => dashHub # 0 /\ dashState[dashHub] = "Connected"
    /\ dashHub # 0 /\ dashState[dashHub] = "Connected"
          => Indicator = "Live" \/ lateClose

\* What the client of the dashboard hub promises over logins, logouts and
\* reconnects (api/SignalRService).
DashboardPromise ==
    /\ NoConnectionWithoutLogin
    /\ HeardOnce
    /\ IndicatorIsTrue
=============================================================================
