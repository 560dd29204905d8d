------------------------------ MODULE HubClient ------------------------------
(***************************************************************************)
(* The browser's client of the pod log hub: SignalRService on top of the   *)
(* connections of @microsoft/signalr, of which the service replaces one by *)
(* another when the token changes or a connection has ended for good.      *)
(* A callback of the library is one step.                                  *)
(***************************************************************************)
EXTENDS Naturals

CONSTANTS
    Tokens,         \* access tokens of successive logins and refreshes
    NoToken,
    MaxConns        \* bound: connections ever built

ASSUME HubAssumption == MaxConns \in Nat /\ NoToken \notin Tokens

Conns == 1..MaxConns

VARIABLES
    built,          \* connections built: 1..built
    cstate,         \* cstate[c]: HubConnectionState of a connection
    opened,         \* connections whose start() has succeeded
    hubConnection,  \* the connection in use, 0 for none
    currentToken,
    startPromise,   \* the connection whose start it stands for, 0 for undefined
    reconnectTimer,
    connected,      \* the value of connected$
    subscribing,    \* the subscribeToPod() call: where it is
    staleEvent      \* history: a callback of a replaced connection has run

hubVars == <<built, cstate, opened, hubConnection, currentToken, startPromise,
             reconnectTimer, connected, subscribing, staleEvent>>

Live == {"Connecting", "Connected", "Reconnecting"}
ConnStates == Live \cup {"unbuilt", "Disconnecting", "Disconnected"}

HubInit ==
    /\ built = 0
    /\ cstate = [c \in Conns |-> "unbuilt"]
    /\ opened = {}
    /\ hubConnection = 0
    /\ currentToken = NoToken
    /\ startPromise = 0
    /\ reconnectTimer = FALSE
    /\ connected = FALSE
    /\ subscribing = "idle"
    /\ staleEvent = FALSE

HubState == IF hubConnection = 0 THEN "unbuilt" ELSE cstate[hubConnection]

\* start() of c is over, one way or the other.
Settled(c) == c \in opened \/ cstate[c] = "Disconnected"

-----------------------------------------------------------------------------
(* startConnection and the timer                                           *)

\* Variant: the connection in use is left as it is.
StartConnection_KeepsOld(tok) ==
    IF currentToken = tok /\ HubState \in Live
    THEN UNCHANGED hubVars
    ELSE /\ built < MaxConns
         /\ built' = built + 1
         /\ currentToken' = tok
         /\ reconnectTimer' = FALSE
         /\ cstate' = [cstate EXCEPT ![built + 1] = "Connecting"]
         /\ hubConnection' = built + 1
         /\ startPromise' = built + 1
         /\ UNCHANGED <<opened, connected, subscribing, staleEvent>>

\* What disconnect() leaves of the connections: the one in use is stopped.
Stopped ==
    [c \in Conns |-> IF c = hubConnection /\ cstate[c] \in Live
                       THEN "Disconnecting" ELSE cstate[c]]

\* A live connection for the same token is kept; otherwise disconnect() clears
\* the timer and stops the old one, and a new one is started.
StartConnection(tok) ==
    IF currentToken = tok /\ HubState \in Live
    THEN UNCHANGED hubVars
    ELSE /\ built < MaxConns
         /\ built' = built + 1
         /\ currentToken' = tok
         /\ reconnectTimer' = FALSE
         /\ cstate' = [Stopped EXCEPT ![built + 1] = "Connecting"]
         /\ hubConnection' = built + 1
         /\ startPromise' = built + 1
         /\ UNCHANGED <<opened, connected, subscribing, staleEvent>>

TimerFires ==
    /\ reconnectTimer
    /\ StartConnection(currentToken)

\* A restart is due only when the connection in use has ended for good.
ScheduleReconnection ==
    reconnectTimer' = \/ reconnectTimer
                      \/ /\ currentToken # NoToken
                         /\ hubConnection = 0 \/ cstate'[hubConnection] = "Disconnected"

Noticed(c) == staleEvent' = (staleEvent \/ c # hubConnection)

-----------------------------------------------------------------------------
(* Callbacks of the library                                                *)

StartSucceeds(c) ==
    /\ cstate[c] = "Connecting"
    /\ cstate' = [cstate EXCEPT ![c] = "Connected"]
    /\ opened' = opened \cup {c}
    /\ connected' = TRUE
    /\ UNCHANGED <<built, hubConnection, currentToken, startPromise,
                   reconnectTimer, subscribing, staleEvent>>

\* Also the start of a connection that has been stopped meanwhile.
StartFails(c) ==
    /\ c \notin opened /\ cstate[c] \in {"Connecting", "Disconnecting"}
    /\ cstate' = [cstate EXCEPT ![c] = "Disconnected"]
    /\ connected' = FALSE
    /\ ScheduleReconnection
    /\ Noticed(c)
    /\ UNCHANGED <<built, opened, hubConnection, currentToken, startPromise,
                   subscribing>>

\* onclose: automatic reconnects are used up, or stop() is through.
Closes(c) ==
    /\ c \in opened /\ cstate[c] \in {"Reconnecting", "Disconnecting"}
    /\ cstate' = [cstate EXCEPT ![c] = "Disconnected"]
    /\ connected' = FALSE
    /\ startPromise' = 0
    /\ ScheduleReconnection
    /\ Noticed(c)
    /\ UNCHANGED <<built, opened, hubConnection, currentToken, subscribing>>

Reconnecting(c) ==
    /\ cstate[c] = "Connected"
    /\ cstate' = [cstate EXCEPT ![c] = "Reconnecting"]
    /\ connected' = FALSE
    /\ UNCHANGED <<built, opened, hubConnection, currentToken, startPromise,
                   reconnectTimer, subscribing, staleEvent>>

Reconnected(c) ==
    /\ cstate[c] = "Reconnecting"
    /\ cstate' = [cstate EXCEPT ![c] = "Connected"]
    /\ connected' = TRUE
    /\ UNCHANGED <<built, opened, hubConnection, currentToken, startPromise,
                   reconnectTimer, subscribing, staleEvent>>

-----------------------------------------------------------------------------
(* subscribeToPod, with ensureConnected                                    *)

Subscribes(to) ==
    /\ subscribing' = to
    /\ UNCHANGED <<built, cstate, opened, hubConnection, currentToken,
                   startPromise, reconnectTimer, connected, staleEvent>>

SubscribeAsked ==
    /\ subscribing \in {"idle", "invoked", "refused"}
    /\ Subscribes("asked")

\* Connected at once, or once the start that is under way has settled.
SubscribeGoesOn ==
    /\ subscribing = "asked"
    /\ \/ HubState = "Connected" /\ Subscribes("invoked")
       \/ /\ HubState # "Connected"
          /\ startPromise # 0 => Settled(startPromise)
          /\ Subscribes("refused")

-----------------------------------------------------------------------------
HubNext ==
    \/ \E tok \in Tokens : StartConnection(tok)
    \/ TimerFires
    \/ \E c \in Conns : \/ StartSucceeds(c) \/ StartFails(c) \/ Closes(c)
                        \/ Reconnecting(c) \/ Reconnected(c)
    \/ SubscribeAsked \/ SubscribeGoesOn

HubSpec == HubInit /\ [][HubNext]_hubVars

-----------------------------------------------------------------------------
HubTypeOK ==
    /\ built \in 0..MaxConns
    /\ cstate \in [Conns -> ConnStates]
    /\ \A c \in Conns : cstate[c] = "unbuilt" <=> c > built
    /\ opened \subseteq 1..built
    /\ hubConnection = built /\ startPromise \in 0..built
    /\ currentToken \in Tokens \cup {NoToken}
    /\ reconnectTimer \in BOOLEAN /\ connected \in BOOLEAN
    /\ subscribing \in {"idle", "asked", "invoked", "refused"}
    /\ staleEvent \in BOOLEAN

\* Whatever the order of tokens, timers and callbacks, only the connection in
\* use can receive logs: every earlier one is stopped.
OneLiveConnection == \A c \in Conns : c # hubConnection => cstate[c] \notin Live

\* The manual restart is due exactly while the connection in use has ended for
\* good, so that it neither fights the automatic reconnect nor is forgotten.
RestartIsDue ==
    reconnectTimer <=> HubState = "Disconnected"

\* connected$ is up while the connection in use is, unless a callback of a
\* connection that had been replaced came in between; and it is not up longer
\* than until a successor has been started.
ConnectedIsTrue ==
    /\ HubState = "Connected" => connected \/ staleEvent
    /\ connected => HubState \in {"Connecting", "Connected"}

\* What the client of the log hub promises, in whatever order tokens, timers and
\* callbacks of several connections come (SignalRService).
HubPromise ==
    /\ OneLiveConnection
    /\ RestartIsDue
    /\ ConnectedIsTrue
=============================================================================
