------------------------------ MODULE PagesProofs ------------------------------
(***************************************************************************)
(* Proofs about the pages of the browser and the connections they live on, *)
(* each for any number of pods, nodes, tokens, sign-ins and connections:   *)
(* the two hub clients, the login, the page of the settings, the views of  *)
(* the cluster, the page of a pod's log, the figures of a pod and the      *)
(* table of the pods.  A section takes one component at a time; the last   *)
(* one has the types of all of them as MCPages puts them together.         *)
(***************************************************************************)
EXTENDS MCPages, DataLemmas

-----------------------------------------------------------------------------
(* The client of the pod log hub.                                          *)

\* Besides what is promised: a connection in use was started for a token, so that
\* its end always schedules a restart.
ClientInv ==
    /\ HubTypeOK
    /\ HubPromise
    /\ hubConnection # 0 => currentToken # NoToken

USE DEF HubTypeOK, ConnStates, Live

LEMMA ClientStarts == HubInit => ClientInv
<1> SUFFICES ASSUME HubInit PROVE ClientInv
    OBVIOUS
<1>1. HubTypeOK
  <2>1. cstate \in [Conns -> ConnStates] /\ \A c \in Conns : cstate[c] = "unbuilt"
      BY DEF HubInit
  <2>2. 0 \in 0..MaxConns /\ 0 \in 0..0 /\ \A c \in Conns : c > 0
      BY HubAssumption DEF Conns
  <2> QED BY <2>1, <2>2 DEF HubInit
<1>2. HubPromise
    BY DEF HubInit, HubPromise, OneLiveConnection, RestartIsDue, ConnectedIsTrue,
       HubState
<1> QED BY <1>1, <1>2 DEF HubInit, ClientInv

\* A connection that replaces another leaves that one stopped.
LEMMA StartKeeps ==
    ASSUME ClientInv, NEW tok \in Tokens, StartConnection(tok)
    PROVE  ClientInv'
<1>1. CASE UNCHANGED hubVars
    BY <1>1
    DEF hubVars, ClientInv, HubPromise, OneLiveConnection, RestartIsDue,
        ConnectedIsTrue, HubState
<1>2. CASE ~UNCHANGED hubVars
  <2>1. /\ built < MaxConns /\ built' = built + 1
        /\ currentToken' = tok /\ reconnectTimer' = FALSE
        /\ cstate' = [Stopped EXCEPT ![built + 1] = "Connecting"]
        /\ hubConnection' = built + 1 /\ startPromise' = built + 1
        /\ UNCHANGED <<opened, connected, subscribing, staleEvent>>
      BY <1>2 DEF StartConnection
  <2>2. built + 1 \in Conns /\ built \in Nat /\ tok # NoToken
      BY <2>1, HubAssumption DEF ClientInv, Conns
  <2>3. cstate' = [c \in Conns |->
                     IF c = built + 1 THEN "Connecting"
                     ELSE IF c = hubConnection /\ cstate[c] \in Live
                     THEN "Disconnecting" ELSE cstate[c]]
      BY <2>1 DEF Stopped
  <2>4. HubTypeOK'
    <3>1. cstate' \in [Conns -> ConnStates]
        BY <2>3 DEF ClientInv
    <3>2. \A c \in Conns : cstate'[c] = "unbuilt" <=> c > built'
        BY <2>1, <2>2, <2>3 DEF ClientInv, Conns
    <3>3. built' \in 0..MaxConns /\ startPromise' \in 0..built' /\ opened' \subseteq 1..built'
        BY <2>1, <2>2, HubAssumption DEF ClientInv
    <3> QED BY <2>1, <3>1, <3>2, <3>3 DEF ClientInv
  <2>5. OneLiveConnection'
      BY <2>1, <2>3 DEF ClientInv, HubPromise, OneLiveConnection
  <2>6. RestartIsDue' /\ ConnectedIsTrue'
      BY <2>1, <2>2, <2>3 DEF RestartIsDue, ConnectedIsTrue, HubState, Conns
  <2> QED BY <2>1, <2>2, <2>4, <2>5, <2>6, HubAssumption DEF ClientInv, HubPromise, Conns
<1> QED BY <1>1, <1>2

\* A connection tells of a change of its state; the one in use is known by its
\* number.
LEMMA CallbackKeeps ==
    ASSUME ClientInv, NEW c \in Conns,
           \/ StartSucceeds(c) \/ StartFails(c) \/ Closes(c)
           \/ Reconnecting(c) \/ Reconnected(c)
    PROVE  ClientInv'
<1>1. PICK to \in Live \cup {"Disconnected"} :
        /\ cstate' = [cstate EXCEPT ![c] = to]
        /\ cstate[c] # "unbuilt" /\ (to \in Live => cstate[c] \in Live)
        /\ connected' = (to = "Connected")
        /\ IF to \in Live THEN UNCHANGED <<reconnectTimer, staleEvent>>
                          ELSE ScheduleReconnection /\ Noticed(c)
    BY DEF StartSucceeds, StartFails, Closes, Reconnecting, Reconnected
<1>2. /\ UNCHANGED <<built, hubConnection, currentToken, subscribing>>
      /\ opened' \in {opened, opened \cup {c}} /\ startPromise' \in {startPromise, 0}
    BY DEF StartSucceeds, StartFails, Closes, Reconnecting, Reconnected
<1>3. c \in 1..built /\ hubConnection = built /\ built \in Nat
      /\ \A d \in Conns : cstate'[d] = IF d = c THEN to ELSE cstate[d]
    BY <1>1, HubAssumption DEF ClientInv, Conns
<1>4. HubTypeOK'
  <2>1. cstate' \in [Conns -> ConnStates]
      BY <1>1 DEF ClientInv
  <2>2. \A d \in Conns : cstate'[d] = "unbuilt" <=> d > built'
      BY <1>1, <1>2, <1>3 DEF ClientInv
  <2>3. reconnectTimer' \in BOOLEAN /\ staleEvent' \in BOOLEAN /\ connected' \in BOOLEAN
      BY <1>1 DEF ClientInv, ScheduleReconnection, Noticed
  <2> QED BY <1>2, <1>3, <2>1, <2>2, <2>3 DEF ClientInv
<1>5. OneLiveConnection'
    BY <1>1, <1>2, <1>3 DEF ClientInv, HubPromise, OneLiveConnection
<1>6. hubConnection \in Conns /\ hubConnection # 0 /\ currentToken # NoToken
      /\ HubState = cstate[hubConnection] /\ HubState' = cstate'[hubConnection]
    BY <1>2, <1>3, HubAssumption DEF ClientInv, HubState, Conns
<1>7. RestartIsDue'
  <2>1. CASE to \in Live
      BY <1>1, <1>3, <1>6, <2>1 DEF ClientInv, HubPromise, RestartIsDue
  <2>2. CASE to = "Disconnected"
      BY <1>1, <1>2, <1>3, <1>6, <2>2
      DEF ClientInv, HubPromise, RestartIsDue, ScheduleReconnection
  <2> QED BY <2>1, <2>2
<1>8. ConnectedIsTrue'
    BY <1>1, <1>2, <1>3, <1>6
    DEF ClientInv, HubPromise, OneLiveConnection, ConnectedIsTrue, Noticed
<1> QED BY <1>2, <1>4, <1>5, <1>6, <1>7, <1>8 DEF ClientInv, HubPromise

LEMMA ClientSteps == ClientInv /\ [HubNext]_hubVars => ClientInv'
<1> SUFFICES ASSUME ClientInv, [HubNext]_hubVars
             PROVE  ClientInv'
    OBVIOUS
<1>1. ASSUME NEW tok \in Tokens, StartConnection(tok)
      PROVE  ClientInv'
    BY <1>1, StartKeeps
<1>2. CASE TimerFires
  <2>1. hubConnection # 0
      BY <1>2 DEF TimerFires, ClientInv, HubPromise, RestartIsDue, HubState
  <2> QED BY <1>2, <2>1, StartKeeps DEF TimerFires, ClientInv
<1>3. ASSUME NEW c \in Conns,
             \/ StartSucceeds(c) \/ StartFails(c) \/ Closes(c)
             \/ Reconnecting(c) \/ Reconnected(c)
      PROVE  ClientInv'
    BY <1>3, CallbackKeeps
<1>4. CASE SubscribeAsked \/ SubscribeGoesOn \/ UNCHANGED hubVars
  <2>1. /\ UNCHANGED <<built, cstate, opened, hubConnection, currentToken,
                       startPromise, reconnectTimer, connected, staleEvent>>
        /\ subscribing' \in {"idle", "asked", "invoked", "refused"}
      BY <1>4 DEF SubscribeAsked, SubscribeGoesOn, Subscribes, hubVars, ClientInv
  <2> QED BY <2>1 DEF ClientInv, HubPromise, OneLiveConnection, RestartIsDue,
                      ConnectedIsTrue, HubState
<1> QED BY <1>1, <1>2, <1>3, <1>4 DEF HubNext

\* SignalRService: whatever the order of tokens, timers and callbacks, one
\* connection is live, a restart is due exactly when it has ended for good, and
\* connected$ tells the truth of it.
THEOREM HubPromiseHolds == HubSpec => []HubPromise
<1>1. ClientInv => HubPromise
    BY DEF ClientInv
<1> QED BY <1>1, ClientStarts, ClientSteps, PTL DEF HubSpec

HIDE DEF HubTypeOK, ConnStates, Live

-----------------------------------------------------------------------------
(* The client of the dashboard hub.                                        *)

\* What the promise rests on: only the connection in use is live, and its
\* listeners have been added when it came up, and never again.
DashInv ==
    /\ DashTypeOK
    /\ dashState \in [DashConns -> DashLive \cup
                                     {"unbuilt", "Disconnecting", "Disconnected"}]
    /\ loggedIn <=> dashHub # 0
    /\ \A c \in DashConns :
          /\ dashState[c] \in {"unbuilt", "Connecting"} => heard[c] = 0
          /\ dashState[c] \in {"Connected", "Reconnecting"} => heard[c] = 1
          /\ dashState[c] = "Connected" => invoked[c]
          /\ dashState[c] \in DashLive => c = dashHub
          /\ dashHub = c /\ dashState[c] = "Connected" => dashConnected \/ lateClose
    /\ dashConnected => dashHub # 0 /\ dashState[dashHub] = "Connected"

LEMMA DashStartsOK == DashInit => DashInv
<1> SUFFICES ASSUME DashInit PROVE DashInv
    OBVIOUS
<1>1. DashTypeOK
  <2>1. 0 \in 0..MaxDash /\ \A c \in DashConns : c > 0
      BY DashAssumption DEF DashConns
  <2> QED BY <2>1 DEF DashInit, DashTypeOK
<1> QED BY <1>1 DEF DashInit, DashInv, DashLive

LEMMA DashSteps == DashInv /\ [DashNext]_dashVars => DashInv'
<1> SUFFICES ASSUME DashInv, [DashNext]_dashVars
             PROVE  DashInv'
    OBVIOUS
<1> USE DashAssumption DEF DashInv, DashTypeOK, DashConns, DashLive
<1>1. CASE LoggedIn
  <2>1. CASE dashHub # 0 /\ dashState[dashHub] \in DashLive
      BY <1>1, <2>1 DEF LoggedIn
  <2>2. CASE ~(dashHub # 0 /\ dashState[dashHub] \in DashLive)
    <3>1. /\ dashBuilt < MaxDash /\ dashBuilt' = dashBuilt + 1
          /\ dashHub' = dashBuilt + 1 /\ loggedIn' = TRUE
          /\ dashState' = [dashState EXCEPT ![dashBuilt + 1] = "Connecting"]
          /\ UNCHANGED <<heard, invoked, dashConnected, lateClose>>
        BY <1>1, <2>2 DEF LoggedIn
    <3>2. dashBuilt + 1 \in DashConns /\ dashState[dashBuilt + 1] = "unbuilt"
        BY <3>1
    <3>3. DashTypeOK'
        BY <3>1, <3>2
    <3> QED BY <2>2, <3>1, <3>2, <3>3
  <2> QED BY <2>1, <2>2
<1>2. CASE LoggedOut
    BY <1>2 DEF LoggedOut, StopConnection
<1>3. ASSUME NEW c \in DashConns, DashStarts(c)
      PROVE  DashInv'
    BY <1>3 DEF DashStarts, AddKubernetesListeners, SubscribeToCluster
<1>4. ASSUME NEW c \in DashConns, DashStartFails(c) \/ DashCloses(c)
      PROVE  DashInv'
  <2>1. /\ UNCHANGED <<loggedIn, dashBuilt, dashHub, heard, invoked>>
        /\ dashState[c] \notin {"unbuilt", "Connected"} /\ dashConnected' = FALSE
        /\ dashState' = [dashState EXCEPT ![c] = "Disconnected"]
        /\ lateClose' = (lateClose \/ c # dashHub)
      BY <1>4 DEF DashStartFails, DashCloses, Late
  <2>2. DashTypeOK'
      BY <2>1
  <2> QED BY <2>1, <2>2
<1>5. ASSUME NEW c \in DashConns, DashReconnecting(c)
      PROVE  DashInv'
    BY <1>5 DEF DashReconnecting
<1>6. ASSUME NEW c \in DashConns, DashReconnected(c)
      PROVE  DashInv'
    BY <1>6 DEF DashReconnected, SubscribeToCluster
<1>7. CASE UNCHANGED dashVars
    BY <1>7 DEF dashVars
<1> QED BY <1>1, <1>2, <1>3, <1>4, <1>5, <1>6, <1>7 DEF DashNext

\* api/SignalRService and ConnectionStatusComponent: over logins, logouts and
\* reconnects, no connection outlives its session, each push is heard once, and
\* the indicator says what is the case.
THEOREM DashboardPromiseHolds == DashSpec => []DashboardPromise
<1>1. DashInv => DashboardPromise
    BY DEF DashInv, DashTypeOK, DashConns, DashLive, DashboardPromise,
       NoConnectionWithoutLogin, HeardOnce, IndicatorIsTrue, Indicator
<1> QED BY <1>1, DashStartsOK, DashSteps, PTL DEF DashSpec

-----------------------------------------------------------------------------
(* The login and the password page.                                        *)

\* Another tab has changed the tokens, or something under way has outlived its
\* session.
Disturbed == overlap \/ elsewhere

\* POST /login is under way.
UnderWay == entering.to # "login"

TypesOK ==
    /\ session \in 0..signIns /\ signIns \in 0..MaxSignIns
    /\ refreshing \in 0..signIns
    /\ address \in Addresses /\ returnUrl \in Pages /\ asked \in Pages
    /\ entering \in [to : Addresses, here : BOOLEAN]
    /\ timers \in Nat /\ leaving \in Nat

\* The form and its request are those of the login page that is there; there are
\* tokens on it only when the page to go to after the login was not found.
FormOK ==
    /\ entering.here => /\ UnderWay /\ address = "login" /\ entering.to = returnUrl
                        /\ signingIn /\ seen.signingIn
    /\ UnderWay => entering.here \/ Disturbed
    /\ UnderWay => session = Nobody \/ Disturbed
    /\ address # "login" => ~signingIn
    /\ address = "login" => /\ menu = Nobody \/ Disturbed
                            /\ asked = returnUrl \/ askedAgain
    /\ address = "login" /\ session # Nobody
          => Disturbed \/ (unrouted /\ signingIn /\ seen.signingIn)

\* What is under way concerns the session there is.
EndsOK ==
    /\ refreshing # Nobody => refreshing = session \/ Disturbed
    /\ timers > 0 \/ leaving > 0 => session \in ended \cup {Nobody} \/ Disturbed
    /\ signedOut => ~UnderWay

LoginInv == TypesOK /\ FormOK /\ EndsOK /\ LoginPromise

USE DEF Nobody, LoginInv, LoginPromise, NotStranded, HeaderIsTrue, LoginWaits,
        SignedOutStays, UnderWay, Disturbed

\* The page that is left takes its fields with it.
FieldsGo ==
    /\ signingIn' = FALSE /\ seen'.signingIn = FALSE
    /\ entering' \in [to : Addresses, here : BOOLEAN]
    /\ entering'.to = entering.to /\ entering'.here = FALSE

LEMMA FieldsGoWithThePage ==
    ASSUME LoginInv, PagesChange
    PROVE  IF address' = address THEN UNCHANGED <<formVars, entering>> ELSE FieldsGo
<1>1. CASE address' = address
    BY <1>1 DEF PagesChange
<1>2. CASE address' # address
  <2>1. signingIn' = FALSE /\ seen' = Fresh /\ entering' = [entering EXCEPT !.here = FALSE]
      BY <1>2 DEF PagesChange
  <2>2. seen'.signingIn = FALSE
      BY <2>1 DEF Fresh
  <2>3. /\ entering' \in [to : Addresses, here : BOOLEAN]
        /\ entering'.to = entering.to /\ entering'.here = FALSE
      BY <2>1 DEF TypesOK
  <2> QED BY <1>2, <2>1, <2>2, <2>3 DEF FieldsGo
<1> QED BY <1>1, <1>2

\* The tokens are gone, and the login page is there: whoever comes to it from a
\* page that was asked for is sent back there.
Expelled ==
    /\ session' = Nobody /\ isLoggedIn' = FALSE /\ address' = "login"
    /\ menu' \in {menu, Nobody}
    /\ IF address = "login"
         THEN /\ UNCHANGED <<returnUrl, formVars, entering, asked>>
              /\ askedAgain => askedAgain'
         ELSE /\ FieldsGo /\ menu' = Nobody
              /\ returnUrl' = asked' /\ returnUrl' \in Pages

LEMMA LeaveExpels ==
    ASSUME LoginInv, LeaveTo("dashboard"),
           asked' = IF address = "login" THEN asked ELSE "dashboard",
           askedAgain' = (askedAgain /\ address = "login")
    PROVE  Expelled
BY FieldsGoWithThePage
DEF Expelled, LeaveTo, Navigate, LandAt, Admitted, IsAuthenticated, Pages, Routes, formVars

LEMMA ClearExpels ==
    ASSUME LoginInv, ClearAuthState
    PROVE  Expelled
BY FieldsGoWithThePage
DEF Expelled, ClearAuthState, Stay, Navigate, LandAt, Admitted, IsAuthenticated, TypesOK,
    Addresses, Pages, Routes, formVars

\* Whoever is expelled is not stranded, and what is still under way is known to
\* have outlived its session.
LEMMA ExpelledKeeps ==
    ASSUME LoginInv, Expelled, UNCHANGED <<signIns, unrouted, elsewhere>>,
           refreshing' \in {refreshing, 0}, overlap => overlap',
           refreshing' = 0 \/ refreshing' # session \/ overlap',
           timers' \in Nat, leaving' \in Nat,
           signedOut' => entering.to = "login"
    PROVE  LoginInv'
<1>1. TypesOK'
    BY DEF Expelled, TypesOK, FieldsGo, Addresses, Pages, formVars
<1>2. FormOK'
    BY DEF Expelled, FormOK, FieldsGo, formVars
<1>3. EndsOK'
    BY DEF Expelled, EndsOK, FieldsGo
<1>4. LoginPromise'
    BY DEF Expelled, FormOK, FieldsGo, formVars
<1> QED BY <1>1, <1>2, <1>3, <1>4

-----------------------------------------------------------------------------
\* The user opens an address: only the tokens are left.
LEMMA OpenTabKeeps ==
    ASSUME LoginInv, NEW to \in Addresses, OpenTab(to)
    PROVE  LoginInv'
<1> USE DEF OpenTab, IsAuthenticated, TypesOK, Addresses, Pages, Routes, NoAnswer, Fresh
<1>1. TypesOK'
    OBVIOUS
<1>2. FormOK'
    BY DEF FormOK
<1>3. EndsOK'
    BY DEF EndsOK
<1>4. LoginPromise'
    OBVIOUS
<1> QED BY <1>1, <1>2, <1>3, <1>4

\* The user follows a link: the page comes, or the guard sends him to the login.
LEMMA FollowKeeps ==
    ASSUME LoginInv, NEW to \in Addresses, Follow(to)
    PROVE  LoginInv'
<1>1. /\ to \in Pages /\ to # "login" /\ to # address
      /\ asked' = to /\ askedAgain' = (address = "login" /\ to # returnUrl)
      /\ unrouted' = (unrouted /\ address' = "login")
      /\ UNCHANGED <<session, signIns, isLoggedIn, timers, leaving, refreshing, ended,
                     signedOut, elsewhere, overlap>>
      /\ Navigate(to, "dashboard", session)
    BY DEF Follow, Addresses
<1>2. IF address' = address THEN UNCHANGED <<formVars, entering>> ELSE FieldsGo
    BY <1>1, FieldsGoWithThePage DEF Navigate
<1>3. CASE session # Nobody
  <2>1. address' = to /\ returnUrl' = "dashboard" /\ menu' = session
      BY <1>1, <1>3 DEF Navigate, LandAt, Admitted, IsAuthenticated
  <2>2. FieldsGo
      BY <1>1, <1>2, <2>1
  <2>3. TypesOK'
      BY <1>1, <2>1, <2>2 DEF TypesOK, FieldsGo, Addresses, Pages, Routes
  <2>4. FormOK' /\ EndsOK'
      BY <1>1, <1>3, <2>1, <2>2 DEF FormOK, EndsOK, FieldsGo
  <2> QED BY <1>1, <1>3, <2>1, <2>2, <2>3, <2>4 DEF FieldsGo
<1>4. CASE session = Nobody
  <2>1. /\ address' = "login" /\ menu' = Nobody
        /\ returnUrl' = IF address = "login" THEN returnUrl ELSE to
    <3>1. LandAt(to, "dashboard", session) /\ ~Admitted(to, session)
        BY <1>1, <1>4 DEF Navigate, Admitted, IsAuthenticated
    <3>2. CASE address = "login"
        BY <1>1, <1>4, <3>1, <3>2 DEF LandAt, IsAuthenticated
    <3>3. CASE address # "login"
        BY <1>1, <1>4, <3>1, <3>3 DEF LandAt, IsAuthenticated
    <3> QED BY <3>2, <3>3
  <2>2. TypesOK'
      BY <1>1, <1>2, <2>1 DEF TypesOK, FieldsGo, Addresses, formVars
  <2>3. FormOK' /\ EndsOK'
      BY <1>1, <1>2, <1>4, <2>1 DEF FormOK, EndsOK, FieldsGo, formVars
  <2> QED BY <1>1, <1>2, <1>4, <2>1, <2>2, <2>3 DEF FormOK, FieldsGo, formVars
<1> QED BY <1>3, <1>4

-----------------------------------------------------------------------------
\* The login form.
LEMMA LoginKeeps ==
    ASSUME LoginInv, Login
    PROVE  LoginInv'
<1>1. /\ address = "login" /\ ~seen.signingIn /\ signingIn' = TRUE
      /\ seen' = [signingIn |-> TRUE, loginError |-> FALSE]
      /\ entering' = [to |-> returnUrl, here |-> TRUE]
      /\ signedOut' = FALSE
      /\ UNCHANGED <<session, signIns, isLoggedIn, address, returnUrl, menu, timers,
                     leaving, refreshing, asked, askedAgain, unrouted, ended, elsewhere,
                     overlap>>
    BY DEF Login, passwordVars
<1>2. returnUrl \in Addresses /\ returnUrl # "login"
    BY DEF TypesOK, Addresses, Pages, Routes
<1>3. /\ seen'.signingIn
      /\ entering' \in [to : Addresses, here : BOOLEAN]
      /\ entering'.to = returnUrl /\ entering'.here
    BY <1>1, <1>2
<1>4. TypesOK'
    BY <1>1, <1>3 DEF TypesOK
<1>5. FormOK' /\ EndsOK'
    BY <1>1, <1>2, <1>3 DEF FormOK, EndsOK
<1> QED BY <1>1, <1>3, <1>4, <1>5

\* The sign-in ends on the page that was asked for, or where it began when that
\* page is not found.
LEMMA LoginSucceedsKeeps ==
    ASSUME LoginInv, LoginSucceeds
    PROVE  LoginInv'
<1>1. /\ entering # NoAnswer /\ signIns < MaxSignIns
      /\ signIns' = signIns + 1 /\ session' = signIns + 1 /\ isLoggedIn' = TRUE
      /\ entering' = NoAnswer /\ overlap' = (overlap \/ Outlived)
      /\ UNCHANGED <<timers, leaving, refreshing, asked, askedAgain, ended, signedOut,
                     elsewhere>>
    BY DEF LoginSucceeds
<1>2. /\ UnderWay /\ ~signedOut /\ session' # Nobody
      /\ entering'.to = "login" /\ ~entering'.here
      /\ entering' \in [to : Addresses, here : BOOLEAN]
  <2>1. entering.to = "login" => ~entering.here
      BY DEF FormOK
  <2>2. UnderWay
      BY <1>1, <2>1 DEF TypesOK, NoAnswer
  <2>3. /\ entering'.to = "login" /\ ~entering'.here
        /\ entering' \in [to : Addresses, here : BOOLEAN]
      BY <1>1 DEF NoAnswer, Addresses
  <2> QED BY <1>1, <2>2, <2>3 DEF EndsOK, TypesOK
<1>3. CASE Routable(entering.to)
  <2>1. /\ address' = entering.to /\ address' # "login"
        /\ returnUrl' = "dashboard" /\ menu' = session' /\ unrouted' = FALSE
      BY <1>2, <1>3 DEF LoginSucceeds
  <2>2. IF address' = address THEN UNCHANGED formVars
                              ELSE signingIn' = FALSE /\ seen' = Fresh
      BY <1>3 DEF LoginSucceeds
  <2>3. Fresh.signingIn = FALSE
      BY DEF Fresh
  <2>4. TypesOK'
      BY <1>1, <1>2, <1>3, <2>1, LoginBoundsAssumption
      DEF TypesOK, Addresses, Pages, Routes, Routable
  <2>5. FormOK' /\ EndsOK'
      BY <1>1, <1>2, <2>1, <2>2 DEF FormOK, EndsOK, Outlived, formVars, TypesOK
  <2> QED BY <1>1, <1>2, <2>1, <2>2, <2>3, <2>4, <2>5 DEF FormOK, formVars
<1>4. CASE ~Routable(entering.to)
  <2>1. unrouted' = TRUE /\ UNCHANGED <<address, returnUrl, menu, formVars>>
      BY <1>4 DEF LoginSucceeds
  <2>2. TypesOK'
      BY <1>1, <1>2, <2>1, LoginBoundsAssumption DEF TypesOK
  <2>3. FormOK' /\ EndsOK'
      BY <1>1, <1>2, <2>1 DEF FormOK, EndsOK, Outlived, formVars, TypesOK
  <2> QED BY <1>1, <1>2, <2>1, <2>2, <2>3 DEF FormOK, formVars
<1> QED BY <1>3, <1>4

LEMMA LoginFailsKeeps ==
    ASSUME LoginInv, LoginFails
    PROVE  LoginInv'
<1>1. /\ entering' = NoAnswer /\ signingIn' = (signingIn /\ ~entering.here)
      /\ loginError' = (entering.here \/ loginError)
      /\ UNCHANGED <<session, signIns, isLoggedIn, address, returnUrl, seen, menu, timers,
                     leaving, refreshing, loginHistory>>
    BY DEF LoginFails, passwordVars
<1>2. /\ entering'.to = "login" /\ ~entering'.here
      /\ entering' \in [to : Addresses, here : BOOLEAN]
    BY <1>1 DEF NoAnswer, Addresses
<1>3. TypesOK'
    BY <1>1, <1>2 DEF TypesOK, loginHistory
<1>4. FormOK' /\ EndsOK'
    BY <1>1, <1>2 DEF FormOK, EndsOK, loginHistory
<1> QED BY <1>1, <1>2, <1>3, <1>4 DEF loginHistory

LEMMA TypedKeeps ==
    ASSUME LoginInv, Typed
    PROVE  LoginInv'
<1>1. /\ seen' = [signingIn |-> signingIn, loginError |-> loginError]
      /\ UNCHANGED <<session, signIns, isLoggedIn, address, returnUrl, signingIn,
                     loginError, entering, menu, timers, leaving, refreshing,
                     asked, askedAgain, unrouted, ended, signedOut, elsewhere, overlap>>
    BY DEF Typed, passwordVars, loginHistory
<1>2. seen'.signingIn = signingIn
    BY <1>1
<1>3. TypesOK'
    BY <1>1 DEF TypesOK
<1>4. FormOK' /\ EndsOK'
    BY <1>1, <1>2 DEF FormOK, EndsOK
<1> QED BY <1>1, <1>2, <1>3, <1>4

-----------------------------------------------------------------------------
(* The end of a session.                                                   *)

\* Nothing is seen of what begins or ends while the tokens stay.
LEMMA NothingSeen ==
    ASSUME LoginInv,
           UNCHANGED <<session, signIns, isLoggedIn, address, returnUrl, signingIn,
                       loginError, seen, entering, menu, asked, askedAgain, unrouted,
                       signedOut, elsewhere, overlap>>,
           refreshing' \in {refreshing, session}, timers' \in Nat, leaving' \in Nat,
           timers' > 0 \/ leaving' > 0 => session \in ended' \cup {Nobody} \/ Disturbed
    PROVE  LoginInv'
<1>1. TypesOK'
    BY DEF TypesOK
<1>2. FormOK' /\ EndsOK'
    BY DEF FormOK, EndsOK
<1> QED BY <1>1, <1>2

LEMMA SignOutKeeps ==
    ASSUME LoginInv, SignOut
    PROVE  LoginInv'
<1>1. CASE session # Nobody
  <2>1. /\ leaving' = leaving + 1 /\ session \in ended'
        /\ UNCHANGED <<session, signIns, isLoggedIn, address, returnUrl, signingIn,
                       loginError, seen, entering, menu, asked, askedAgain, unrouted,
                       signedOut, elsewhere, overlap, refreshing, timers>>
      BY <1>1 DEF SignOut, BeginLogout, IsAuthenticated, Stay, formVars
  <2> QED BY <2>1, NothingSeen DEF TypesOK
<1>2. CASE session = Nobody
  <2>1. Expelled
      BY <1>2, LeaveExpels DEF SignOut, BeginLogout, IsAuthenticated
  <2> QED BY <1>2, <2>1, ExpelledKeeps DEF SignOut, BeginLogout, IsAuthenticated, TypesOK, EndsOK
<1> QED BY <1>1, <1>2

LEMMA TimerKeeps ==
    ASSUME LoginInv, TimerSignsOut
    PROVE  LoginInv'
<1>1. CASE session # Nobody
  <2>1. /\ leaving' = leaving + 1 /\ timers > 0 /\ timers' = timers - 1
        /\ UNCHANGED <<session, signIns, isLoggedIn, address, returnUrl, signingIn,
                       loginError, seen, entering, menu, asked, askedAgain, unrouted,
                       signedOut, elsewhere, overlap, refreshing, ended>>
      BY <1>1 DEF TimerSignsOut, BeginLogout, IsAuthenticated, Stay, formVars
  <2>2. leaving' \in Nat /\ timers' \in Nat
      BY <2>1 DEF TypesOK
  <2> QED BY <2>1, <2>2, NothingSeen DEF EndsOK
<1>2. CASE session = Nobody
  <2>1. Expelled
      BY <1>2, LeaveExpels DEF TimerSignsOut, BeginLogout, IsAuthenticated
  <2>2. timers' \in Nat /\ leaving' \in Nat
      BY <1>2 DEF TimerSignsOut, BeginLogout, IsAuthenticated, TypesOK
  <2> QED BY <1>2, <2>1, <2>2, ExpelledKeeps DEF TimerSignsOut, EndsOK
<1> QED BY <1>1, <1>2

LEMMA LogoutAnsweredKeeps ==
    ASSUME LoginInv, NEW ok \in BOOLEAN, LogoutAnswered(ok)
    PROVE  LoginInv'
<1>1. Expelled
    BY LeaveExpels DEF LogoutAnswered
<1>2. timers' \in Nat /\ leaving' \in Nat
    BY DEF LogoutAnswered, TypesOK
<1>3. signedOut' => entering.to = "login"
  <2>1. signedOut' => entering = NoAnswer
      BY DEF LogoutAnswered
  <2> QED BY <2>1 DEF NoAnswer
<1> QED BY <1>1, <1>2, <1>3, ExpelledKeeps DEF LogoutAnswered

-----------------------------------------------------------------------------
(* The refresh of the tokens.                                              *)

LEMMA RefreshBeginsKeeps ==
    ASSUME LoginInv, RefreshBegins
    PROVE  LoginInv'
BY NothingSeen DEF RefreshBegins, formVars, passwordVars, loginHistory, TypesOK, EndsOK

LEMMA NoTokensLeftKeeps ==
    ASSUME LoginInv, NoTokensLeft
    PROVE  LoginInv'
<1>1. Expelled
    BY ClearExpels DEF NoTokensLeft
<1> QED BY <1>1, ExpelledKeeps DEF NoTokensLeft, TypesOK, EndsOK

LEMMA TokensRenewedKeeps ==
    ASSUME LoginInv, TokensRenewed
    PROVE  LoginInv'
<1>1. /\ refreshing # Nobody /\ session' = refreshing /\ isLoggedIn' = TRUE
      /\ refreshing' = Nobody
      /\ UNCHANGED <<signIns, address, returnUrl, signingIn, loginError, seen, entering,
                     menu, timers, leaving, asked, askedAgain, unrouted, ended, signedOut,
                     elsewhere, overlap>>
    BY DEF TokensRenewed, formVars, loginHistory
<1>2. TypesOK'
    BY <1>1 DEF TypesOK
<1>3. refreshing = session \/ Disturbed
    BY <1>1 DEF EndsOK
<1>4. FormOK' /\ EndsOK'
    BY <1>1, <1>3 DEF FormOK, EndsOK
<1> QED BY <1>1, <1>2, <1>3, <1>4

LEMMA RenewalFailsKeeps ==
    ASSUME LoginInv, RenewalFails
    PROVE  LoginInv'
<1>1. Expelled
    BY ClearExpels DEF RenewalFails
<1> QED BY <1>1, ExpelledKeeps DEF RenewalFails, TypesOK, EndsOK

-----------------------------------------------------------------------------
(* The change of the password.                                             *)

LEMMA PasswordKeeps ==
    ASSUME LoginInv, SubmitPassword \/ PasswordChanged \/ PasswordFails
    PROVE  LoginInv'
<1>1. CASE SubmitPassword \/ PasswordFails
    BY <1>1, NothingSeen
    DEF SubmitPassword, PasswordFails, formVars, loginHistory, TypesOK, EndsOK
<1>2. CASE PasswordChanged
  <2>1. timers' \in Nat
      BY <1>2 DEF PasswordChanged, TypesOK
  <2> QED BY <1>2, <2>1, NothingSeen DEF PasswordChanged, formVars, TypesOK
<1> QED BY <1>1, <1>2

LEMMA PasswordRefusedKeeps ==
    ASSUME LoginInv, PasswordRefused
    PROVE  LoginInv'
<1>1. CASE session = Nobody
  <2>1. Expelled
      BY <1>1, ClearExpels DEF PasswordRefused
  <2> QED BY <1>1, <2>1, ExpelledKeeps DEF PasswordRefused, TypesOK, EndsOK
<1>2. CASE session # Nobody
    BY <1>2, NothingSeen DEF PasswordRefused, Stay, formVars, TypesOK, EndsOK
<1> QED BY <1>1, <1>2

\* The tokens are those of every tab.
LEMMA OtherTabKeeps ==
    ASSUME LoginInv, OtherTab
    PROVE  LoginInv'
<1>1. /\ elsewhere' = TRUE
      /\ session' \in 0..signIns' /\ signIns' \in Nat /\ signIns' <= MaxSignIns
      /\ signIns <= signIns'
      /\ UNCHANGED <<isLoggedIn, address, returnUrl, signingIn, loginError, seen, entering,
                     menu, timers, leaving, refreshing, asked, askedAgain, unrouted, ended,
                     signedOut, overlap>>
    BY LoginBoundsAssumption DEF OtherTab, formVars, passwordVars, TypesOK
<1>2. TypesOK'
    BY <1>1, LoginBoundsAssumption DEF TypesOK
<1>3. FormOK' /\ EndsOK'
    BY <1>1 DEF FormOK, EndsOK
<1> QED BY <1>1, <1>2, <1>3

LEMMA LoginStart == LoginInit => LoginInv
<1> SUFFICES ASSUME LoginInit PROVE LoginInv
    OBVIOUS
<1>1. entering.to = "login" /\ ~entering.here
    BY DEF LoginInit, NoAnswer
<1>2. TypesOK
    BY LoginBoundsAssumption DEF LoginInit, NoAnswer, TypesOK, Addresses, Pages, Routes
<1>3. ~seen.signingIn
    BY DEF LoginInit, Fresh
<1> QED BY <1>1, <1>2, <1>3 DEF LoginInit, FormOK, EndsOK

LEMMA LoginStep == LoginInv /\ [LoginNext]_loginAll => LoginInv'
<1> SUFFICES ASSUME LoginInv, [LoginNext]_loginAll
             PROVE  LoginInv'
    OBVIOUS
<1>1. CASE UNCHANGED loginAll
    BY <1>1, NothingSeen
    DEF loginAll, loginVars, loginHistory, TypesOK, EndsOK
<1> HIDE DEF LoginInv
<1> QED BY <1>1, OpenTabKeeps, FollowKeeps, LoginKeeps, LoginSucceedsKeeps,
           LoginFailsKeeps, TypedKeeps, SignOutKeeps, TimerKeeps, LogoutAnsweredKeeps,
           RefreshBeginsKeeps, NoTokensLeftKeeps, TokensRenewedKeeps, RenewalFailsKeeps,
           PasswordKeeps, PasswordRefusedKeeps, OtherTabKeeps DEF LoginNext

-----------------------------------------------------------------------------
\* LoginPageComponent, AuthService and the header: whatever answers come after the
\* user has moved on, he is not stranded without tokens, the header shows the
\* session there is, the form waits only for its request, and a sign-out stays.
THEOREM LoginPromiseHolds == LoginSpec => []LoginPromise
<1>1. LoginInv => LoginPromise
    OBVIOUS
<1> HIDE DEF LoginInv, LoginPromise
<1> QED BY <1>1, LoginStart, LoginStep, PTL DEF LoginSpec

\* logout(), clearAuthState, submit() of the password page and login(): a session
\* ends for a reason, and a login leads to where the user had been stopped.
THEOREM LoginStepsHold == LoginSpec => LoginSteps
<1>1. LoginInv /\ LoginNext /\ session # Nobody /\ session' # session
        => session \in ended' \/ overlap' \/ elsewhere'
  <2> SUFFICES ASSUME LoginInv, LoginNext, session # Nobody, session' # session
               PROVE  session \in ended' \/ overlap' \/ elsewhere'
      OBVIOUS
  <2>1. CASE LoginSucceeds
    <3>1. UnderWay
        BY <2>1 DEF LoginSucceeds, FormOK, TypesOK, NoAnswer
    <3> QED BY <2>1, <3>1 DEF LoginSucceeds, FormOK
  <2>2. ASSUME NEW ok \in BOOLEAN, LogoutAnswered(ok)
        PROVE  session \in ended' \/ overlap' \/ elsewhere'
      BY <2>2 DEF LogoutAnswered, EndsOK
  <2>3. CASE TokensRenewed \/ RenewalFails
      BY <2>3 DEF TokensRenewed, RenewalFails, loginHistory, EndsOK
  <2>4. CASE OtherTab
      BY <2>4 DEF OtherTab
  <2>5. CASE SignOut \/ TimerSignsOut \/ NoTokensLeft \/ PasswordRefused
      BY <2>5 DEF SignOut, TimerSignsOut, BeginLogout, IsAuthenticated, NoTokensLeft,
                  PasswordRefused
  <2> QED BY <2>1, <2>2, <2>3, <2>4, <2>5
          DEF LoginNext, OpenTab, Follow, Login, LoginFails, Typed, RefreshBegins,
              SubmitPassword, PasswordChanged, PasswordFails
<1>2. LoginInv /\ LoginSucceeds /\ entering.here /\ Routable(asked) /\ ~askedAgain
        => address' = asked
    BY DEF LoginSucceeds, FormOK
<1> HIDE DEF LoginInv, Nobody
<1> QED BY <1>1, <1>2, LoginStart, LoginStep, PTL DEF LoginSpec, LoginSteps

HIDE DEF Nobody, LoginInv, LoginPromise, NotStranded, HeaderIsTrue, LoginWaits,
         SignedOutStays, UnderWay, Disturbed

-----------------------------------------------------------------------------
(* The page of the settings.                                               *)

\* The fields of the form that the user has not edited are those that were loaded.
FormInv ==
    /\ onServer \in Forms /\ form \in Forms
    /\ answered \in Forms \cup {NoForm} /\ loadedForm \in Forms \cup {NoForm}
    /\ request \in {"none", "load", "pods", "save"}
    /\ request = "save" => payload \in Forms
    /\ loadedForm # NoForm => \A f \in Fields \ edited : form[f] = loadedForm[f]
    /\ OnlyEditsAreSaved /\ WaitsForRequests /\ SavedIsTrue

LEMMA FormStarts == SettingsInit => FormInv
BY SettingsPageAssumption
DEF SettingsInit, FormInv, Forms, Default, OnlyEditsAreSaved, WaitsForRequests, SavedIsTrue

LEMMA NormalizedIsForm == \A s \in Forms : Normalized(s) \in Forms
BY SettingsPageAssumption DEF Forms, Normalized

\* The server and other browsers.
LEMMA ServerKeepsForm ==
    ASSUME FormInv,
           \/ SettingsAreRead \/ ServerSaves
           \/ \E s \in Forms : OtherBrowserSaves(s)
    PROVE  FormInv'
<1>1. /\ UNCHANGED <<form, loadedForm, pageLoading, pageSaving, savedShown, request,
                     payload, edited>>
      /\ onServer' \in Forms /\ answered' \in Forms \cup {NoForm}
    BY NormalizedIsForm DEF SettingsAreRead, ServerSaves, OtherBrowserSaves, FormInv
<1> QED BY <1>1 DEF FormInv, OnlyEditsAreSaved, WaitsForRequests, SavedIsTrue

\* What arrives replaces the form, and nothing is edited any more.
LEMMA AnswersKeepForm ==
    ASSUME FormInv, SettingsArrive \/ SaveAnswered
    PROVE  FormInv'
<1>1. /\ answered \in Forms /\ form' = answered /\ loadedForm' = answered /\ answered' = NoForm
      /\ UNCHANGED onServer
      /\ \/ request = "load" /\ request' = "pods" /\ UNCHANGED <<pageLoading, pageSaving>>
         \/ request = "save" /\ request' = "none" /\ pageSaving' = FALSE /\ UNCHANGED pageLoading
    BY DEF SettingsArrive, SaveAnswered, SetForm, FormInv
<1> QED BY <1>1 DEF FormInv, OnlyEditsAreSaved, WaitsForRequests, SavedIsTrue

LEMMA FailuresKeepForm ==
    ASSUME FormInv,
           \/ SettingsFail \/ PodsFail \/ SaveFails
           \/ \E list : PodsArrive(list)
    PROVE  FormInv'
<1>1. /\ UNCHANGED <<onServer, form, loadedForm, savedShown, edited>>
      /\ answered' \in {answered, NoForm}
      /\ request' = "none" /\ request # "none"
      /\ \/ request # "save" /\ pageLoading' = FALSE /\ UNCHANGED pageSaving
         \/ request = "save" /\ pageSaving' = FALSE /\ UNCHANGED pageLoading
    BY DEF SettingsFail, PodsFail, SaveFails, PodsArrive
<1> QED BY <1>1 DEF FormInv, OnlyEditsAreSaved, WaitsForRequests, SavedIsTrue

\* Whoever edits a field marks it; the choice of pods takes the message away.
LEMMA EditKeepsForm ==
    ASSUME FormInv, NEW f \in Fields, NEW v, Edit(f, v),
           [form EXCEPT ![f] = v] \in Forms,
           IF f = "excluded" THEN savedShown' = FALSE ELSE UNCHANGED savedShown
    PROVE  FormInv'
<1>1. /\ form' = [form EXCEPT ![f] = v] /\ edited' = edited \cup {f}
      /\ UNCHANGED <<onServer, loadedForm, pageLoading, pageSaving, request, payload,
                     answered>>
    BY DEF Edit
<1>2. DOMAIN form = Fields /\ \A g \in Fields \ {f} : form'[g] = form[g]
    BY <1>1 DEF FormInv, Forms, Fields
<1>3. SavedIsTrue'
    BY <1>1, <1>2 DEF FormInv, SavedIsTrue, Fields
<1> QED BY <1>1, <1>2, <1>3 DEF FormInv, OnlyEditsAreSaved, WaitsForRequests

LEMMA EditsKeepForm ==
    ASSUME FormInv,
           \/ EnterSetting \/ EnableAll \/ DisableAll
           \/ \E k \in PodKeys : TogglePod(k),
           podOptions \subseteq PodKeys
    PROVE  FormInv'
<1> USE DEF FormInv, Forms, Fields
<1>1. ASSUME NEW v \in BOOLEAN, Edit("enabled", v), UNCHANGED savedShown
      PROVE  FormInv'
    BY <1>1, EditKeepsForm
<1>2. ASSUME NEW i \in ScanIntervals, Edit("scan", i), UNCHANGED savedShown
      PROVE  FormInv'
    BY <1>2, EditKeepsForm
<1>3. ASSUME NEW set \in SUBSET PodKeys, ChoosePods(set)
      PROVE  FormInv'
    BY <1>3, EditKeepsForm DEF ChoosePods
<1>4. \A k \in PodKeys : /\ form.excluded \ {k} \in SUBSET PodKeys
                         /\ form.excluded \cup {k} \in SUBSET PodKeys
    OBVIOUS
<1> QED BY <1>1, <1>2, <1>3, <1>4 DEF EnterSetting, EnableAll, DisableAll, TogglePod

LEMMA SaveKeepsForm ==
    ASSUME FormInv, Save \/ ReopenSettings
    PROVE  FormInv'
<1>1. CASE Save
    BY <1>1 DEF Save, FormShown, FormInv, OnlyEditsAreSaved, WaitsForRequests, SavedIsTrue
<1>2. CASE ReopenSettings
  <2>1. onServer' \in Forms
      BY <1>2, NormalizedIsForm DEF ReopenSettings, FormInv
  <2>2. Default \in Forms
      BY SettingsPageAssumption DEF Default, Forms
  <2> QED BY <1>2, <2>1, <2>2
          DEF ReopenSettings, Opened, FormInv, OnlyEditsAreSaved, WaitsForRequests,
              SavedIsTrue
<1> QED BY <1>1, <1>2

\* podOptions.
OptionsInv == podOptions \subseteq PodKeys

LEMMA SettingsStep ==
    ASSUME FormInv, OptionsInv, SettingsNext
    PROVE  FormInv' /\ OptionsInv'
<1>1. FormInv'
    BY ServerKeepsForm, AnswersKeepForm, FailuresKeepForm, EditsKeepForm, SaveKeepsForm
    DEF SettingsNext, OptionsInv
<1>2. OptionsInv'
    BY DEF SettingsNext, SettingsAreRead, ServerSaves, OtherBrowserSaves, SettingsArrive,
       SettingsFail, PodsArrive, PodsFail, EnterSetting, TogglePod, EnableAll, DisableAll,
       ChoosePods, Edit, Save, SaveAnswered, SaveFails, ReopenSettings, Opened, OptionsInv
<1> QED BY <1>1, <1>2

-----------------------------------------------------------------------------
(* The preferences.                                                        *)

\* The PUTs on their way are of updates so far; what the debounce holds, and the
\* PUT of the last update, have the value that the user sees.
PutsInv ==
    /\ updates \in Nat /\ applied \in 0..updates
    /\ \A q \in puts : /\ q \in [number : Nat, value : SUBSET PodKeys,
                                 heard : BOOLEAN, done : BOOLEAN]
                       /\ q.number <= updates
                       /\ touched /\ q.number = updates => q.value = prefs
    /\ prefs \subseteq PodKeys
    /\ queued # NoSave => saverOn /\ touched /\ queued = <<prefs>>

\* The last update is applied, or is going to be.
LastUpdateInv ==
    /\ touched /\ applied = updates /\ ~overtook => prefsOnServer = prefs
    /\ touched /\ queued = NoSave /\ saverOn =>
         \/ applied = updates
         \/ \E q \in puts : q.number = updates /\ q.heard /\ ~q.done

PrefsInv == PutsInv /\ LastUpdateInv

LEMMA TogglesStep ==
    ASSUME PrefsInv, TogglesNext
    PROVE  PrefsInv'
<1> USE DEF PrefsInv, PutsInv, LastUpdateInv, NoSave
<1>1. ASSUME NEW k \in PodKeys, ToggleCounts(k)
      PROVE  PrefsInv'
  <2>1. /\ updates' = updates + 1 /\ touched' = TRUE /\ prefs' \subseteq PodKeys
        /\ queued' = IF saverOn THEN <<prefs'>> ELSE queued
        /\ UNCHANGED <<prefsOnServer, puts, saverOn, applied, overtook>>
      BY <1>1 DEF ToggleCounts, Enqueue
  <2>2. updates' \in Nat /\ applied' \in 0..updates' /\ applied' # updates'
        /\ \A q \in puts : q.number <= updates' /\ q.number # updates'
      BY <2>1
  <2>3. queued' # NoSave => saverOn' /\ touched' /\ queued' = <<prefs'>>
      BY <2>1
  <2>4. PutsInv'
      BY <2>1, <2>2, <2>3
  <2>5. LastUpdateInv'
      BY <2>1, <2>2
  <2> QED BY <2>4, <2>5
<1>2. CASE DebounceEnds
  <2> DEFINE new == [number |-> updates, value |-> queued[1], heard |-> TRUE, done |-> FALSE]
  <2>1. /\ queued # NoSave /\ queued' = NoSave
        /\ puts' = {[q EXCEPT !.heard = FALSE] : q \in puts} \cup {new}
        /\ UNCHANGED <<prefs, prefsOnServer, saverOn, updates, applied, overtook, touched>>
      BY <1>2 DEF DebounceEnds
  <2>2. new \in puts' /\ new.value = prefs /\ new.number = updates /\ new.heard /\ ~new.done
        /\ new \in [number : Nat, value : SUBSET PodKeys, heard : BOOLEAN, done : BOOLEAN]
      BY <2>1
  <2>3. \A q \in puts : LET r == [q EXCEPT !.heard = FALSE]
                        IN  /\ r \in [number : Nat, value : SUBSET PodKeys,
                                      heard : BOOLEAN, done : BOOLEAN]
                            /\ r.number = q.number /\ r.value = q.value
      OBVIOUS
  <2> HIDE DEF new
  <2> QED BY <2>1, <2>2, <2>3
<1>3. ASSUME NEW q \in puts, PutIsApplied(q)
      PROVE  PrefsInv'
  <2> DEFINE r == [q EXCEPT !.done = TRUE]
  <2>1. /\ ~q.done /\ prefsOnServer' = q.value /\ overtook' = (q.number < applied)
        /\ puts' = (puts \ {q}) \cup (IF q.heard THEN {r} ELSE {})
        /\ applied' = IF overtook' THEN applied ELSE q.number
        /\ UNCHANGED <<prefs, queued, saverOn, updates, touched>>
      BY <1>3 DEF PutIsApplied
  <2>2. /\ r \in [number : Nat, value : SUBSET PodKeys, heard : BOOLEAN, done : BOOLEAN]
        /\ r.number = q.number /\ r.value = q.value
      OBVIOUS
  <2> HIDE DEF r
  <2>3. PutsInv'
      BY <2>1, <2>2
  <2>4. (touched /\ applied = updates /\ ~overtook => prefsOnServer = prefs)'
      BY <2>1
  <2>5. (touched /\ queued = NoSave /\ saverOn =>
           \/ applied = updates
           \/ \E p \in puts : p.number = updates /\ p.heard /\ ~p.done)'
    <3> SUFFICES ASSUME touched, queued = NoSave, saverOn, applied' # updates
                 PROVE  \E p \in puts' : p.number = updates /\ p.heard /\ ~p.done
        BY <2>1
    <3>1. q.number \in Nat /\ q.number <= updates
        OBVIOUS
    <3>2. applied # updates /\ q.number # updates
      <4>1. CASE q.number < applied
        <5>1. applied' = applied /\ updates' = updates
            BY <4>1, <2>1
        <5>2. applied \in Nat /\ updates \in Nat /\ applied <= updates
            OBVIOUS
        <5> QED BY <4>1, <5>1, <5>2, <3>1
      <4>2. CASE ~(q.number < applied)
        <5>1. applied' = q.number /\ updates' = updates
            BY <4>2, <2>1
        <5> QED BY <4>2, <5>1, <3>1
      <4> QED BY <4>1, <4>2
    <3> QED BY <2>1, <3>2
  <2> QED BY <2>3, <2>4, <2>5
<1>4. ASSUME NEW q \in puts, PutAnswered(q) \/ PutFails(q)
      PROVE  PrefsInv'
  <2>1. /\ puts' = puts \ {q}
        /\ \/ q.done /\ UNCHANGED <<queued, saverOn>>
           \/ q.heard /\ saverOn' = FALSE /\ queued' = NoSave
           \/ ~q.heard /\ (saverOn' <=> saverOn) /\ UNCHANGED queued
        /\ UNCHANGED <<prefs, prefsOnServer, updates, applied, overtook, touched>>
      BY <1>4 DEF PutAnswered, PutFails
  <2>2. PutsInv'
      BY <2>1
  <2>3. LastUpdateInv'
      BY <2>1
  <2> QED BY <2>2, <2>3
<1>5. CASE LoadApp
  <2>1. /\ prefs' = {} /\ queued' = NoSave /\ touched' = FALSE
        /\ UNCHANGED <<updates, applied>>
        /\ puts' = {[q EXCEPT !.heard = FALSE] : q \in {r \in puts : ~r.done}}
      BY <1>5 DEF LoadApp
  <2>2. \A q \in puts : LET r == [q EXCEPT !.heard = FALSE]
                        IN  /\ r \in [number : Nat, value : SUBSET PodKeys,
                                      heard : BOOLEAN, done : BOOLEAN]
                            /\ r.number = q.number
      OBVIOUS
  <2> QED BY <2>1, <2>2
<1> QED BY <1>1, <1>2, <1>3, <1>4, <1>5 DEF TogglesNext

SettingsInv == FormInv /\ OptionsInv /\ PrefsInv

LEMMA SettingsPageStarts == SettingsInit => SettingsInv
<1>1. SettingsInit => OptionsInv /\ PrefsInv
    BY DEF SettingsInit, OptionsInv, PrefsInv, PutsInv, LastUpdateInv
<1> QED BY <1>1, FormStarts DEF SettingsInv

LEMMA SettingsPageSteps ==
    SettingsInv /\ [SettingsNext \/ TogglesNext]_settingsPageVars => SettingsInv'
<1> SUFFICES ASSUME SettingsInv, [SettingsNext \/ TogglesNext]_settingsPageVars
             PROVE  SettingsInv'
    OBVIOUS
<1>1. ASSUME UNCHANGED settingsVars
      PROVE  FormInv' /\ OptionsInv'
    BY <1>1
    DEF settingsVars, SettingsInv, FormInv, OptionsInv, OnlyEditsAreSaved, WaitsForRequests,
        SavedIsTrue
<1>2. ASSUME UNCHANGED prefVars
      PROVE  PrefsInv'
    BY <1>2 DEF prefVars, SettingsInv, PrefsInv, PutsInv, LastUpdateInv
<1>3. SettingsNext => UNCHANGED prefVars
    BY DEF SettingsNext, SettingsAreRead, ServerSaves, OtherBrowserSaves, SettingsArrive,
       SettingsFail, PodsArrive, PodsFail, EnterSetting, TogglePod, EnableAll, DisableAll,
       ChoosePods, Edit, Save, SaveAnswered, SaveFails, ReopenSettings
<1>4. TogglesNext => UNCHANGED settingsVars
    BY DEF TogglesNext, ToggleCounts, DebounceEnds, PutIsApplied, PutAnswered, PutFails,
       LoadApp
<1> QED BY <1>1, <1>2, <1>3, <1>4, SettingsStep, TogglesStep DEF SettingsInv, settingsPageVars

\* SettingsPageComponent and UserPreferencesService: what is saved was edited or
\* loaded, the page waits only for requests that are under way, "Saved" is true,
\* and the server has the last choice once nothing is pending.
THEOREM SettingsPromiseHolds == SettingsSpec => []SettingsPromise
<1>1. SettingsInv => SettingsPromise
    BY DEF SettingsInv, FormInv, PrefsInv, PutsInv, LastUpdateInv, SettingsPromise, PrefsSettle
<1> QED BY <1>1, SettingsPageStarts, SettingsPageSteps, PTL DEF SettingsSpec

-----------------------------------------------------------------------------
(* The views of the cluster's metrics.                                     *)

\* The version of the last push that has arrived, unless one was lost.
Received == metrics - Len(pushes)

ViewsTyped ==
    /\ metrics \in Nat \ {0} /\ pushes \in Seq(1..metrics)
    /\ get \in [Views -> {"no", "sent", "read"}]
    /\ answer \in [Views -> 0..metrics]
    /\ shownCluster \in [Views -> 0..metrics]
    /\ viewLoading \in [Views \ {"strip"} -> BOOLEAN]
    /\ missed \in BOOLEAN

LoadsAreSent == \A w \in Views \ {"strip"} : viewLoading[w] => get[w] # "no"

AnswersAreRead == \A w \in Views : get[w] = "read" => answer[w] # 0

\* The pushes on their way are the versions since, and no view is behind what was
\* received, but for those whose answers were.
PushesAreNext ==
    ~missed => /\ Len(pushes) < metrics
               /\ \A i \in 1..Len(pushes) : pushes[i] = Received + i

ViewsKeepUp ==
    ~missed => \A w \in Views \ crossed :
                  \/ shownCluster[w] >= Received
                  \/ shownCluster[w] = 0 /\ Received = 1

WidgetsInv ==
    /\ ViewsTyped /\ LoadsAreSent /\ AnswersAreRead /\ CardsAreTheNodes
    /\ PushesAreNext /\ ViewsKeepUp

LEMMA ViewsStart == ViewsInit => WidgetsInv
<1> SUFFICES ASSUME ViewsInit PROVE WidgetsInv
    OBVIOUS
<1> USE DEF ViewsInit
<1>1. ViewsTyped
  <2>1. pushes \in Seq(1..metrics)
      OBVIOUS
  <2>2. /\ get \in [Views -> {"no", "sent", "read"}]
        /\ answer \in [Views -> 0..metrics] /\ shownCluster \in [Views -> 0..metrics]
      OBVIOUS
  <2>3. viewLoading \in [Views \ {"strip"} -> BOOLEAN]
      OBVIOUS
  <2>4. metrics \in Nat \ {0}
      OBVIOUS
  <2>5. missed \in BOOLEAN
      OBVIOUS
  <2> HIDE DEF ViewsInit
  <2> QED BY <2>1, <2>2, <2>3, <2>4, <2>5 DEF ViewsTyped
<1>2. Received = 1
    BY DEF Received
<1>3. PushesAreNext /\ ViewsKeepUp
    BY <1>2 DEF PushesAreNext, ViewsKeepUp
<1>4. LoadsAreSent /\ AnswersAreRead /\ CardsAreTheNodes
    BY DEF LoadsAreSent, AnswersAreRead, CardsAreTheNodes, Views
<1> QED BY <1>1, <1>3, <1>4 DEF WidgetsInv

LEMMA MergeGivesTheNodes ==
    ASSUME NEW v, MergeNodes(v)
    PROVE  {[name |-> c.name, values |-> c.values] : c \in cards'}
              = {[name |-> n, values |-> v] : n \in NodesAt[v]}
<1> DEFINE card(n) == [name |-> n, values |-> v,
                       total |-> IF {c \in cards : c.name = n} = {} THEN v
                                 ELSE (CHOOSE c \in {c \in cards : c.name = n} : TRUE).total]
<1>1. cards' = {card(n) : n \in NodesAt[v]}
    BY DEF MergeNodes
<1>2. \A n : card(n).name = n /\ card(n).values = v
    OBVIOUS
<1> HIDE DEF card
<1> QED BY <1>1, <1>2

LEMMA MeasuresKeepsViews ==
    ASSUME WidgetsInv, Measures
    PROVE  WidgetsInv'
<1> USE DEF WidgetsInv, ViewsTyped
<1>1. /\ metrics' = metrics + 1 /\ metrics' \in Nat \ {0}
      /\ UNCHANGED <<get, answer, shownCluster, viewLoading, cards, crossed>>
      /\ 0..metrics \subseteq 0..metrics' /\ 1..metrics \subseteq 1..metrics'
    BY DEF Measures
<1>2. answer \in [Views -> 0..metrics'] /\ shownCluster \in [Views -> 0..metrics']
    BY <1>1
<1>3. LoadsAreSent' /\ AnswersAreRead' /\ CardsAreTheNodes'
    BY <1>1 DEF LoadsAreSent, AnswersAreRead, CardsAreTheNodes
<1>4. pushes \in Seq(1..metrics')
    BY <1>1
<1>5. CASE pushes' = Append(pushes, metrics + 1) /\ UNCHANGED missed
  <2>1. pushes' \in Seq(1..metrics') /\ Len(pushes') = Len(pushes) + 1
      BY <1>5, <1>4, <1>1
  <2>2. Received' = Received
      BY <2>1, <1>1 DEF Received
  <2>3. PushesAreNext'
    <3> SUFFICES ASSUME ~missed, NEW i \in 1..Len(pushes')
                 PROVE  Len(pushes') < metrics' /\ pushes'[i] = Received' + i
        BY <1>5, <1>1, <2>1 DEF PushesAreNext
    <3>1. Len(pushes') < metrics'
        BY <1>5, <1>1, <2>1 DEF PushesAreNext
    <3>2. CASE i = Len(pushes')
      <4>1. pushes'[i] = metrics' /\ Received' + i = metrics'
          BY <3>2, <1>5, <1>1, <2>1 DEF Received
      <4> QED BY <3>1, <4>1
    <3>3. CASE i # Len(pushes')
      <4>1. i \in 1..Len(pushes) /\ pushes'[i] = pushes[i]
          BY <3>3, <1>5, <2>1
      <4>2. pushes[i] = Received + i
          BY <4>1, <1>5 DEF PushesAreNext
      <4> QED BY <3>1, <4>1, <4>2, <2>2
    <3> QED BY <3>2, <3>3
  <2>4. ViewsKeepUp'
      BY <1>5, <1>1, <2>2 DEF ViewsKeepUp
  <2> QED BY <1>5, <1>1, <1>2, <1>3, <2>1, <2>3, <2>4
<1>6. CASE missed' = TRUE /\ UNCHANGED pushes
    BY <1>6, <1>1, <1>2, <1>3, <1>4 DEF PushesAreNext, ViewsKeepUp
<1> QED BY <1>5, <1>6 DEF Measures

\* The answers.
LEMMA AnswersKeepViews ==
    ASSUME WidgetsInv, NEW w \in Views,
           ServerAnswers(w) \/ AnswerArrives(w) \/ AnswerFails(w) \/ ViewRetry(w)
    PROVE  WidgetsInv'
<1> USE DEF WidgetsInv, ViewsTyped
<1>1. UNCHANGED <<metrics, pushes, missed>>
    BY DEF ServerAnswers, AnswerArrives, AnswerFails, ViewRetry
<1>2. PushesAreNext' /\ Received' = Received
    BY <1>1 DEF PushesAreNext, Received
<1>3. CASE ServerAnswers(w)
    BY <1>1, <1>2, <1>3
    DEF ServerAnswers, LoadsAreSent, AnswersAreRead, CardsAreTheNodes, ViewsKeepUp
<1>4. CASE AnswerArrives(w)
  <2>1. /\ get' = [get EXCEPT ![w] = "no"] /\ answer' = [answer EXCEPT ![w] = 0]
        /\ shownCluster' = [shownCluster EXCEPT ![w] = answer[w]]
        /\ viewLoading' = [x \in DOMAIN viewLoading |-> x # w /\ viewLoading[x]]
        /\ answer[w] \in 1..metrics
      BY <1>4 DEF AnswerArrives, AnswersAreRead
  <2>2. ViewsTyped'
      BY <2>1, <1>1
  <2>3. LoadsAreSent' /\ AnswersAreRead'
      BY <2>1 DEF LoadsAreSent, AnswersAreRead
  <2>4. CardsAreTheNodes'
    <3>1. CASE w = "cards"
        BY <3>1, <2>1, <1>4, MergeGivesTheNodes DEF AnswerArrives, CardsAreTheNodes
    <3>2. CASE w # "cards"
        BY <3>2, <2>1, <1>4 DEF AnswerArrives, CardsAreTheNodes, Views
    <3> QED BY <3>1, <3>2
  <2>5. ViewsKeepUp'
    <3> SUFFICES ASSUME ~missed, NEW x \in Views \ crossed'
                 PROVE  \/ shownCluster'[x] >= Received
                        \/ shownCluster'[x] = 0 /\ Received = 1
        BY <1>1, <1>2 DEF ViewsKeepUp
    <3>1. x \notin crossed /\ (x = w => answer[w] >= shownCluster[w])
        BY <1>4, <2>1 DEF AnswerArrives
    <3>2. Received \in Int
        BY DEF Received
    <3> QED BY <3>1, <3>2, <2>1 DEF ViewsKeepUp
  <2> QED BY <1>2, <2>2, <2>3, <2>4, <2>5
<1>5. CASE AnswerFails(w)
  <2>1. /\ get' = [get EXCEPT ![w] = "no"] /\ answer' = [answer EXCEPT ![w] = 0]
        /\ viewLoading' = [x \in DOMAIN viewLoading |-> x # w /\ viewLoading[x]]
        /\ UNCHANGED <<shownCluster, cards, crossed>>
      BY <1>5 DEF AnswerFails
  <2>2. ViewsTyped'
      BY <2>1, <1>1
  <2>3. LoadsAreSent' /\ AnswersAreRead'
      BY <2>1 DEF LoadsAreSent, AnswersAreRead
  <2>4. CardsAreTheNodes' /\ ViewsKeepUp'
      BY <2>1, <1>1, <1>2 DEF CardsAreTheNodes, ViewsKeepUp
  <2> QED BY <1>2, <2>2, <2>3, <2>4
<1>6. CASE ViewRetry(w)
    BY <1>1, <1>2, <1>6
    DEF ViewRetry, LoadsAreSent, AnswersAreRead, CardsAreTheNodes, ViewsKeepUp
<1> QED BY <1>3, <1>4, <1>5, <1>6

LEMMA UpdateKeepsViews ==
    ASSUME WidgetsInv, ClusterUpdate
    PROVE  WidgetsInv'
<1> USE DEF WidgetsInv, ViewsTyped
<1>1. /\ pushes # <<>> /\ pushes' = Tail(pushes) /\ MergeNodes(Head(pushes))
      /\ shownCluster' = [w \in Views |-> Head(pushes)]
      /\ viewLoading' = [w \in DOMAIN viewLoading |-> FALSE]
      /\ UNCHANGED <<metrics, get, answer, missed>>
    BY DEF ClusterUpdate
<1>2. /\ pushes' \in Seq(1..metrics) /\ Len(pushes') = Len(pushes) - 1
      /\ Head(pushes) \in 1..metrics /\ Head(pushes) = pushes[1] /\ Len(pushes) >= 1
      /\ \A i \in 1..Len(pushes') : pushes'[i] = pushes[i + 1] /\ i + 1 \in 1..Len(pushes)
    BY <1>1
<1>3. Received' = Received + 1 /\ Received \in Int
    BY <1>1, <1>2 DEF Received
<1>4. ViewsTyped'
    BY <1>1, <1>2
<1>5. LoadsAreSent' /\ AnswersAreRead'
    BY <1>1 DEF LoadsAreSent, AnswersAreRead
<1>6. CardsAreTheNodes'
  <2>1. shownCluster'["cards"] = Head(pushes)
      BY <1>1 DEF Views
  <2> QED BY <2>1, <1>1, MergeGivesTheNodes DEF CardsAreTheNodes
<1>7. PushesAreNext'
  <2> SUFFICES ASSUME ~missed
               PROVE  /\ Len(pushes') < metrics
                      /\ \A i \in 1..Len(pushes') : pushes'[i] = Received' + i
      BY <1>1 DEF PushesAreNext
  <2>1. Len(pushes') < metrics
      BY <1>1, <1>2 DEF PushesAreNext
  <2>2. ASSUME NEW i \in 1..Len(pushes')
        PROVE  pushes'[i] = Received' + i
    <3>1. pushes'[i] = pushes[i + 1] /\ i + 1 \in 1..Len(pushes)
        BY <1>2
    <3>2. pushes[i + 1] = Received + (i + 1)
        BY <3>1 DEF PushesAreNext
    <3> QED BY <3>1, <3>2, <1>3
  <2> QED BY <2>1, <2>2
<1>8. ViewsKeepUp'
  <2> SUFFICES ASSUME ~missed
               PROVE  Head(pushes) >= Received'
      BY <1>1 DEF ViewsKeepUp
  <2> QED BY <1>2, <1>3 DEF PushesAreNext
<1> QED BY <1>4, <1>5, <1>6, <1>7, <1>8

LEMMA WidgetsStep == WidgetsInv /\ [ViewsNext]_viewVars => WidgetsInv'
<1>. SUFFICES ASSUME WidgetsInv, [ViewsNext]_viewVars PROVE WidgetsInv'
    OBVIOUS
<1>1. CASE UNCHANGED viewVars
    BY <1>1 DEF viewVars, WidgetsInv, ViewsTyped, LoadsAreSent, AnswersAreRead,
       CardsAreTheNodes, PushesAreNext, ViewsKeepUp, Received
<1>. QED
    BY <1>1, MeasuresKeepsViews, AnswersKeepViews, UpdateKeepsViews DEF ViewsNext

\* The views of the cluster (ClusterStripComponent, WClusterOverviewComponent,
\* WKubernetesComponent): a view that loads has asked, the cards are the nodes of
\* the metrics last received, and the views agree once everything has arrived.
THEOREM WidgetsPromiseHolds == ViewsSpec => []WidgetsPromise
<1>1. WidgetsInv => WidgetsPromise
  <2> SUFFICES ASSUME WidgetsInv PROVE WidgetsPromise
      OBVIOUS
  <2> USE DEF WidgetsInv, ViewsTyped
  <2>1. LoadingIsRequested
      BY DEF LoadingIsRequested, Face, LoadsAreSent, Views
  <2>2. ViewsAgree
    <3> SUFFICES ASSUME pushes = <<>>, crossed = {}, ~missed, NEW w \in Views,
                        shownCluster[w] # 0
                 PROVE  shownCluster[w] = metrics
        BY DEF ViewsAgree
    <3>1. Received = metrics /\ shownCluster[w] >= Received /\ shownCluster[w] \in 0..metrics
        BY DEF ViewsKeepUp, Received
    <3> QED BY <3>1
  <2> QED BY <2>1, <2>2 DEF WidgetsPromise
<1> QED BY <1>1, ViewsStart, WidgetsStep, PTL DEF ViewsSpec

-----------------------------------------------------------------------------
(* The page of a pod's log.                                                *)

Subscription(p) == <<"SubscribeToPod", p>>
GivesUp(p) == <<"UnsubscribeFromPod", p>>

StreamTyped ==
    /\ selectedPod \in Pods \cup {NoPod}
    /\ link \in {"up", "starting", "down"}
    /\ calls \in Seq({"SubscribeToPod", "UnsubscribeFromPod"} \X Pods)
    /\ waiting \in Seq(Pods)
    /\ link # "up" => calls = <<>>
    /\ link = "down" => unserved

\* p is subscribed, or is going to be, and nothing on its way ends that.
Streamed(p) ==
    \/ /\ p \in subscribed
       /\ \A j \in 1..Len(calls) : calls[j] # GivesUp(p)
    \/ \E i \in 1..Len(calls) :
          /\ calls[i] = Subscription(p)
          /\ \A j \in (i + 1)..Len(calls) : calls[j] # GivesUp(p)

SelectionInv ==
    selectedPod # NoPod /\ ~unserved =>
        IF link = "up" THEN Streamed(selectedPod)
        ELSE \E i \in 1..Len(waiting) : waiting[i] = selectedPod

LogsInv == StreamTyped /\ SelectionInv /\ LoadingIsUnderWay

LEMMA LogsStart == PageInit => LogsInv
BY PageAssumption
DEF PageInit, LogsInv, StreamTyped, SelectionInv, LoadingIsUnderWay

LEMMA RequestsKeepLogs ==
    ASSUME LogsInv, NEW r \in requests,
           ServerReads(r) \/ TailArrives(r) \/ TailFails(r)
    PROVE  LogsInv'
<1>1. UNCHANGED <<selectedPod, stream>>
    BY DEF ServerReads, TailArrives, TailFails
<1>2. StreamTyped' /\ SelectionInv'
    BY <1>1 DEF LogsInv, StreamTyped, SelectionInv, Streamed, stream
<1>3. CASE ServerReads(r)
  <2> DEFINE s == Response(r, Tail_(r.pod, r.lines))
  <2>1. requests' = (requests \ {r}) \cup {s} /\ UNCHANGED loadingMore
      BY <1>3 DEF ServerReads
  <2>2. s.loadOlder = r.loadOlder
      BY DEF Response
  <2> HIDE DEF s
  <2>3. LoadingIsUnderWay'
      BY <2>1, <2>2 DEF LogsInv, LoadingIsUnderWay
  <2> QED BY <1>2, <2>3 DEF LogsInv
<1>4. CASE TailArrives(r)
  <2>1. requests' = requests \ {r} /\ loadingMore' = (loadingMore /\ ~r.loadOlder)
      BY <1>4 DEF TailArrives
  <2>2. LoadingIsUnderWay'
      BY <2>1 DEF LogsInv, LoadingIsUnderWay
  <2> QED BY <1>2, <2>2 DEF LogsInv
<1>5. CASE TailFails(r)
    BY <1>5, <1>2 DEF TailFails, LogsInv, LoadingIsUnderWay
<1> QED BY <1>3, <1>4, <1>5

\* What the user does without another pod.
LEMMA ViewKeepsLogs ==
    ASSUME LogsInv,
           \/ \E range \in Ranges : OnRangeSelect(range)
           \/ OnPodClear \/ LoadOlder \/ Reload \/ Clear
           \/ \E p \in Pods, c \in Containers : Writes(p, c)
           \/ \E p \in Pods : \E k \in unsent[p] : AppendLogs(p, k)
    PROVE  LogsInv'
<1> DEFINE Kept == /\ UNCHANGED <<link, calls, waiting, subscribed, unserved>>
                   /\ selectedPod' = selectedPod \/ selectedPod' = NoPod
           Waits == \/ requests \subseteq requests' /\ UNCHANGED loadingMore
                    \/ \E s \in requests' : s.loadOlder
<1>1. Kept
  <2>1. (\E range \in Ranges : OnRangeSelect(range)) => Kept
      BY DEF OnRangeSelect, stream
  <2>2. OnPodClear \/ LoadOlder \/ Reload \/ Clear => Kept
      BY DEF OnPodClear, LoadOlder, Reload, Clear, stream
  <2>3. ASSUME NEW p \in Pods, NEW c \in Containers, Writes(p, c)
        PROVE  Kept
      BY <2>3 DEF Writes
  <2>4. ASSUME NEW p \in Pods, NEW k \in unsent[p], AppendLogs(p, k)
        PROVE  Kept
      BY <2>4 DEF AppendLogs
  <2> QED BY <2>1, <2>2, <2>3, <2>4
<1>2. StreamTyped' /\ SelectionInv'
    BY <1>1 DEF LogsInv, StreamTyped, SelectionInv, Streamed
<1>3. \A p, n, range : Request(p, n, range, TRUE).loadOlder
    BY DEF Request
<1>4. Waits
  <2>1. ASSUME NEW range \in Ranges, OnRangeSelect(range)
        PROVE  Waits
      BY <2>1 DEF OnRangeSelect, FetchTail
  <2>2. CASE LoadOlder
      BY <2>2, <1>3 DEF LoadOlder, FetchTail
  <2>3. OnPodClear \/ Reload \/ Clear => Waits
      BY DEF OnPodClear, Reload, Clear, FetchTail
  <2>4. ASSUME NEW p \in Pods, NEW c \in Containers, Writes(p, c)
        PROVE  Waits
      BY <2>4 DEF Writes
  <2>5. ASSUME NEW p \in Pods, NEW k \in unsent[p], AppendLogs(p, k)
        PROVE  Waits
      BY <2>5 DEF AppendLogs
  <2> QED BY <2>1, <2>2, <2>3, <2>4, <2>5
<1>5. LoadingIsUnderWay'
    BY <1>4 DEF LogsInv, LoadingIsUnderWay
<1> QED BY <1>2, <1>5 DEF LogsInv

LEMMA SelectKeepsLogs ==
    ASSUME LogsInv, NEW p \in Pods, OnPodSelect(p)
    PROVE  LogsInv'
<1> USE DEF LogsInv, StreamTyped
<1>1. /\ selectedPod' = p /\ UNCHANGED <<link, subscribed, loadingMore>>
      /\ requests \subseteq requests'
    BY DEF OnPodSelect, FetchTail
<1>2. LoadingIsUnderWay'
    BY <1>1 DEF LoadingIsUnderWay
<1>3. CASE link = "up"
  <2>1. /\ calls' = calls \o <<GivesUp(p), Subscription(p)>> /\ UNCHANGED waiting
        /\ GivesUp(p) \in {"SubscribeToPod", "UnsubscribeFromPod"} \X Pods
        /\ Subscription(p) \in {"SubscribeToPod", "UnsubscribeFromPod"} \X Pods
      BY <1>3 DEF OnPodSelect, Invocations, GivesUp, Subscription
  <2>2. /\ calls' \in Seq({"SubscribeToPod", "UnsubscribeFromPod"} \X Pods)
        /\ Len(calls') = Len(calls) + 2
        /\ calls'[Len(calls) + 2] = Subscription(p)
      BY <2>1
  <2>3. Streamed(p)'
    <3>1. /\ Len(calls) + 2 \in 1..Len(calls')
          /\ \A j \in (Len(calls) + 2 + 1)..Len(calls') : FALSE
        BY <2>2
    <3> QED BY <2>2, <3>1 DEF Streamed, Subscription, GivesUp
  <2> QED BY <1>1, <1>2, <1>3, <2>1, <2>2, <2>3 DEF SelectionInv
<1>4. CASE link = "starting"
  <2>1. waiting' = Append(waiting, p) /\ UNCHANGED calls
      BY <1>4 DEF OnPodSelect
  <2>2. waiting' \in Seq(Pods) /\ Len(waiting') = Len(waiting) + 1
        /\ waiting'[Len(waiting) + 1] = p
      BY <2>1
  <2> QED BY <1>1, <1>2, <1>4, <2>1, <2>2 DEF SelectionInv
<1>5. CASE link = "down"
  <2>1. unserved' = TRUE /\ UNCHANGED <<calls, waiting>>
      BY <1>5 DEF OnPodSelect
  <2> QED BY <1>1, <1>2, <1>5, <2>1 DEF SelectionInv
<1> QED BY <1>3, <1>4, <1>5

LEMMA LeaveKeepsLogs ==
    ASSUME LogsInv, LeaveAndReturn
    PROVE  LogsInv'
<1> USE DEF LogsInv, StreamTyped
<1>1. /\ selectedPod' = NoPod /\ loadingMore' = FALSE
      /\ UNCHANGED <<link, waiting, unserved>>
      /\ calls' = IF link = "up" THEN Append(calls, GivesUp(selectedPod)) ELSE calls
      /\ GivesUp(selectedPod) \in {"SubscribeToPod", "UnsubscribeFromPod"} \X Pods
    BY DEF LeaveAndReturn, GivesUp
<1>2. calls' \in Seq({"SubscribeToPod", "UnsubscribeFromPod"} \X Pods)
    BY <1>1
<1> QED BY <1>1, <1>2 DEF SelectionInv, LoadingIsUnderWay

LEMMA HubKeepsLogs ==
    ASSUME LogsInv, HubHandles
    PROVE  LogsInv'
<1> USE DEF LogsInv, StreamTyped
<1> DEFINE q == Head(calls)[2]
<1>1. /\ calls # <<>> /\ calls' = Tail(calls)
      /\ UNCHANGED <<selectedPod, link, waiting, unserved, requests, loadingMore>>
    BY DEF HubHandles
<1>2. subscribed' = IF Head(calls)[1] = "SubscribeToPod" THEN subscribed \cup {q}
                    ELSE subscribed \ {q}
    BY DEF HubHandles
<1>3. /\ calls' \in Seq({"SubscribeToPod", "UnsubscribeFromPod"} \X Pods)
      /\ Len(calls') = Len(calls) - 1 /\ Len(calls) \in Nat /\ Len(calls) >= 1
      /\ \A j \in 1..Len(calls') : calls'[j] = calls[j + 1]
      /\ Head(calls) = calls[1] /\ q \in Pods
      /\ Head(calls) = Subscription(q) \/ Head(calls) = GivesUp(q)
    BY <1>1 DEF Subscription, GivesUp
<1>4. link = "up"
    BY <1>1
<1>5. SelectionInv'
  <2> SUFFICES ASSUME selectedPod # NoPod, ~unserved
               PROVE  Streamed(selectedPod)'
      BY <1>1, <1>4 DEF SelectionInv
  <2> DEFINE p == selectedPod
  <2>1. Subscription(q) # GivesUp(p) /\ Subscription(q)[1] = "SubscribeToPod"
        /\ GivesUp(q)[1] # "SubscribeToPod"
      BY DEF Subscription, GivesUp
  <2>2. (Subscription(q) = Subscription(p) => q = p) /\ (GivesUp(q) # GivesUp(p) => q # p)
      BY DEF Subscription, GivesUp
  <2>3. p' = p
      BY <1>1
  <2>4. ASSUME p \in subscribed, \A j \in 1..Len(calls) : calls[j] # GivesUp(p)
        PROVE  Streamed(p)'
    <3>1. p \in subscribed'
        BY <2>4, <1>2, <1>3, <2>1, <2>2, SMTT(30)
    <3>2. \A j \in 1..Len(calls') : calls'[j] # GivesUp(p)
        BY <2>4, <1>3
    <3> QED BY <2>3, <3>1, <3>2 DEF Streamed, GivesUp
  <2>5. ASSUME NEW i \in 1..Len(calls), calls[i] = Subscription(p),
               \A j \in (i + 1)..Len(calls) : calls[j] # GivesUp(p)
        PROVE  Streamed(p)'
    <3>1. CASE i = 1
      <4>1. p \in subscribed'
          BY <3>1, <2>5, <1>2, <1>3, <2>1, <2>2 DEF Subscription, GivesUp
      <4>2. \A j \in 1..Len(calls') : calls'[j] # GivesUp(p)
          BY <3>1, <2>5, <1>3
      <4> QED BY <2>3, <4>1, <4>2 DEF Streamed, GivesUp
    <3>2. CASE i # 1
      <4>1. i - 1 \in 1..Len(calls') /\ calls'[i - 1] = Subscription(p)
          BY <3>2, <2>5, <1>3
      <4>2. \A j \in ((i - 1) + 1)..Len(calls') : calls'[j] # GivesUp(p)
          BY <3>2, <2>5, <1>3
      <4> QED BY <2>3, <4>1, <4>2 DEF Streamed, GivesUp, Subscription
    <3> QED BY <3>1, <3>2
  <2>6. Streamed(p)
      BY <1>4 DEF SelectionInv
  <2> HIDE DEF p
  <2> QED BY <2>4, <2>5, <2>6 DEF Streamed, p
<1>6. LoadingIsUnderWay'
    BY <1>1 DEF LoadingIsUnderWay
<1> QED BY <1>1, <1>3, <1>4, <1>5, <1>6

LEMMA LinkKeepsLogs ==
    ASSUME LogsInv, LinkUp \/ LinkDown
    PROVE  LogsInv'
<1> USE DEF LogsInv, StreamTyped
<1>1. UNCHANGED <<selectedPod, requests, loadingMore>>
    BY DEF LinkUp, LinkDown
<1>2. LoadingIsUnderWay'
    BY <1>1 DEF LoadingIsUnderWay
<1>3. CASE LinkUp
  <2>1. /\ link # "up" /\ link' = "up" /\ UNCHANGED unserved /\ waiting' = <<>>
        /\ calls' = [i \in 1..Len(waiting) |-> Subscription(waiting[i])]
      BY <1>3 DEF LinkUp, Subscription
  <2>2. \A i \in 1..Len(waiting) :
           Subscription(waiting[i]) \in {"SubscribeToPod", "UnsubscribeFromPod"} \X Pods
      BY DEF Subscription
  <2>3. /\ calls' \in Seq({"SubscribeToPod", "UnsubscribeFromPod"} \X Pods)
        /\ Len(calls') = Len(waiting)
      BY <2>1, <2>2
  <2>4. SelectionInv'
    <3> SUFFICES ASSUME selectedPod # NoPod, ~unserved
                 PROVE  Streamed(selectedPod)'
        BY <1>1, <2>1 DEF SelectionInv
    <3>1. PICK i \in 1..Len(waiting) : waiting[i] = selectedPod
        BY <2>1 DEF SelectionInv
    <3>2. calls'[i] = Subscription(selectedPod)
        BY <3>1, <2>1
    <3>3. \A j \in 1..Len(calls') : calls'[j] # GivesUp(selectedPod)
        BY <2>1, <2>3 DEF Subscription, GivesUp
    <3>4. i \in 1..Len(calls') /\ \A j \in (i + 1)..Len(calls') : j \in 1..Len(calls')
        BY <2>3
    <3> QED BY <1>1, <3>2, <3>3, <3>4 DEF Streamed, Subscription, GivesUp
  <2> QED BY <1>1, <1>2, <2>1, <2>3, <2>4
<1>4. CASE LinkDown
    BY <1>1, <1>2, <1>4 DEF LinkDown, SelectionInv
<1> QED BY <1>3, <1>4

-----------------------------------------------------------------------------
(* What the page of a pod's log shows.                                      *)

FeedRows(T) == [kind : {"date", "log"}, of : T]
LogRows(feed) == {i \in DOMAIN feed : feed[i].kind = "log"}
DayAt(feed, i) == DayOf(feed[i].of)

\* The feed shows the first n of the lines, each below a divider of its day or
\* a line of that day.
Shows(feed, lines, n) ==
    /\ Cardinality(LogRows(feed)) = n
    /\ \A i \in LogRows(feed) : feed[i].of = lines[RankIn(LogRows(feed), i)]
    /\ feed # <<>> => feed[Len(feed)].kind = "log"
    /\ \A i \in DOMAIN feed :
          IF feed[i].kind = "date"
            THEN /\ i = 1 \/ DayAt(feed, i - 1) # DayAt(feed, i)
                 /\ feed[i + 1].kind = "log"
            ELSE i > 1 /\ DayAt(feed, i - 1) = DayAt(feed, i)

LEMMA LogRowsAreFinite ==
    ASSUME NEW T, NEW feed \in Seq(FeedRows(T))
    PROVE  LogRows(feed) \in SUBSET (1..Len(feed)) /\ IsFiniteSet(LogRows(feed))
<1>1. LogRows(feed) \subseteq 1..Len(feed)
    BY DEF LogRows
<1>. QED
    BY <1>1, FS_Interval, FS_Subset

LEMMA LineIsCounted ==
    ASSUME NEW T, NEW feed \in Seq(FeedRows(T)), NEW new \in Seq(FeedRows(T)),
           NEW lines \in Seq(T), NEW n \in 1..Len(lines), Shows(feed, lines, n - 1),
           NEW m \in 1..Len(new), m > Len(feed), m = Len(new),
           \A i \in 1..Len(feed) : new[i] = feed[i],
           \A i \in (Len(feed) + 1)..(m - 1) : new[i].kind = "date",
           new[m] = [kind |-> "log", of |-> lines[n]]
    PROVE  /\ Cardinality(LogRows(new)) = n
           /\ \A i \in LogRows(new) : new[i].of = lines[RankIn(LogRows(new), i)]
<1>1. LogRows(new) = LogRows(feed) \cup {m}
  <2>1. DOMAIN new = 1..Len(new) /\ DOMAIN feed = 1..Len(feed) /\ Len(feed) \in Nat
      OBVIOUS
  <2>2. \A i \in 1..Len(new) : i \in 1..Len(feed) \/ i \in (Len(feed) + 1)..(m - 1) \/ i = m
      OBVIOUS
  <2>3. new[m].kind = "log" /\ \A i \in 1..Len(feed) : i \in 1..Len(new)
      OBVIOUS
  <2>. QED
      BY <2>1, <2>2, <2>3 DEF LogRows
<1>2. /\ LogRows(feed) \in SUBSET Int /\ IsFiniteSet(LogRows(feed))
      /\ \A i \in LogRows(feed) : i < m /\ i \in 1..Len(feed)
      /\ m \in Int
    BY LogRowsAreFinite
<1>3. /\ Cardinality(LogRows(new)) = Cardinality(LogRows(feed)) + 1
      /\ \A i \in LogRows(feed) : RankIn(LogRows(new), i) = RankIn(LogRows(feed), i)
      /\ RankIn(LogRows(new), m) = Cardinality(LogRows(feed)) + 1
  <2> DEFINE K == LogRows(feed)
  <2>1. \A i \in K : i < m
      BY <1>2
  <2> HIDE DEF K
  <2>2. K \in SUBSET Int /\ IsFiniteSet(K)
      BY <1>2 DEF K
  <2>3. /\ Cardinality(K \cup {m}) = Cardinality(K) + 1
        /\ \A i \in K : RankIn(K \cup {m}, i) = RankIn(K, i)
        /\ RankIn(K \cup {m}, m) = Cardinality(K) + 1
      BY <1>2, <2>1, <2>2, RanksGrow
  <2>. QED
      BY <1>1, <2>3 DEF K
<1>4. Cardinality(LogRows(feed)) = n - 1
    BY DEF Shows
<1>5. \A i \in LogRows(feed) : new[i].of = lines[RankIn(LogRows(new), i)]
    BY <1>2, <1>3 DEF Shows
<1>6. new[m].of = lines[RankIn(LogRows(new), m)]
    BY <1>3, <1>4
<1>7. Cardinality(LogRows(new)) = n
    BY <1>3, <1>4
<1>. QED
    BY <1>1, <1>5, <1>6, <1>7, Zenon

LEMMA FeedStepShows ==
    ASSUME NEW T, NEW feed \in Seq(FeedRows(T)), NEW lines \in Seq(T),
           NEW n \in 1..Len(lines), Shows(feed, lines, n - 1)
    PROVE  /\ FeedStep(feed, lines[n]) \in Seq(FeedRows(T))
           /\ Shows(FeedStep(feed, lines[n]), lines, n)
<1> DEFINE l == lines[n]
           log == [kind |-> "log", of |-> l]
           date == [kind |-> "date", of |-> l]
           new == FeedStep(feed, l)
           L == Len(feed)
<1>1. l \in T /\ log \in FeedRows(T) /\ date \in FeedRows(T) /\ L \in Nat
    BY DEF FeedRows
<1>2. log.kind = "log" /\ log.of = l /\ date.kind = "date" /\ date.of = l
    OBVIOUS
<1>3. CASE feed # <<>> /\ DayOf(Last(feed).of) = DayOf(l)
  <2>1. new = Append(feed, log)
      BY <1>3 DEF FeedStep
  <2> HIDE DEF l, log, date, new
  <2>2. /\ new \in Seq(FeedRows(T)) /\ Len(new) = L + 1 /\ new[L + 1] = log
        /\ \A i \in 1..L : new[i] = feed[i]
      BY <1>1, <2>1
  <2>3. /\ Cardinality(LogRows(new)) = n
        /\ \A i \in LogRows(new) : new[i].of = lines[RankIn(LogRows(new), i)]
    <3>. DEFINE m == L + 1
    <3>1. /\ m \in 1..Len(new) /\ m > L
          /\ \A i \in (L + 1)..(m - 1) : new[i].kind = "date"
        BY <1>1, <2>2
    <3>. QED
      <4>1. new[m] = [kind |-> "log", of |-> lines[n]] /\ m = Len(new)
          BY <2>2 DEF l, log
      <4>2. /\ m \in 1..Len(new) /\ m > Len(feed)
            /\ \A i \in (Len(feed) + 1)..(m - 1) : new[i].kind = "date"
            /\ \A i \in 1..Len(feed) : new[i] = feed[i]
            /\ new \in Seq(FeedRows(T))
          BY <2>2, <3>1
      <4>. HIDE DEF L, m
      <4>. QED
          BY <4>1, <4>2, LineIsCounted, SMTT(30)
  <2>4. L > 0 /\ Last(feed) = feed[L] /\ L \in 1..L
      BY <1>1, <1>3 DEF Last
  <2>5. ASSUME NEW i \in 1..L
        PROVE  IF new[i].kind = "date"
                 THEN /\ i = 1 \/ DayAt(new, i - 1) # DayAt(new, i)
                      /\ new[i + 1].kind = "log"
                 ELSE i > 1 /\ DayAt(new, i - 1) = DayAt(new, i)
    <3>1. i = 1 \/ i - 1 \in 1..L
        BY <1>1
    <3>2. new[i] = feed[i] /\ (i # 1 => new[i - 1] = feed[i - 1])
        BY <2>2, <3>1
    <3>3. i = L \/ new[i + 1] = feed[i + 1]
        BY <1>1, <2>2
    <3>4. new[L + 1].kind = "log"
        BY <2>2, <1>2
    <3>5. IF feed[i].kind = "date"
            THEN /\ i = 1 \/ DayAt(feed, i - 1) # DayAt(feed, i)
                 /\ feed[i + 1].kind = "log"
            ELSE i > 1 /\ DayAt(feed, i - 1) = DayAt(feed, i)
        BY SMTT(30) DEF Shows
    <3>6. i > 1 => i # 1
        BY <1>1
    <3>. QED
        BY <3>2, <3>3, <3>4, <3>5, <3>6 DEF DayAt
  <2>6. new[L + 1].kind # "date" /\ L + 1 > 1 /\ DayAt(new, (L + 1) - 1) = DayAt(new, L + 1)
    <3>1. (L + 1) - 1 = L /\ new[L] = feed[L] /\ L + 1 > 1
        BY <1>1, <2>2, <2>4
    <3>. QED
        BY <1>2, <1>3, <2>2, <2>4, <3>1 DEF DayAt
  <2>7. \A i \in DOMAIN new : i \in 1..L \/ i = L + 1
      BY <1>1, <2>2
  <2>8. new[Len(new)].kind = "log"
      BY <1>2, <2>2
  <2>. QED
      BY <2>2, <2>3, <2>5, <2>6, <2>7, <2>8 DEF Shows, new, l
<1>4. CASE ~(feed # <<>> /\ DayOf(Last(feed).of) = DayOf(l))
  <2>1. new = feed \o <<date, log>>
      BY <1>4 DEF FeedStep
  <2> HIDE DEF l, log, date, new
  <2>2. /\ new \in Seq(FeedRows(T)) /\ Len(new) = L + 2
        /\ new[L + 1] = date /\ new[L + 2] = log
        /\ \A i \in 1..L : new[i] = feed[i]
    <3>1. <<date, log>> \in Seq(FeedRows(T)) /\ Len(<<date, log>>) = 2
        BY <1>1
    <3>2. new \in Seq(FeedRows(T)) /\ Len(new) = L + 2
        BY <2>1, <3>1
    <3>3. \A i \in 1..L : new[i] = feed[i]
        BY <2>1, <3>1
    <3>4. new[L + 1] = date /\ new[L + 2] = log
        BY <2>1, <3>1, <1>1
    <3>. QED
        BY <3>2, <3>3, <3>4
  <2>3. /\ Cardinality(LogRows(new)) = n
        /\ \A i \in LogRows(new) : new[i].of = lines[RankIn(LogRows(new), i)]
    <3>. DEFINE m == L + 2
    <3>1. /\ m \in 1..Len(new) /\ m > L
          /\ \A i \in (L + 1)..(m - 1) : new[i].kind = "date"
      <4>1. \A i \in (L + 1)..(m - 1) : i = L + 1
          BY <1>1
      <4>. QED
          BY <1>1, <1>2, <2>2, <4>1
    <3>. QED
      <4>1. new[m] = [kind |-> "log", of |-> lines[n]] /\ m = Len(new)
          BY <2>2 DEF l, log
      <4>2. /\ m \in 1..Len(new) /\ m > Len(feed)
            /\ \A i \in (Len(feed) + 1)..(m - 1) : new[i].kind = "date"
            /\ \A i \in 1..Len(feed) : new[i] = feed[i]
            /\ new \in Seq(FeedRows(T))
          BY <2>2, <3>1
      <4>. HIDE DEF L, m
      <4>. QED
          BY <4>1, <4>2, LineIsCounted, SMTT(30)
  <2>4. L + 1 = 1 \/ DayAt(new, (L + 1) - 1) # DayAt(new, L + 1)
    <3>1. L = 0 \/ (L # 0 /\ feed # <<>> /\ L \in 1..L)
        BY <1>1
    <3>2. L # 0 => Last(feed) = feed[L] /\ new[L] = feed[L] /\ DayOf(Last(feed).of) # DayOf(l)
        BY <1>4, <2>2, <3>1 DEF Last
    <3>3. (L + 1) - 1 = L /\ (L = 0 => L + 1 = 1)
        BY <1>1
    <3>. QED
        BY <1>2, <2>2, <3>1, <3>2, <3>3 DEF DayAt
  <2>5. ASSUME NEW i \in 1..L
        PROVE  IF new[i].kind = "date"
                 THEN /\ i = 1 \/ DayAt(new, i - 1) # DayAt(new, i)
                      /\ new[i + 1].kind = "log"
                 ELSE i > 1 /\ DayAt(new, i - 1) = DayAt(new, i)
    <3>1. i = 1 \/ i - 1 \in 1..L
        BY <1>1
    <3>2. new[i] = feed[i] /\ (i # 1 => new[i - 1] = feed[i - 1])
        BY <2>2, <3>1
    <3>3. i = L \/ new[i + 1] = feed[i + 1]
        BY <1>1, <2>2
    <3>4. feed # <<>> /\ feed[L].kind = "log" /\ "log" # "date"
        BY <1>1 DEF Shows
    <3>5. IF feed[i].kind = "date"
            THEN /\ i = 1 \/ DayAt(feed, i - 1) # DayAt(feed, i)
                 /\ feed[i + 1].kind = "log"
            ELSE i > 1 /\ DayAt(feed, i - 1) = DayAt(feed, i)
        BY SMTT(30) DEF Shows
    <3>6. i > 1 => i # 1
        BY <1>1
    <3>. QED
        BY <3>2, <3>3, <3>4, <3>5, <3>6 DEF DayAt
  <2>6. new[L + 2].kind = "log" /\ L + 2 > 1 /\ DayAt(new, (L + 2) - 1) = DayAt(new, L + 2)
    <3>1. (L + 2) - 1 = L + 1 /\ L + 2 > 1
        BY <1>1
    <3>. QED
        BY <1>2, <2>2, <3>1 DEF DayAt
  <2>7. new[L + 1].kind = "date" /\ new[(L + 1) + 1].kind = "log"
    <3>1. (L + 1) + 1 = L + 2
        BY <1>1
    <3>. QED
        BY <1>2, <2>2, <3>1
  <2>8. \A i \in DOMAIN new : i \in 1..L \/ i = L + 1 \/ i = L + 2
      BY <1>1, <2>2
  <2>9. new[Len(new)].kind = "log" /\ "log" # "date"
      BY <1>2, <2>2
  <2>10. ASSUME NEW i \in DOMAIN new
         PROVE  IF new[i].kind = "date"
                 THEN /\ i = 1 \/ DayAt(new, i - 1) # DayAt(new, i)
                      /\ new[i + 1].kind = "log"
                 ELSE i > 1 /\ DayAt(new, i - 1) = DayAt(new, i)
    <3>1. CASE i \in 1..L
        BY <2>5, <3>1
    <3>2. CASE i = L + 1
        BY <2>4, <2>7, <3>2
    <3>3. CASE i = L + 2
        BY <2>6, <2>9, <3>3
    <3>. QED
        BY <2>8, <3>1, <3>2, <3>3
  <2>. QED
      BY <2>2, <2>3, <2>9, <2>10 DEF Shows, new, l
<1>. QED
    BY <1>3, <1>4

LEMMA FeedStepTyped ==
    ASSUME NEW T, NEW feed \in Seq(FeedRows(T)), NEW l \in T
    PROVE  FeedStep(feed, l) \in Seq(FeedRows(T))
<1> DEFINE log == [kind |-> "log", of |-> l]
           date == [kind |-> "date", of |-> l]
<1>1. log \in FeedRows(T) /\ date \in FeedRows(T)
    BY DEF FeedRows
<1>2. FeedStep(feed, l) = Append(feed, log) \/ FeedStep(feed, l) = feed \o <<date, log>>
    BY DEF FeedStep
<1> HIDE DEF log, date
<1>3. <<date, log>> \in Seq(FeedRows(T))
    BY <1>1
<1>4. Append(feed, log) \in Seq(FeedRows(T)) /\ feed \o <<date, log>> \in Seq(FeedRows(T))
    BY <1>1, <1>3
<1>. QED
    BY <1>2, <1>4

\* The feed of any lines shows them all.
LEMMA FeedShows ==
    ASSUME NEW T, NEW lines \in Seq(T)
    PROVE  FeedOf(lines) \in Seq(FeedRows(T)) /\ Shows(FeedOf(lines), lines, Len(lines))
<1> DEFINE N == Len(lines)
           R == Seq(FeedRows(T))
           Body(f, n) == IF n = 0 THEN <<>> ELSE FeedStep(f[n - 1], lines[n])
           Equation(f) == f = [n \in 0..N |-> Body(f, n)]
           rows == CHOOSE f : Equation(f)
           next == [x \in R \X (1..N) |-> FeedStep(x[1], lines[x[2]])]
<1>1. N \in Nat
    OBVIOUS
<1>2. FeedOf(lines) = rows[N]
    BY DEF FeedOf
<1>3. next \in [R \X (1..N) -> R]
  <2>1. \A n \in 1..N : lines[n] \in T
      OBVIOUS
  <2>2. \A x \in R \X (1..N) : FeedStep(x[1], lines[x[2]]) \in R
      BY <2>1, FeedStepTyped
  <2>. QED
      BY <2>2
<1>4. <<>> \in R
    OBVIOUS
<1>5. \E f : Equation(f)
  <2>. HIDE DEF next, N, R
  <2>1. PICK f : Loop(N, R, <<>>, next, f)
      BY <1>1, <1>3, <1>4, LoopExists
  <2>2. ASSUME NEW n \in 1..N PROVE f[n] = FeedStep(f[n - 1], lines[n])
    <3>1. n - 1 \in 0..N
        BY <1>1
    <3>2. f[n - 1] \in R /\ f[n] = next[<<f[n - 1], n>>]
        BY <2>1, <3>1 DEF Loop
    <3>. QED
        BY <3>2 DEF next
  <2>3. f \in [0..N -> R] /\ f[0] = <<>>
      BY <2>1 DEF Loop
  <2>4. \A n \in 0..N : n = 0 \/ n \in 1..N
      BY <1>1
  <2>5. \A n \in 0..N : f[n] = Body(f, n)
      BY <2>2, <2>3, <2>4
  <2>. HIDE DEF Body
  <2>6. f = [n \in 0..N |-> Body(f, n)]
      BY <2>3, <2>5
  <2>. QED
      BY <2>6
<1>. HIDE DEF Equation
<1>6. Equation(rows)
    BY <1>5
<1>. HIDE DEF rows, next, Body
<1>7. \A n \in 0..N : rows[n] = Body(rows, n)
    BY <1>6 DEF Equation
<1>. DEFINE Good == {n \in Nat : n <= N => rows[n] \in R /\ Shows(rows[n], lines, n)}
<1>8. 0 \in Good
  <2>1. rows[0] = <<>>
      BY <1>1, <1>7 DEF Body
  <2>2. LogRows(<<>>) = {} /\ DOMAIN <<>> = {}
      BY DEF LogRows
  <2>3. Shows(<<>>, lines, 0)
      BY <2>2, FS_EmptySet DEF Shows
  <2>. QED
      BY <1>4, <2>1, <2>3
<1>9. ASSUME NEW n \in Nat, n \in Good PROVE n + 1 \in Good
  <2> SUFFICES ASSUME n + 1 <= N
               PROVE  rows[n + 1] \in R /\ Shows(rows[n + 1], lines, n + 1)
      OBVIOUS
  <2>1. n + 1 \in 0..N /\ n + 1 \in 1..N /\ n + 1 # 0 /\ (n + 1) - 1 = n /\ n <= N
      BY <1>1
  <2>2. rows[n + 1] = FeedStep(rows[n], lines[n + 1])
      BY <1>7, <2>1 DEF Body
  <2>3. rows[n] \in R /\ Shows(rows[n], lines, n)
      BY <1>9, <2>1
  <2>. HIDE DEF Good
  <2>. QED
      BY <2>1, <2>2, <2>3, FeedStepShows
<1>. HIDE DEF Good
<1>10. N \in Good
    BY <1>1, <1>8, <1>9, InductionOverNat
<1>. QED
    BY <1>1, <1>2, <1>10 DEF Good

\* PodLogsPageComponent.feed: whatever the levels, each visible line is shown, from
\* the last to the first, with its day.
LEMMA FeedHasAllLines ==
    ASSUME NEW T, logs \in Seq(T)
    PROVE  FeedIsComplete
<1> SUFFICES ASSUME NEW levels
             PROVE  LET feed == Feed(levels)
                        OfDay(i) == DayOf(feed[i].of)
                        lines == Picked(feed, {i \in DOMAIN feed : feed[i].kind = "log"})
                    IN  /\ [i \in DOMAIN lines |-> lines[i].of] = Reverse(VisibleLogs(levels))
                        /\ \A i \in DOMAIN feed :
                              IF feed[i].kind = "date"
                                THEN /\ i = 1 \/ OfDay(i - 1) # OfDay(i)
                                     /\ feed[i + 1].kind = "log"
                                ELSE i > 1 /\ OfDay(i - 1) = OfDay(i)
    BY DEF FeedIsComplete
<1> DEFINE feed == Feed(levels)
           K == LogRows(feed)
           lines == Picked(feed, K)
           visible == VisibleLogs(levels)
           back == Reverse(visible)
<1>1. visible \in Seq(T)
  <2> DEFINE at == {i \in DOMAIN logs : /\ LevelOf(logs[i]) \in SelectedLevels(levels)
                                        /\ selectedRange = "seconds" => Recent(logs[i])}
  <2>1. visible = Picked(logs, at)
      BY DEF VisibleLogs
  <2>2. DOMAIN logs = 1..Len(logs) /\ Len(logs) \in Nat
      OBVIOUS
  <2>3. at \in SUBSET (1..Len(logs))
      BY <2>2
  <2>. HIDE DEF at
  <2>4. IsFiniteSet(at)
    <3>1. IsFiniteSet(1..Len(logs))
        BY <2>2, FS_Interval
    <3>. QED
        BY <2>3, <3>1, FS_Subset
  <2>5. at \in SUBSET Int /\ \A i \in at : logs[i] \in T
      BY <2>2, <2>3
  <2>. QED
      BY <2>1, <2>4, <2>5, PickedFacts
<1>. HIDE DEF visible
<1>2. back \in Seq(T) /\ Len(back) \in Nat /\ DOMAIN back = 1..Len(back)
  <2>1. back = [i \in 1..Len(visible) |-> visible[(Len(visible) - i) + 1]]
      BY DEF Reverse
  <2>2. \A i \in 1..Len(visible) : visible[(Len(visible) - i) + 1] \in T
      BY <1>1
  <2>. QED
      BY <1>1, <2>1, <2>2
<1>3. feed = FeedOf(back)
    BY DEF Feed, visible
<1>. HIDE DEF back, feed
<1>4. feed \in Seq(FeedRows(T)) /\ Shows(feed, back, Len(back))
    BY <1>2, <1>3, FeedShows
<1>5. K \in SUBSET Int /\ IsFiniteSet(K) /\ Cardinality(K) = Len(back)
    BY <1>4, LogRowsAreFinite DEF Shows
<1>6. \A i \in K : feed[i] \in FeedRows(T)
    BY <1>4 DEF LogRows
<1>7. \A i \in K : feed[i].of = back[RankIn(K, i)]
    BY <1>4 DEF Shows
<1>. HIDE DEF K
<1>8. /\ Len(lines) = Len(back) /\ lines \in Seq(FeedRows(T))
      /\ \A k \in 1..Len(back) : lines[k] = feed[Nth(K, k)]
    BY <1>5, <1>6, PickedFacts
<1>9. \A k \in 1..Len(back) : lines[k].of = back[k]
    BY <1>5, <1>7, <1>8, NthFacts
<1>. HIDE DEF lines
<1>10. [i \in DOMAIN lines |-> lines[i].of] = back
  <2>1. DOMAIN lines = 1..Len(back)
      BY <1>8
  <2>2. back = [i \in 1..Len(back) |-> back[i]]
      BY <1>2
  <2>. QED
      BY <1>9, <2>1, <2>2
<1>11. \A i \in DOMAIN feed :
          IF feed[i].kind = "date"
            THEN /\ i = 1 \/ DayOf(feed[i - 1].of) # DayOf(feed[i].of)
                 /\ feed[i + 1].kind = "log"
            ELSE i > 1 /\ DayOf(feed[i - 1].of) = DayOf(feed[i].of)
    BY <1>4 DEF Shows, DayAt
<1>. QED
    BY <1>10, <1>11 DEF lines, K, LogRows, feed, back, visible

-----------------------------------------------------------------------------
(* The types of the page: logs and answers are lines of the pods.           *)

MostLines == Max({MaxLines, Max({MaxTail, MaxNew}) * Cardinality(Containers)})

LinesTyped ==
    /\ written \in [Pods -> Seq(Containers)]
    /\ \A p \in Pods : /\ IsPrefix(Old[p], written[p])
                       /\ Len(written[p]) <= Len(Old[p]) + MaxNew
    /\ tailLineCount \in 0..MaxTail
    /\ logs \in Seq(Lines) /\ Len(logs) <= MostLines
    /\ \A r \in requests : IF r.read THEN r.logs \in Seq(Lines) /\ Len(r.logs) <= MostLines
                                       ELSE r.pod \in Pods /\ r.lines \in 0..MaxTail

FlagsTyped ==
    /\ selectedRange \in Ranges
    /\ loadingMore \in BOOLEAN /\ noMoreOlder \in BOOLEAN /\ unserved \in BOOLEAN

UnsentTyped ==
    /\ unsent \in [Pods -> SUBSET Nat]
    /\ subscribed \subseteq Pods
    /\ link # "up" => subscribed = {}
    /\ \A p \in Pods : /\ unsent[p] \subseteq 1..Len(written[p])
                       /\ p \notin subscribed => unsent[p] = {}

LEMMA MaxOfTwo ==
    ASSUME NEW a \in Int, NEW b \in Int
    PROVE  Max({a, b}) \in {a, b} /\ a <= Max({a, b}) /\ b <= Max({a, b})
<1>1. \E x \in {a, b} : \A y \in {a, b} : x >= y
  <2>1. CASE a >= b
      BY <2>1
  <2>2. CASE b >= a
      BY <2>2
  <2>. QED
      BY <2>1, <2>2
<1>2. Max({a, b}) \in {a, b} /\ \A y \in {a, b} : Max({a, b}) >= y
    BY <1>1, Zenon DEF Max
<1>. QED
    BY <1>2

LEMMA PageConstants ==
    /\ {MaxNew, MaxTail, MaxLines, InitialTail, LoadMoreChunk} \subseteq Nat
    /\ MaxTail > 0 /\ MaxLines > 0 /\ InitialTail <= MaxTail
    /\ Cardinality(Containers) \in Nat
    /\ Max({MaxTail, MaxNew}) \in Nat
    /\ MaxTail <= Max({MaxTail, MaxNew}) /\ MaxNew <= Max({MaxTail, MaxNew})
    /\ MostLines \in Nat /\ MaxLines <= MostLines
    /\ Max({MaxTail, MaxNew}) * Cardinality(Containers) <= MostLines
    /\ \A p \in Pods : Old[p] \in Seq(Containers) /\ Len(Old[p]) \in Nat
<1>1. /\ {MaxNew, MaxTail, MaxLines, InitialTail, LoadMoreChunk} \subseteq Nat
      /\ MaxTail > 0 /\ MaxLines > 0 /\ InitialTail <= MaxTail
    BY PageAssumption
<1>2. Cardinality(Containers) \in Nat
    BY PageAssumption, FS_CardinalityType
<1>3. /\ Max({MaxTail, MaxNew}) \in Nat
      /\ MaxTail <= Max({MaxTail, MaxNew}) /\ MaxNew <= Max({MaxTail, MaxNew})
    BY <1>1, MaxOfTwo
<1> DEFINE most == Max({MaxTail, MaxNew}) * Cardinality(Containers)
<1>4. most \in Nat
    BY <1>2, <1>3
<1>5. MostLines = Max({MaxLines, most})
    BY DEF MostLines
<1> HIDE DEF most
<1>6. MostLines \in Nat /\ MaxLines <= MostLines /\ most <= MostLines
    BY <1>1, <1>4, <1>5, MaxOfTwo
<1>7. \A p \in Pods : Old[p] \in Seq(Containers) /\ Len(Old[p]) \in Nat
    BY PageAssumption
<1>. QED
    BY <1>1, <1>2, <1>3, <1>6, <1>7 DEF most

LEMMA LastOfFacts ==
    ASSUME NEW T, NEW s \in Seq(T), NEW n \in Nat, n > 0
    PROVE  LastOf(s, n) \in Seq(T) /\ Len(LastOf(s, n)) <= n
<1>1. CASE Len(s) <= n
    BY <1>1 DEF LastOf
<1>2. CASE ~(Len(s) <= n)
  <2>1. LastOf(s, n) = SubSeq(s, Len(s) - n + 1, Len(s))
      BY <1>2 DEF LastOf
  <2>2. Len(s) \in Nat /\ Len(s) - n + 1 \in 1..Len(s)
      BY <1>2
  <2>. QED
      BY <2>1, <2>2
<1>. QED
    BY <1>1, <1>2

\* The tail of a container is lines of the pod, and not too many.
LEMMA LinesOfFacts ==
    ASSUME NEW p \in Pods, NEW c, NEW n \in 0..MaxTail, LinesTyped
    PROVE  LinesOf(p, c, n) \in Seq(Lines) /\ Len(LinesOf(p, c, n)) <= Max({MaxTail, MaxNew})
<1> DEFINE wanted == {k \in 1..Len(written[p]) :
                        written[p][k] = c /\ (n = 0 => Recent(<<p, k>>))}
           lines == [i \in 1..Cardinality(wanted) |-> <<p, Nth(wanted, i)>>]
<1>1. LinesOf(p, c, n) = IF n = 0 THEN lines ELSE LastOf(lines, n)
    BY DEF LinesOf
<1>2. /\ Len(written[p]) \in Nat /\ Len(Old[p]) \in Nat
      /\ Len(written[p]) <= Len(Old[p]) + MaxNew
    BY PageConstants DEF LinesTyped
<1>3. wanted \in SUBSET (1..Len(written[p])) /\ wanted \in SUBSET Int
    BY <1>2
<1>4. IsFiniteSet(1..Len(written[p]))
  <2>1. \A m \in Nat : IsFiniteSet(1..m)
      BY FS_Interval
  <2>. QED
      BY <1>2, <2>1
<1>5. IsFiniteSet(wanted)
    BY <1>3, <1>4, FS_Subset
<1>6. n = 0 => Cardinality(wanted) <= MaxNew
  <2> SUFFICES ASSUME n = 0 PROVE Cardinality(wanted) <= MaxNew
      OBVIOUS
  <2> DEFINE new == (Len(Old[p]) + 1)..(Len(Old[p]) + MaxNew)
  <2>1. wanted \subseteq new
    <3> SUFFICES ASSUME NEW k \in wanted PROVE k \in new
        OBVIOUS
    <3>1. k \in 1..Len(written[p]) /\ k > Len(Old[p])
        BY DEF Recent
    <3>. QED
        BY <1>2, <3>1, PageConstants, SMTT(30)
  <2>2. IsFiniteSet(new) /\ Cardinality(new) = MaxNew
    <3>1. Len(Old[p]) + 1 \in Int /\ Len(Old[p]) + MaxNew \in Int /\ MaxNew \in Nat
        BY <1>2, PageConstants
    <3>2. /\ IsFiniteSet(new)
          /\ Cardinality(new) = IF Len(Old[p]) + 1 > Len(Old[p]) + MaxNew THEN 0
                                ELSE (Len(Old[p]) + MaxNew) - (Len(Old[p]) + 1) + 1
        BY <3>1, FS_Interval
    <3>. QED
        BY <1>2, <3>1, <3>2
  <2>. HIDE DEF wanted, new
  <2>. QED
      BY <2>1, <2>2, FS_Subset
<1>. HIDE DEF wanted
<1>7. Cardinality(wanted) \in Nat /\ \A i \in 1..Cardinality(wanted) : Nth(wanted, i) \in wanted
    BY <1>3, <1>5, NthFacts
<1>8. \A k \in wanted : <<p, k>> \in Lines
    BY <1>3 DEF Lines
<1>9. lines \in Seq(Lines) /\ Len(lines) = Cardinality(wanted)
    BY <1>7, <1>8
<1>. HIDE DEF lines
<1>10. CASE n = 0
  <2>1. Len(lines) \in Nat /\ Len(lines) <= MaxNew
      BY <1>6, <1>7, <1>9, <1>10
  <2>. QED
      BY <1>1, <1>9, <1>10, <2>1, PageConstants
<1>11. CASE n # 0
  <2>1. n \in Nat /\ n > 0 /\ n <= MaxTail
      BY <1>11, PageConstants
  <2>2. LastOf(lines, n) \in Seq(Lines) /\ Len(LastOf(lines, n)) <= n
      BY <1>9, <2>1, LastOfFacts
  <2>3. Len(LastOf(lines, n)) \in Nat
      BY <2>2
  <2>. QED
      BY <1>1, <1>11, <2>1, <2>2, <2>3, PageConstants
<1>. QED
    BY <1>10, <1>11

LEMMA TailFacts ==
    ASSUME NEW p \in Pods, NEW n \in 0..MaxTail, LinesTyped
    PROVE  Tail_(p, n) \in Seq(Lines) /\ Len(Tail_(p, n)) <= MostLines
<1> DEFINE N == Cardinality(Containers)
           c == Max({MaxTail, MaxNew})
           parts == [i \in 1..N |-> LinesOf(p, SetToSeq(Containers)[i], n)]
<1>1. Tail_(p, n) = FlattenSeq(parts)
    BY DEF Tail_
<1>2. N \in Nat /\ c \in Nat /\ c * N <= MostLines /\ MostLines \in Nat
    BY PageConstants
<1>. HIDE DEF N, c
<1>3. \A i \in 1..N : parts[i] \in Seq(Lines) /\ Len(parts[i]) <= c
    BY LinesOfFacts DEF c
<1>4. parts \in Seq(Seq(Lines)) /\ Len(parts) = N
    BY <1>2, <1>3
<1>. HIDE DEF parts
<1>5. Tail_(p, n) \in Seq(Lines) /\ Len(Tail_(p, n)) <= N * c
    BY <1>1, <1>2, <1>3, <1>4, FlattenFacts
<1>6. N * c = c * N /\ N * c \in Nat
    BY <1>2
<1>7. Len(Tail_(p, n)) \in Nat
    BY <1>5
<1>. QED
    BY <1>2, <1>5, <1>6, <1>7

LEMMA RequestFacts ==
    ASSUME NEW p \in Pods, NEW n \in 0..MaxTail, NEW range, NEW older
    PROVE  LET r == Request(p, n, range, older)
           IN  ~r.read /\ r.pod \in Pods /\ r.lines \in 0..MaxTail
BY PageConstants DEF Request, Wanted

LEMMA NextTailFacts ==
    ASSUME LinesTyped
    PROVE  NextTail \in 0..MaxTail
<1>1. /\ Len(logs) + LoadMoreChunk \in Nat /\ tailLineCount + LoadMoreChunk \in Nat
      /\ MaxTail \in Nat /\ InitialTail \in Nat
    BY PageConstants DEF LinesTyped
<1>2. Max({Len(logs) + LoadMoreChunk, InitialTail}) \in Nat
  <2> DEFINE a == Len(logs) + LoadMoreChunk
  <2>1. a \in Nat /\ a \in Int /\ InitialTail \in Int
      BY <1>1
  <2> HIDE DEF a
  <2>2. Max({a, InitialTail}) \in {a, InitialTail}
      BY <2>1, MaxOfTwo
  <2>. QED
      BY <1>1, <2>1, <2>2 DEF a
<1>3. PICK next \in Nat : NextTail = Min({next, MaxTail})
    BY <1>1, <1>2 DEF NextTail
<1>4. Min({next, MaxTail}) \in {next, MaxTail} /\ Min({next, MaxTail}) <= MaxTail
    BY <1>1, MinIsLeast
<1>. QED
    BY <1>1, <1>3, <1>4

LEMMA PrefixGrows ==
    ASSUME NEW T, NEW s \in Seq(T), NEW t \in Seq(T), NEW c \in T, IsPrefix(s, t)
    PROVE  IsPrefix(s, Append(t, c))
<1>1. Len(s) <= Len(t) /\ SubSeq(s, 1, Len(s)) = SubSeq(t, 1, Len(s))
    BY DEF IsPrefix
<1>2. Len(Append(t, c)) = Len(t) + 1 /\ Len(s) \in Nat /\ Len(t) \in Nat
    OBVIOUS
<1>3. \A i \in 1..Len(s) : Append(t, c)[i] = t[i]
    BY <1>1
<1>4. SubSeq(t, 1, Len(s)) = [i \in 1..Len(s) |-> t[i]]
    BY <1>1
<1>5. SubSeq(Append(t, c), 1, Len(s)) = [i \in 1..Len(s) |-> Append(t, c)[i]]
    BY <1>1, <1>2
<1>6. SubSeq(Append(t, c), 1, Len(s)) = SubSeq(t, 1, Len(s))
    BY <1>3, <1>4, <1>5
<1>. QED
    BY <1>1, <1>2, <1>6 DEF IsPrefix

\* What leaves the written lines alone keeps the types when it keeps those of the logs
\* and of the requests.
LEMMA LinesKept ==
    ASSUME LinesTyped, UNCHANGED written, tailLineCount' \in 0..MaxTail,
           logs' \in Seq(Lines), Len(logs') <= MostLines,
           \A r \in requests' : \/ r \in requests
                                \/ r.read /\ r.logs \in Seq(Lines) /\ Len(r.logs) <= MostLines
                                \/ ~r.read /\ r.pod \in Pods /\ r.lines \in 0..MaxTail
    PROVE  LinesTyped'
<1>1. Lines' = Lines
    BY DEF Lines
<1>2. \A r \in requests' : IF r.read THEN r.logs \in Seq(Lines) /\ Len(r.logs) <= MostLines
                                      ELSE r.pod \in Pods /\ r.lines \in 0..MaxTail
    BY DEF LinesTyped
<1>. QED
    BY <1>1, <1>2 DEF LinesTyped

LEMMA LinesOfTheUser ==
    ASSUME StreamTyped, LinesTyped,
           \/ \E p \in Pods : OnPodSelect(p)
           \/ \E range \in Ranges : OnRangeSelect(range)
           \/ OnPodClear \/ LoadOlder \/ Reload \/ Clear \/ LeaveAndReturn
    PROVE  LinesTyped'
<1> DEFINE Asked(s) == ~s.read /\ s.pod \in Pods /\ s.lines \in 0..MaxTail
           Empty == logs' = <<>> \/ logs' = logs
           More == \A s \in requests' : s \in requests \/ Asked(s)
           Counted == tailLineCount' \in 0..MaxTail
<1>1. /\ 0 \in 0..MaxTail /\ tailLineCount \in 0..MaxTail
      /\ selectedPod # NoPod => selectedPod \in Pods
    BY PageConstants DEF LinesTyped, StreamTyped
<1>2. \A p \in Pods, n \in 0..MaxTail : \A range, older : Asked(Request(p, n, range, older))
    BY RequestFacts
<1>. HIDE DEF Asked
<1>3. UNCHANGED written /\ Empty /\ More /\ Counted
  <2>1. ASSUME NEW p \in Pods, OnPodSelect(p)
        PROVE  UNCHANGED written /\ Empty /\ More /\ Counted
    <3>1. requests' = requests \cup {Request(p, 0, selectedRange, FALSE)}
        BY <2>1 DEF OnPodSelect, FetchTail
    <3>2. UNCHANGED written /\ Empty /\ Counted
        BY <1>1, <2>1 DEF OnPodSelect
    <3>. QED
        BY <1>1, <1>2, <3>1, <3>2
  <2>2. ASSUME NEW range \in Ranges, OnRangeSelect(range)
        PROVE  UNCHANGED written /\ Empty /\ More /\ Counted
    <3>1. \/ UNCHANGED requests
          \/ /\ selectedPod # NoPod
             /\ requests' = requests \cup {Request(selectedPod, 0, range, FALSE)}
        BY <2>2 DEF OnRangeSelect, FetchTail
    <3>2. UNCHANGED written /\ Empty /\ Counted
        BY <1>1, <2>2 DEF OnRangeSelect
    <3>. QED
        BY <1>1, <1>2, <3>1, <3>2
  <2>3. CASE LoadOlder
    <3>1. requests' = requests \cup {Request(selectedPod, NextTail, selectedRange, TRUE)}
        BY <2>3 DEF LoadOlder, FetchTail
    <3>2. UNCHANGED written /\ Empty /\ tailLineCount' = NextTail /\ Pager = "loadOlder"
        BY <2>3 DEF LoadOlder
    <3>3. selectedPod # NoPod
        BY <3>2 DEF Pager
    <3>. QED
        BY <1>1, <1>2, <3>1, <3>2, <3>3, NextTailFacts
  <2>4. CASE Reload
    <3>1. /\ requests' = requests \cup {Request(selectedPod, tailLineCount, selectedRange, FALSE)}
          /\ selectedPod # NoPod
        BY <2>4 DEF Reload, FetchTail
    <3>2. UNCHANGED written /\ Empty /\ UNCHANGED tailLineCount
        BY <2>4 DEF Reload
    <3>. QED
        BY <1>1, <1>2, <3>1, <3>2
  <2>5. CASE OnPodClear
      BY <1>1, <2>5 DEF OnPodClear
  <2>6. CASE Clear
      BY <1>1, <2>6 DEF Clear
  <2>7. CASE LeaveAndReturn
      BY <1>1, <2>7 DEF LeaveAndReturn
  <2>. QED
      BY <2>1, <2>2, <2>3, <2>4, <2>5, <2>6, <2>7
<1>4. logs' \in Seq(Lines) /\ Len(logs') <= MostLines
  <2>1. logs \in Seq(Lines) /\ Len(logs) <= MostLines
      BY DEF LinesTyped
  <2>2. <<>> \in Seq(Lines) /\ Len(<<>>) = 0 /\ 0 <= MostLines
      BY PageConstants
  <2>. QED
      BY <1>3, <2>1, <2>2
<1>. QED
    BY <1>3, <1>4, LinesKept DEF Asked

LEMMA LinesOfTheServer ==
    ASSUME LinesTyped, UnsentTyped,
           \/ \E r \in requests : ServerReads(r) \/ TailArrives(r) \/ TailFails(r)
           \/ HubHandles \/ LinkUp \/ LinkDown
           \/ \E p \in Pods, c \in Containers : Writes(p, c)
           \/ \E p \in Pods : \E k \in unsent[p] : AppendLogs(p, k)
    PROVE  LinesTyped'
<1>0. tailLineCount \in 0..MaxTail /\ logs \in Seq(Lines) /\ Len(logs) <= MostLines
    BY DEF LinesTyped
<1>1. ASSUME NEW r \in requests, ServerReads(r)
      PROVE  LinesTyped'
  <2> DEFINE s == Response(r, Tail_(r.pod, r.lines))
  <2>1. /\ requests' = (requests \ {r}) \cup {s} /\ ~r.read
        /\ UNCHANGED <<written, tailLineCount, logs>>
      BY <1>1 DEF ServerReads
  <2>2. r.pod \in Pods /\ r.lines \in 0..MaxTail
      BY <2>1 DEF LinesTyped
  <2>3. s.read /\ s.logs = Tail_(r.pod, r.lines)
      BY DEF Response
  <2>. HIDE DEF s
  <2>4. s.logs \in Seq(Lines) /\ Len(s.logs) <= MostLines
      BY <2>2, <2>3, TailFacts
  <2>. QED
      BY <1>0, <2>1, <2>3, <2>4, LinesKept
<1>2. ASSUME NEW r \in requests, TailArrives(r)
      PROVE  LinesTyped'
  <2>1. /\ requests' = requests \ {r} /\ r.read /\ logs' = r.logs
        /\ UNCHANGED <<written, tailLineCount>>
      BY <1>2 DEF TailArrives
  <2>2. logs' \in Seq(Lines) /\ Len(logs') <= MostLines
      BY <2>1 DEF LinesTyped
  <2>. QED
      BY <1>0, <2>1, <2>2, LinesKept
<1>3. ASSUME NEW r \in requests, TailFails(r)
      PROVE  LinesTyped'
  <2>1. requests' = requests \ {r} /\ UNCHANGED <<written, tailLineCount, logs>>
      BY <1>3 DEF TailFails
  <2>. QED
      BY <1>0, <2>1, LinesKept
<1>4. CASE HubHandles \/ LinkUp \/ LinkDown
  <2>1. UNCHANGED <<written, tailLineCount, logs, requests>>
      BY <1>4 DEF HubHandles, LinkUp, LinkDown
  <2>. QED
      BY <1>0, <2>1, LinesKept
<1>5. ASSUME NEW p \in Pods, NEW c \in Containers, Writes(p, c)
      PROVE  LinesTyped'
  <2>1. /\ written' = [written EXCEPT ![p] = Append(@, c)]
        /\ Len(written[p]) < Len(Old[p]) + MaxNew
        /\ UNCHANGED <<tailLineCount, logs, requests>>
      BY <1>5 DEF Writes
  <2>2. /\ written \in [Pods -> Seq(Containers)]
        /\ written'[p] = Append(written[p], c) /\ \A q \in Pods \ {p} : written'[q] = written[q]
        /\ written' \in [Pods -> Seq(Containers)]
        /\ Len(written[p]) \in Nat /\ Len(written'[p]) = Len(written[p]) + 1
      BY <2>1 DEF LinesTyped
  <2>3. Lines \subseteq Lines'
    <3>1. \A q \in Pods : Len(written[q]) \in Nat /\ Len(written'[q]) \in Nat
                           /\ Len(written[q]) <= Len(written'[q])
      <4> SUFFICES ASSUME NEW q \in Pods
                   PROVE  /\ Len(written[q]) \in Nat /\ Len(written'[q]) \in Nat
                          /\ Len(written[q]) <= Len(written'[q])
          OBVIOUS
      <4>1. Len(written[q]) \in Nat
          BY <2>2
      <4>2. q = p \/ written'[q] = written[q]
          BY <2>2
      <4>. QED
          BY <2>2, <4>1, <4>2
    <3>2. \A q \in Pods : 1..Len(written[q]) \subseteq 1..Len(written'[q])
        BY <3>1
    <3>. QED
        BY <3>2 DEF Lines
  <2>4. \A q \in Pods : IsPrefix(Old[q], written'[q]) /\ Len(written'[q]) <= Len(Old[q]) + MaxNew
    <3> SUFFICES ASSUME NEW q \in Pods
                 PROVE  IsPrefix(Old[q], written'[q]) /\ Len(written'[q]) <= Len(Old[q]) + MaxNew
        OBVIOUS
    <3>1. CASE q = p
      <4>1. IsPrefix(Old[p], Append(written[p], c))
          BY <2>2, PageConstants, PrefixGrows DEF LinesTyped
      <4>2. Len(written'[p]) <= Len(Old[p]) + MaxNew
          BY <2>1, <2>2, PageConstants
      <4>. QED
          BY <2>2, <3>1, <4>1, <4>2
    <3>2. CASE q # p
        BY <2>2, <3>2 DEF LinesTyped
    <3>. QED
        BY <3>1, <3>2
  <2>5. \A s \in Seq(Lines) : s \in Seq(Lines')
      BY <2>3
  <2>. QED
      BY <2>1, <2>2, <2>4, <2>5, <1>0 DEF LinesTyped
<1>6. ASSUME NEW p \in Pods, NEW k \in unsent[p], AppendLogs(p, k)
      PROVE  LinesTyped'
  <2>1. /\ logs' = LastOf(Append(logs, <<p, k>>), MaxLines)
        /\ UNCHANGED <<written, tailLineCount, requests>>
      BY <1>6 DEF AppendLogs
  <2>2. <<p, k>> \in Lines
      BY DEF Lines, UnsentTyped
  <2>3. Append(logs, <<p, k>>) \in Seq(Lines)
      BY <1>0, <2>2
  <2>4. logs' \in Seq(Lines) /\ Len(logs') <= MaxLines
      BY <2>1, <2>3, LastOfFacts, PageConstants
  <2>5. Len(logs') <= MostLines
    <3>1. Len(logs') \in Nat
        BY <2>4
    <3>. QED
        BY <2>4, <3>1, PageConstants
  <2>. QED
      BY <1>0, <2>1, <2>4, <2>5, LinesKept
<1>. QED
    BY <1>1, <1>2, <1>3, <1>4, <1>5, <1>6

LEMMA FlagsStep ==
    ASSUME FlagsTyped, [PageNext]_pageVars
    PROVE  FlagsTyped'
<1> USE DEF FlagsTyped
<1>1. CASE UNCHANGED pageVars
    BY <1>1 DEF pageVars
<1>2. ASSUME NEW r \in requests, ServerReads(r) \/ TailArrives(r) \/ TailFails(r)
      PROVE  FlagsTyped'
    BY <1>2 DEF ServerReads, TailArrives, TailFails, stream
<1>3. ASSUME NEW p \in Pods, OnPodSelect(p)
      PROVE  FlagsTyped'
  <2>1. UNCHANGED <<selectedRange, loadingMore>> /\ noMoreOlder' = FALSE
      BY <1>3 DEF OnPodSelect
  <2>2. unserved' \in BOOLEAN
      BY <1>3 DEF OnPodSelect
  <2>. QED
      BY <2>1, <2>2
<1>4. ASSUME NEW range \in Ranges, OnRangeSelect(range)
      PROVE  FlagsTyped'
    BY <1>4 DEF OnRangeSelect, stream
<1>5. CASE OnPodClear \/ LoadOlder \/ Reload \/ Clear
    BY <1>5 DEF OnPodClear, LoadOlder, Reload, Clear, stream
<1>6. CASE LeaveAndReturn \/ HubHandles \/ LinkUp \/ LinkDown
    BY <1>6 DEF LeaveAndReturn, HubHandles, LinkUp, LinkDown, Ranges
<1>7. ASSUME NEW p \in Pods, NEW c \in Containers, Writes(p, c)
      PROVE  FlagsTyped'
    BY <1>7 DEF Writes
<1>8. ASSUME NEW p \in Pods, NEW k \in unsent[p], AppendLogs(p, k)
      PROVE  FlagsTyped'
    BY <1>8 DEF AppendLogs
<1>. QED
    BY <1>1, <1>2, <1>3, <1>4, <1>5, <1>6, <1>7, <1>8 DEF PageNext

LEMMA UnsentStep ==
    ASSUME StreamTyped, LinesTyped, UnsentTyped, [PageNext]_pageVars
    PROVE  UnsentTyped'
<1> DEFINE Same == UNCHANGED <<unsent, subscribed, link, written>>
<1>0. ASSUME Same PROVE UnsentTyped'
    BY <1>0 DEF UnsentTyped
<1>1. CASE UNCHANGED pageVars
    BY <1>0, <1>1 DEF pageVars
<1>2. ASSUME NEW r \in requests, ServerReads(r) \/ TailArrives(r) \/ TailFails(r)
      PROVE  UnsentTyped'
    BY <1>0, <1>2 DEF ServerReads, TailArrives, TailFails, stream
<1>3. ASSUME NEW p \in Pods, OnPodSelect(p)
      PROVE  UnsentTyped'
    BY <1>0, <1>3 DEF OnPodSelect
<1>4. ASSUME NEW range \in Ranges, OnRangeSelect(range)
      PROVE  UnsentTyped'
    BY <1>0, <1>4 DEF OnRangeSelect, stream
<1>5. CASE OnPodClear \/ LoadOlder \/ Reload \/ Clear \/ LeaveAndReturn
    BY <1>0, <1>5 DEF OnPodClear, LoadOlder, Reload, Clear, LeaveAndReturn, stream
<1>6. CASE HubHandles
  <2> DEFINE p == Head(calls)[2]
  <2>1. calls # <<>> /\ UNCHANGED <<link, written>> /\ link = "up"
      BY <1>6 DEF HubHandles, StreamTyped
  <2>2. p \in Pods
    <3>1. Head(calls) \in {"SubscribeToPod", "UnsubscribeFromPod"} \X Pods
        BY <2>1 DEF StreamTyped
    <3>. QED
        BY <3>1
  <2>3. \/ /\ subscribed' = subscribed \cup {p}
           /\ \/ p \in subscribed /\ UNCHANGED unsent
              \/ \E lines \in {Begins(p), {}} : unsent' = [unsent EXCEPT ![p] = lines]
        \/ /\ subscribed' = subscribed \ {p}
           /\ unsent' = [unsent EXCEPT ![p] = {}]
      BY <1>6 DEF HubHandles
  <2>4. Begins(p) \subseteq 1..Len(written[p]) /\ Begins(p) \subseteq Nat
      BY DEF Begins
  <2>. HIDE DEF p
  <2>5. /\ unsent \in [Pods -> SUBSET Nat] /\ subscribed \subseteq Pods
        /\ \A q \in Pods : /\ unsent[q] \subseteq 1..Len(written[q])
                           /\ q \notin subscribed => unsent[q] = {}
      BY DEF UnsentTyped
  <2>6. CASE subscribed' = subscribed \cup {p} /\ UNCHANGED unsent
      BY <2>1, <2>2, <2>5, <2>6 DEF UnsentTyped
  <2>7. ASSUME NEW lines \in SUBSET Nat, lines \subseteq 1..Len(written[p]),
               unsent' = [unsent EXCEPT ![p] = lines],
               subscribed' = subscribed \cup {p} \/ (subscribed' = subscribed \ {p} /\ lines = {})
        PROVE  UnsentTyped'
    <3>1. unsent' \in [Pods -> SUBSET Nat] /\ subscribed' \subseteq Pods
        BY <2>2, <2>5, <2>7
    <3>2. unsent'[p] = lines /\ \A q \in Pods \ {p} : unsent'[q] = unsent[q]
        BY <2>2, <2>5, <2>7
    <3>3. ASSUME NEW q \in Pods
          PROVE  /\ unsent'[q] \subseteq 1..Len(written'[q])
                 /\ q \notin subscribed' => unsent'[q] = {}
        BY <2>1, <2>2, <2>5, <2>7, <3>2
    <3>. QED
        BY <2>1, <3>1, <3>3 DEF UnsentTyped
  <2>. QED
      BY <2>3, <2>4, <2>6, <2>7
<1>7. ASSUME NEW p \in Pods, NEW c \in Containers, Writes(p, c)
      PROVE  UnsentTyped'
  <2>1. /\ written' = [written EXCEPT ![p] = Append(@, c)] /\ UNCHANGED <<link, subscribed>>
        /\ unsent' = IF p \in subscribed
                       THEN [unsent EXCEPT ![p] = @ \cup {Len(written[p]) + 1}]
                       ELSE unsent
      BY <1>7 DEF Writes
  <2>2. /\ \A q \in Pods : written[q] \in Seq(Containers) /\ Len(written[q]) \in Nat
        /\ written'[p] = Append(written[p], c) /\ \A q \in Pods \ {p} : written'[q] = written[q]
        /\ Len(written'[p]) = Len(written[p]) + 1
      BY <2>1 DEF LinesTyped
  <2>3. /\ unsent \in [Pods -> SUBSET Nat] /\ unsent' \in [Pods -> SUBSET Nat]
        /\ \A q \in Pods \ {p} : unsent'[q] = unsent[q]
        /\ p \in subscribed => unsent'[p] = unsent[p] \cup {Len(written[p]) + 1}
        /\ p \notin subscribed => unsent'[p] = unsent[p]
      BY <2>1, <2>2 DEF UnsentTyped
  <2>4. unsent'[p] \subseteq 1..Len(written'[p])
    <3>1. unsent[p] \subseteq 1..Len(written[p])
        BY DEF UnsentTyped
    <3>2. 1..Len(written[p]) \subseteq 1..Len(written'[p])
          /\ Len(written[p]) + 1 \in 1..Len(written'[p])
        BY <2>2
    <3>. QED
        BY <2>3, <3>1, <3>2
  <2>5. ASSUME NEW q \in Pods
        PROVE  /\ unsent'[q] \subseteq 1..Len(written'[q])
               /\ q \notin subscribed' => unsent'[q] = {}
    <3>1. /\ unsent[q] \subseteq 1..Len(written[q])
          /\ q \notin subscribed => unsent[q] = {}
        BY DEF UnsentTyped
    <3>. QED
        BY <2>1, <2>2, <2>3, <2>4, <3>1
  <2>. QED
      BY <2>1, <2>3, <2>5 DEF UnsentTyped
<1>8. ASSUME NEW p \in Pods, NEW k \in unsent[p], AppendLogs(p, k)
      PROVE  UnsentTyped'
  <2>1. /\ unsent' = [unsent EXCEPT ![p] = @ \ {k}]
        /\ UNCHANGED <<link, subscribed, written>>
      BY <1>8 DEF AppendLogs
  <2>2. /\ unsent \in [Pods -> SUBSET Nat] /\ unsent' \in [Pods -> SUBSET Nat]
        /\ \A q \in Pods : unsent'[q] \subseteq unsent[q]
      BY <2>1 DEF UnsentTyped
  <2>3. ASSUME NEW q \in Pods
        PROVE  /\ unsent'[q] \subseteq 1..Len(written'[q])
               /\ q \notin subscribed' => unsent'[q] = {}
      BY <2>1, <2>2 DEF UnsentTyped
  <2>. QED
      BY <2>1, <2>2, <2>3 DEF UnsentTyped
<1>9. CASE LinkUp
    BY <1>9 DEF LinkUp, UnsentTyped
<1>10. CASE LinkDown
  <2>1. /\ subscribed' = {} /\ unsent' = [p \in Pods |-> {}] /\ UNCHANGED written
      BY <1>10 DEF LinkDown
  <2>. QED
      BY <2>1 DEF UnsentTyped
<1>. QED
    BY <1>1, <1>2, <1>3, <1>4, <1>5, <1>6, <1>7, <1>8, <1>9, <1>10 DEF PageNext

\* What the page holds beside the invariant of its stream.
PageTyped == LinesTyped /\ FlagsTyped /\ UnsentTyped

LEMMA TypesStart == PageInit => PageTyped
<1> SUFFICES ASSUME PageInit PROVE PageTyped
    OBVIOUS
<1>1. /\ written = Old /\ logs = <<>> /\ requests = {} /\ tailLineCount = 0
      /\ unsent = [p \in Pods |-> {}] /\ subscribed = {} /\ FlagsTyped
    BY DEF PageInit, FlagsTyped, Ranges
<1>2. \A p \in Pods : IsPrefix(Old[p], Old[p]) /\ Len(Old[p]) <= Len(Old[p]) + MaxNew
    BY PageConstants DEF IsPrefix
<1>3. Old \in [Pods -> Seq(Containers)] /\ 0 \in 0..MaxTail /\ <<>> \in Seq(Lines)
      /\ Len(<<>>) = 0 /\ 0 <= MostLines
    BY PageAssumption, PageConstants
<1>4. LinesTyped
    BY <1>1, <1>2, <1>3 DEF LinesTyped
<1>5. UnsentTyped
    BY <1>1 DEF UnsentTyped
<1>. QED
    BY <1>1, <1>4, <1>5 DEF PageTyped

LEMMA LogsStep == LogsInv /\ [PageNext]_pageVars => LogsInv'
<1> SUFFICES ASSUME LogsInv, [PageNext]_pageVars
             PROVE  LogsInv'
    OBVIOUS
<1>1. CASE UNCHANGED pageVars
    BY <1>1 DEF pageVars, LogsInv, StreamTyped, SelectionInv, Streamed, LoadingIsUnderWay
<1> QED BY <1>1, RequestsKeepLogs, ViewKeepsLogs, SelectKeepsLogs, LeaveKeepsLogs,
           HubKeepsLogs, LinkKeepsLogs DEF PageNext

LEMMA TypesStep == LogsInv /\ PageTyped /\ [PageNext]_pageVars => PageTyped'
<1> SUFFICES ASSUME LogsInv, PageTyped, [PageNext]_pageVars
             PROVE  PageTyped'
    OBVIOUS
<1>1. StreamTyped /\ LinesTyped /\ FlagsTyped /\ UnsentTyped
    BY DEF LogsInv, PageTyped
<1>2. FlagsTyped' /\ UnsentTyped'
    BY <1>1, FlagsStep, UnsentStep
<1>3. CASE UNCHANGED pageVars
  <2>1. UNCHANGED <<written, tailLineCount, logs, requests>>
      BY <1>3 DEF pageVars
  <2>2. LinesTyped'
      BY <1>1, <2>1 DEF LinesTyped, Lines
  <2>. QED
      BY <1>2, <2>2 DEF PageTyped
<1>4. CASE PageNext
  <2> DEFINE User == \/ \E p \in Pods : OnPodSelect(p)
                     \/ \E range \in Ranges : OnRangeSelect(range)
                     \/ OnPodClear \/ LoadOlder \/ Reload \/ Clear \/ LeaveAndReturn
             Server == \/ \E r \in requests : ServerReads(r) \/ TailArrives(r) \/ TailFails(r)
                       \/ HubHandles \/ LinkUp \/ LinkDown
                       \/ \E p \in Pods, c \in Containers : Writes(p, c)
                       \/ \E p \in Pods : \E k \in unsent[p] : AppendLogs(p, k)
  <2>1. User \/ Server
      BY <1>4, Zenon DEF PageNext
  <2>2. User => LinesTyped'
      BY <1>1, Zenon, LinesOfTheUser
  <2>3. Server => LinesTyped'
      BY <1>1, Zenon, LinesOfTheServer
  <2>. QED
      BY <1>2, <2>1, <2>2, <2>3 DEF PageTyped
<1>. QED
    BY <1>2, <1>3, <1>4 DEF PageTyped

LEMMA PageInvIsEnough == LogsInv /\ PageTyped => LogsPagePromise /\ PageTypeOK
<1> SUFFICES ASSUME LogsInv, PageTyped
             PROVE  LogsPagePromise /\ PageTypeOK
    OBVIOUS
<1>1. SelectedIsStreamed /\ LoadingIsUnderWay
    BY DEF LogsInv, SelectionInv, Streamed, SelectedIsStreamed
<1>2. FeedIsComplete
    BY FeedHasAllLines DEF PageTyped, LinesTyped
<1>3. \A s \in Seq(Lines) : Range(s) \subseteq Lines
    BY DEF Range
<1>4. /\ Range(logs) \subseteq Lines /\ Len(logs) <= MostLines
      /\ \A r \in requests : IF r.read THEN Range(r.logs) \subseteq Lines
                                       ELSE r.pod \in Pods /\ r.lines \in 0..MaxTail
    BY <1>3 DEF PageTyped, LinesTyped
<1>5. PageTypeOK
    BY <1>4 DEF PageTyped, LinesTyped, FlagsTyped, UnsentTyped, LogsInv, StreamTyped,
                PageTypeOK, MostLines
<1>. QED
    BY <1>1, <1>2, <1>5 DEF LogsPagePromise

\* PodLogsPageComponent: the page holds lines of the pods, never more than the limits
\* of a tail and of the feed.
THEOREM LogsPageTypes == PageSpec => []PageTypeOK
<1> QED BY LogsStart, LogsStep, TypesStart, TypesStep, PageInvIsEnough, PTL DEF PageSpec

\* PodLogsPageComponent: once the invocations are handled the hub streams the
\* selected pod, the feed shows every visible line below its day, and "Load older"
\* waits only for a request that is under way.
THEOREM LogsPagePromiseHolds == PageSpec => []LogsPagePromise
<1> QED BY LogsStart, LogsStep, TypesStart, TypesStep, PageInvIsEnough, PTL DEF PageSpec

-----------------------------------------------------------------------------
(* The figures of a pod.                                                    *)

\* Half of the divisor at most is lost by rounding, in either direction.
LEMMA RoundEvenRounds ==
    ASSUME NEW n \in Nat, NEW d \in Nat, d > 0
    PROVE  RoundEven(n, d) \in Nat /\ IsShare(RoundEven(n, d), n, d)
<1>1. PICK q \in Int : q = n \div d /\ q * d <= n /\ n < (q + 1) * d
    BY Quotient
<1>2. q >= 0
  <2>1. ASSUME q < 0 PROVE FALSE
    <3>1. (q + 1) * d <= 0
        BY <1>1, <2>1
    <3>. QED
        BY <1>1, <3>1
  <2>. QED
      BY <1>1, <2>1
<1>. DEFINE r == n - q * d
<1>3. (q + 1) * d = q * d + d /\ q * d \in Int
    BY <1>1
<1>4. r \in Int /\ 0 <= r /\ r < d
    BY <1>1, <1>3
<1>. DEFINE up == 2 * r > d \/ (2 * r = d /\ q % 2 = 1)
<1>5. RoundEven(n, d) = IF up THEN q + 1 ELSE q
    BY <1>1 DEF RoundEven
<1>6. up => 2 * r >= d
    BY <1>4
<1>7. ~up => 2 * r <= d
  <2>. HIDE DEF r
  <2>. QED
      BY <1>4
<1>. HIDE DEF up
<1>8. CASE up
  <2>1. RoundEven(n, d) = q + 1
      BY <1>5, <1>8
  <2>2. n - (q + 1) * d = r - d
      BY <1>3
  <2>. HIDE DEF r
  <2>3. 2 * (r - d) <= d /\ -d <= 2 * (r - d)
      BY <1>4, <1>6, <1>8
  <2>. QED
      BY <1>2, <2>1, <2>2, <2>3 DEF IsShare
<1>9. CASE ~up
  <2>1. RoundEven(n, d) = q
      BY <1>5, <1>9
  <2>2. 2 * r <= d /\ -d <= 2 * r
    <3>. HIDE DEF r
    <3>. QED
        BY <1>4, <1>7, <1>9
  <2>. QED
      BY <1>2, <2>1, <2>2 DEF IsShare
<1>. QED
    BY <1>8, <1>9

\* A share does not depend on the unit.
LEMMA ShareHasNoUnit ==
    ASSUME NEW p \in Int, NEW a \in Int, NEW b \in Int, NEW k \in Nat, k > 0
    PROVE  IsShare(p, a * k, b * k) <=> IsShare(p, a, b)
<1>. DEFINE r == a - p * b
<1>1. r \in Int /\ a * k - p * (b * k) = r * k
    OBVIOUS
<1>. HIDE DEF r
<1>2. \A x, y \in Int : x * k <= y * k <=> x <= y
  <2>. TAKE x, y \in Int
  <2>1. x <= y => x * k <= y * k
      OBVIOUS
  <2>2. y + 1 <= x => (y + 1) * k <= x * k
      OBVIOUS
  <2>3. (y + 1) * k = y * k + k /\ y * k \in Int /\ x * k \in Int
      OBVIOUS
  <2>. QED
      BY <2>1, <2>2, <2>3
<1>3. 2 * (r * k) = (2 * r) * k /\ -(b * k) = (-b) * k /\ 2 * r \in Int /\ -b \in Int
    BY <1>1
<1>4. IsShare(p, a * k, b * k) <=> (2 * r) * k <= b * k /\ (-b) * k <= (2 * r) * k
    BY <1>1, <1>3 DEF IsShare
<1>5. IsShare(p, a, b) <=> 2 * r <= b /\ -b <= 2 * r
    BY DEF IsShare, r
<1>. QED
    BY <1>2, <1>3, <1>4, <1>5

LEMMA MemoryUnits ==
    DOMAIN BytesOf = {"Ki", "Mi", "Gi", "k", "M", "G"} /\ NoUnit = "none"
BY DEF BytesOf, NoUnit

LEMMA FiguresConstants ==
    /\ IsFiniteSet(Parts) /\ MaxPodChanges \in Nat /\ AgesSeen \subseteq Nat
    /\ NodeCores \in Nat /\ NodeCores > 0
    /\ NodeMemory.n \in Nat /\ NodeMemory.n > 0 /\ NodeMemory.unit \in DOMAIN BytesOf
BY FiguresAssumption

\* The factors of the code and of Kubernetes for a unit.
LEMMA FactorsOfUnits ==
    ASSUME NEW unit \in DOMAIN BytesOf
    PROVE  \E f, b \in Nat : /\ f > 0 /\ b > 0
                             /\ \A q : q.unit = unit /\ q.n \in Nat =>
                                   ParseMemory(q) = q.n * f /\ Bytes(q) = q.n * b
<1>1. BytesOf["Ki"] = 1024 /\ BytesOf["Mi"] = 1048576 /\ BytesOf["Gi"] = 1073741824
      /\ BytesOf["k"] = 1000 /\ BytesOf["M"] = 1000000 /\ BytesOf["G"] = 1000000000
    BY DEF BytesOf
<1>2. CASE unit = "Ki"
  <2> DEFINE code == 1000
             real == 1024
  <2>1. code \in Nat /\ code > 0 /\ real \in Nat /\ real > 0
      OBVIOUS
  <2>2. ASSUME NEW q, q.unit = unit, q.n \in Nat
        PROVE  ParseMemory(q) = q.n * code /\ Bytes(q) = q.n * real
      BY <1>1, <1>2, <2>2 DEF ParseMemory, Bytes, NoUnit
  <2>. HIDE DEF code, real
  <2>. QED
      BY <2>1, <2>2
<1>3. CASE unit = "Mi"
  <2> DEFINE code == 1000000
             real == 1048576
  <2>1. code \in Nat /\ code > 0 /\ real \in Nat /\ real > 0
      OBVIOUS
  <2>2. ASSUME NEW q, q.unit = unit, q.n \in Nat
        PROVE  ParseMemory(q) = q.n * code /\ Bytes(q) = q.n * real
      BY <1>1, <1>3, <2>2 DEF ParseMemory, Bytes, NoUnit
  <2>. HIDE DEF code, real
  <2>. QED
      BY <2>1, <2>2
<1>4. CASE unit = "Gi"
  <2> DEFINE code == 1000000000
             real == 1073741824
  <2>1. code \in Nat /\ code > 0 /\ real \in Nat /\ real > 0
      OBVIOUS
  <2>2. ASSUME NEW q, q.unit = unit, q.n \in Nat
        PROVE  ParseMemory(q) = q.n * code /\ Bytes(q) = q.n * real
      BY <1>1, <1>4, <2>2 DEF ParseMemory, Bytes, NoUnit
  <2>. HIDE DEF code, real
  <2>. QED
      BY <2>1, <2>2
<1>5. CASE unit = "k"
  <2> DEFINE code == 1
             real == 1000
  <2>1. code \in Nat /\ code > 0 /\ real \in Nat /\ real > 0
      OBVIOUS
  <2>2. ASSUME NEW q, q.unit = unit, q.n \in Nat
        PROVE  ParseMemory(q) = q.n * code /\ Bytes(q) = q.n * real
      BY <1>1, <1>5, <2>2 DEF ParseMemory, Bytes, NoUnit
  <2>. HIDE DEF code, real
  <2>. QED
      BY <2>1, <2>2
<1>6. CASE unit = "M"
  <2> DEFINE code == 1048576
             real == 1000000
  <2>1. code \in Nat /\ code > 0 /\ real \in Nat /\ real > 0
      OBVIOUS
  <2>2. ASSUME NEW q, q.unit = unit, q.n \in Nat
        PROVE  ParseMemory(q) = q.n * code /\ Bytes(q) = q.n * real
      BY <1>1, <1>6, <2>2 DEF ParseMemory, Bytes, NoUnit
  <2>. HIDE DEF code, real
  <2>. QED
      BY <2>1, <2>2
<1>7. CASE unit = "G"
  <2> DEFINE code == 1073741824
             real == 1000000000
  <2>1. code \in Nat /\ code > 0 /\ real \in Nat /\ real > 0
      OBVIOUS
  <2>2. ASSUME NEW q, q.unit = unit, q.n \in Nat
        PROVE  ParseMemory(q) = q.n * code /\ Bytes(q) = q.n * real
      BY <1>1, <1>7, <2>2 DEF ParseMemory, Bytes, NoUnit
  <2>. HIDE DEF code, real
  <2>. QED
      BY <2>1, <2>2
<1>. QED
    BY <1>2, <1>3, <1>4, <1>5, <1>6, <1>7, MemoryUnits

\* What the quantities of a reading are, in numbers.
LEMMA QuantitiesAreNumbers ==
    ASSUME NEW m \in Readings
    PROVE  ParseCpu(m.cpu) \in Nat /\ ParseMemory(m.memory) \in Nat
<1>1. /\ m.cpu.n \in Nat /\ m.cpu.unit \in {NoUnit, "n", "u", "m"}
      /\ m.memory.n \in Nat /\ m.memory.unit \in {NoUnit} \cup DOMAIN BytesOf
    BY FiguresAssumption
<1>2. ParseCpu(m.cpu) \in Nat
    BY <1>1 DEF ParseCpu, Nano, NoUnit
<1>3. ParseMemory(m.memory) \in Nat
  <2>1. CASE m.memory.unit = NoUnit
      BY <1>1, <2>1 DEF ParseMemory
  <2>2. CASE m.memory.unit \in DOMAIN BytesOf
    <3>1. PICK f \in Nat : ParseMemory(m.memory) = m.memory.n * f
        BY <1>1, <2>2, FactorsOfUnits
    <3>. QED
        BY <1>1, <3>1
  <2>. QED
      BY <1>1, <2>1, <2>2
<1>. QED
    BY <1>2, <1>3

LEMMA CapacityIsPositive ==
    /\ NodeCores * (Nano \div 1000) \in Nat /\ NodeCores * (Nano \div 1000) > 0
    /\ ParseMemory(NodeMemory) \in Nat /\ ParseMemory(NodeMemory) > 0
<1>1. Nano \div 1000 = 1000000
    BY DEF Nano
<1>2. PICK f \in Nat : f > 0 /\ ParseMemory(NodeMemory) = NodeMemory.n * f
    BY FactorsOfUnits, FiguresConstants
<1>3. NodeMemory.n \in Nat /\ NodeMemory.n > 0 /\ NodeCores \in Nat /\ NodeCores > 0
    BY FiguresConstants
<1>4. \A a, b \in Nat : a > 0 /\ b > 0 => a * b \in Nat /\ a * b > 0
    OBVIOUS
<1>. QED
    BY <1>1, <1>2, <1>3, <1>4

\* Figures of a usage, for a pod that is scheduled or not.
FiguresFor(known, u) ==
    [cpu |-> CpuOf(u), memory |-> MemoryOf(u), usage |-> u,
     cpuPercent |-> IF known THEN RoundEven(CpuOf(u), NodeCores * (Nano \div 1000))
                    ELSE Null,
     memoryPercent |-> IF known
                         THEN RoundEven(1000 * MemoryOf(u), ParseMemory(NodeMemory))
                         ELSE Null]

LEMMA BothPathsGiveThese ==
    \A u : PollFigures(u) = FiguresFor(scheduled, u) /\ FreshFigures(u) = FiguresFor(scheduled, u)
BY DEF PollFigures, FreshFigures, FiguresFor

Usages == [Parts -> Readings]

LEMMA SumsAreNumbers ==
    ASSUME NEW u \in Usages
    PROVE  CpuOf(u) \in Nat /\ MemoryOf(u) \in Nat
<1>. DEFINE cpu == [c \in Parts |-> ParseCpu(u[c].cpu)]
            memory == [c \in Parts |-> ParseMemory(u[c].memory)]
<1>1. /\ \A c \in Parts : cpu[c] \in Nat
      /\ \A c \in Parts : memory[c] \in Nat
  <2>1. \A c \in Parts : u[c] \in Readings
      BY DEF Usages
  <2>. QED
      BY <2>1, QuantitiesAreNumbers
<1>2. CpuOf(u) = SumFunctionOnSet(cpu, Parts) /\ MemoryOf(u) = SumFunctionOnSet(memory, Parts)
    BY DEF CpuOf, MemoryOf, SumFunction
<1>3. IsFiniteSet(Parts)
    BY FiguresConstants
<1>. HIDE DEF cpu, memory
<1>. QED
    BY <1>1, <1>2, <1>3, SumIsNat

LEMMA FiguresAreTyped ==
    ASSUME NEW u \in Usages, NEW known \in BOOLEAN
    PROVE  FiguresFor(known, u) \in Figures /\ FiguresFor(known, u).usage = u
<1>1. CpuOf(u) \in Nat /\ MemoryOf(u) \in Nat /\ 1000 * MemoryOf(u) \in Nat
    BY SumsAreNumbers
<1>2. /\ RoundEven(CpuOf(u), NodeCores * (Nano \div 1000)) \in Nat
      /\ RoundEven(1000 * MemoryOf(u), ParseMemory(NodeMemory)) \in Nat
    BY <1>1, CapacityIsPositive, RoundEvenRounds
<1>. QED
    BY <1>1, <1>2 DEF FiguresFor, Figures, Usages

\* None, or the figures of the usage they name.
RightFor(known, m) == m = None \/ (m.usage \in Usages /\ m = FiguresFor(known, m.usage))

FiguresInv ==
    /\ FiguresTypeOK
    /\ RightFor(scheduled, cached)
    /\ fetched # None => RightFor(scheduled, fetched.metrics)
    /\ row # None => RightFor(scheduled, row.metrics)

LEMMA FiguresStart == ASSUME FiguresInit PROVE FiguresInv
<1>1. 0 \in 0..MaxPodChanges
    BY FiguresConstants
<1>. QED
    BY <1>1 DEF FiguresInit, FiguresInv, FiguresTypeOK, RightFor, FigurePhases

LEMMA FreshIsRight ==
    ASSUME FiguresTypeOK
    PROVE  /\ PollFigures(usage) \in Figures /\ RightFor(scheduled, PollFigures(usage))
           /\ FreshFigures(usage) \in Figures /\ RightFor(scheduled, FreshFigures(usage))
<1>1. usage \in Usages /\ scheduled \in BOOLEAN
    BY DEF FiguresTypeOK, Usages
<1>2. FiguresFor(scheduled, usage) \in Figures
      /\ FiguresFor(scheduled, usage).usage = usage
    BY <1>1, FiguresAreTyped
<1>3. RightFor(scheduled, FiguresFor(scheduled, usage))
    BY <1>1, <1>2 DEF RightFor
<1>. QED
    BY <1>2, <1>3, BothPathsGiveThese

LEMMA FiguresStep == ASSUME FiguresInv, [FiguresNext]_figuresVars PROVE FiguresInv'
<1>. USE DEF FiguresInv
<1>1. ASSUME NEW c \in Parts, NEW m \in Readings, UsageChanges(c, m) PROVE FiguresInv'
    BY <1>1, FiguresConstants DEF UsageChanges, FiguresTypeOK, serverSide, browserSide
<1>2. ASSUME NEW minutes \in AgesSeen, Ages(minutes) PROVE FiguresInv'
    BY <1>2 DEF Ages, FiguresTypeOK, serverSide, browserSide
<1>3. CASE Poll
    BY <1>3, FreshIsRight DEF Poll, FiguresTypeOK, browserSide
<1>4. ASSUME NEW counts \in Counts, Scan(counts) PROVE FiguresInv'
    BY <1>4 DEF Scan, FiguresTypeOK, browserSide
<1>5. ASSUME NEW answers \in BOOLEAN, ListRead(answers) PROVE FiguresInv'
  <2>1. fetched'.metrics \in Figures \cup {None} /\ RightFor(scheduled, fetched'.metrics)
          /\ fetched' \in PodObjects
      BY <1>5, FreshIsRight DEF ListRead, FiguresTypeOK, PodObjects, RightFor
  <2>. QED
      BY <1>5, <2>1 DEF ListRead, FiguresTypeOK, serverSide
<1>6. ASSUME NEW new \in FigurePhases, PodEvent(new) PROVE FiguresInv'
    BY <1>6 DEF PodEvent, FiguresTypeOK, PodObjects, RightFor, serverSide
<1>7. CASE FiguresListed
    BY <1>7 DEF FiguresListed, FiguresTypeOK, serverSide
<1>8. CASE Reenter
    BY <1>8 DEF Reenter, FiguresTypeOK, serverSide
<1>9. CASE UNCHANGED figuresVars
    BY <1>9 DEF figuresVars, FiguresTypeOK, serverSide, browserSide
<1>. QED
    BY <1>1, <1>2, <1>3, <1>4, <1>5, <1>6, <1>7, <1>8, <1>9 DEF FiguresNext

\* The figures of a row, in the numbers that the promise is about.
LEMMA CpuIsMeant ==
    ASSUME NEW u \in Usages
    PROVE  TrueCpu(u) = CpuOf(u)
<1>. DEFINE meaning == [n |-> 1, u |-> 1000, m |-> 1000000]
            Meant(q) == q.n * (IF q.unit = NoUnit THEN Nano ELSE meaning[q.unit])
            parsed == [c \in Parts |-> ParseCpu(u[c].cpu)]
            meant == [c \in Parts |-> Meant(u[c].cpu)]
<1>1. ASSUME NEW c \in Parts PROVE parsed[c] \in Int /\ meant[c] = parsed[c]
  <2>1. u[c] \in Readings
      BY DEF Usages
  <2>2. u[c].cpu.n \in Nat /\ u[c].cpu.unit \in {NoUnit, "n", "u", "m"}
      BY <2>1, FiguresAssumption
  <2>3. ParseCpu(u[c].cpu) \in Nat
      BY <2>1, QuantitiesAreNumbers
  <2>4. Meant(u[c].cpu) = ParseCpu(u[c].cpu)
    <3>1. u[c].cpu.n * 1 = u[c].cpu.n
        BY <2>2
    <3>. QED
        BY <2>2, <3>1 DEF ParseCpu, NoUnit
  <2>. QED
      BY <2>3, <2>4
<1>2. CpuOf(u) = SumFunctionOnSet(parsed, Parts) /\ TrueCpu(u) = SumFunctionOnSet(meant, Parts)
    BY DEF CpuOf, TrueCpu, SumFunction
<1>3. IsFiniteSet(Parts)
    BY FiguresConstants
<1>. HIDE DEF parsed, meant
<1>4. SumFunctionOnSet(parsed, Parts) = SumFunctionOnSet(meant, Parts)
    BY <1>1, <1>3, SumsAgree
<1>. QED
    BY <1>2, <1>4

\* With one unit for all, the memory is a multiple of what it is in bytes.
LEMMA MemoryInOneUnit ==
    ASSUME NEW u \in Usages, \A c \in Parts : u[c].memory.unit = NodeMemory.unit
    PROVE  \E f, b \in Nat, n \in Nat :
              /\ f > 0 /\ b > 0
              /\ MemoryOf(u) = n * f /\ TrueMemory(u) = n * b
              /\ ParseMemory(NodeMemory) = NodeMemory.n * f
              /\ Bytes(NodeMemory) = NodeMemory.n * b
<1>1. PICK f, b \in Nat :
         /\ f > 0 /\ b > 0
         /\ \A q : q.unit = NodeMemory.unit /\ q.n \in Nat =>
               ParseMemory(q) = q.n * f /\ Bytes(q) = q.n * b
    BY FactorsOfUnits, FiguresConstants
<1>. DEFINE number == [c \in Parts |-> u[c].memory.n]
            parsed == [c \in Parts |-> ParseMemory(u[c].memory)]
            meant == [c \in Parts |-> Bytes(u[c].memory)]
            n == SumFunctionOnSet(number, Parts)
<1>2. ASSUME NEW c \in Parts
      PROVE  number[c] \in Nat /\ parsed[c] = number[c] * f /\ meant[c] = number[c] * b
  <2>1. u[c] \in Readings
      BY DEF Usages
  <2>2. u[c].memory.n \in Nat
      BY <2>1, FiguresAssumption
  <2>. QED
      BY <1>1, <2>2
<1>3. MemoryOf(u) = SumFunctionOnSet(parsed, Parts) /\ TrueMemory(u) = SumFunctionOnSet(meant, Parts)
    BY DEF MemoryOf, TrueMemory, SumFunction
<1>4. IsFiniteSet(Parts)
    BY FiguresConstants
<1>. HIDE DEF number, parsed, meant
<1>5. n \in Nat
    BY <1>2, <1>4, SumIsNat
<1>6. SumFunctionOnSet(parsed, Parts) = n * f
  <2>1. f \in Int /\ \A c \in Parts : number[c] \in Int /\ parsed[c] = number[c] * f
      BY <1>2
  <2>. QED
      BY <1>4, <2>1, SumScales
<1>7. SumFunctionOnSet(meant, Parts) = n * b
  <2>1. b \in Int /\ \A c \in Parts : number[c] \in Int /\ meant[c] = number[c] * b
      BY <1>2
  <2>. QED
      BY <1>4, <2>1, SumScales
<1>8. ParseMemory(NodeMemory) = NodeMemory.n * f /\ Bytes(NodeMemory) = NodeMemory.n * b
    BY <1>1, FiguresConstants
<1>. HIDE DEF n
<1>. QED
    BY <1>1, <1>3, <1>5, <1>6, <1>7, <1>8

LEMMA SharesAreRight ==
    ASSUME NEW u \in Usages
    PROVE  /\ IsShare(RoundEven(CpuOf(u), NodeCores * (Nano \div 1000)),
                      TrueCpu(u), NodeCores * (Nano \div 1000))
           /\ (\A c \in Parts : u[c].memory.unit = NodeMemory.unit) =>
                 IsShare(RoundEven(1000 * MemoryOf(u), ParseMemory(NodeMemory)),
                         1000 * TrueMemory(u), Bytes(NodeMemory))
<1>1. CpuOf(u) \in Nat /\ MemoryOf(u) \in Nat /\ 1000 * MemoryOf(u) \in Nat
    BY SumsAreNumbers
<1>2. IsShare(RoundEven(CpuOf(u), NodeCores * (Nano \div 1000)),
              TrueCpu(u), NodeCores * (Nano \div 1000))
    BY <1>1, CapacityIsPositive, RoundEvenRounds, CpuIsMeant
<1>3. ASSUME \A c \in Parts : u[c].memory.unit = NodeMemory.unit
      PROVE  IsShare(RoundEven(1000 * MemoryOf(u), ParseMemory(NodeMemory)),
                     1000 * TrueMemory(u), Bytes(NodeMemory))
  <2>1. PICK f, b \in Nat, n \in Nat :
              /\ f > 0 /\ b > 0
              /\ MemoryOf(u) = n * f /\ TrueMemory(u) = n * b
              /\ ParseMemory(NodeMemory) = NodeMemory.n * f
              /\ Bytes(NodeMemory) = NodeMemory.n * b
      BY <1>3, MemoryInOneUnit
  <2>2. PICK p \in Nat : /\ p = RoundEven(1000 * MemoryOf(u), ParseMemory(NodeMemory))
                         /\ IsShare(p, 1000 * MemoryOf(u), ParseMemory(NodeMemory))
      BY <1>1, CapacityIsPositive, RoundEvenRounds
  <2>3. 1000 * MemoryOf(u) = (1000 * n) * f /\ 1000 * TrueMemory(u) = (1000 * n) * b
          /\ 1000 * n \in Int /\ NodeMemory.n \in Int
      BY <2>1, FiguresConstants
  <2>. DEFINE x == 1000 * n
              y == NodeMemory.n
  <2>4. x \in Int /\ y \in Int
      BY <2>3
  <2>5. IsShare(p, x * f, y * f)
      BY <2>1, <2>2, <2>3
  <2>6. 1000 * TrueMemory(u) = x * b /\ Bytes(NodeMemory) = y * b
      BY <2>1, <2>3
  <2>7. p \in Int
      OBVIOUS
  <2>. HIDE DEF x, y
  <2>8. IsShare(p, x, y)
      BY <2>1, <2>4, <2>5, <2>7, ShareHasNoUnit
  <2>9. IsShare(p, x * b, y * b)
      BY <2>1, <2>4, <2>7, <2>8, ShareHasNoUnit
  <2>. QED
      BY <2>2, <2>6, <2>9
<1>. QED
    BY <1>2, <1>3

\* The units of memory on the screen.
LEMMA UnitsGrow ==
    /\ \A i \in 0..4 : SizeOf(i) \in Nat /\ SizeOf(i) > 0
    /\ \A i \in 1..4 : SizeOf(i) = 1024 * SizeOf(i - 1)
<1>1. /\ SizeOf(0) = 1 /\ SizeOf(1) = 1024 /\ SizeOf(2) = 1024 * 1024
      /\ SizeOf(3) = 1024 * 1024 * 1024 /\ SizeOf(4) = 1024 * 1024 * 1024 * 1024
    BY DEF SizeOf
<1>2. ASSUME NEW i \in 0..4 PROVE SizeOf(i) \in Nat /\ SizeOf(i) > 0
  <2>1. i = 0 \/ i = 1 \/ i = 2 \/ i = 3 \/ i = 4
      OBVIOUS
  <2>. QED
      BY <1>1, <2>1
<1>3. ASSUME NEW i \in 1..4 PROVE SizeOf(i) = 1024 * SizeOf(i - 1)
  <2>1. i = 1 \/ i = 2 \/ i = 3 \/ i = 4
      OBVIOUS
  <2>2. 1 - 1 = 0 /\ 2 - 1 = 1 /\ 3 - 1 = 2 /\ 4 - 1 = 3
      OBVIOUS
  <2>. QED
      BY <1>1, <2>1, <2>2
<1>. QED
    BY <1>2, <1>3

LEMMA FixedRounds ==
    ASSUME NEW n \in Nat, NEW d \in Nat, d > 0
    PROVE  LET off == n * 10 - Fixed(n, d) * d
           IN  2 * off <= d /\ -d <= 2 * off
<1>. DEFINE h == d \div 2
            a == 10 * n + h
<1>1. h \in Nat /\ 2 * h <= d /\ d <= 2 * h + 1
    OBVIOUS
<1>2. a \in Int /\ Fixed(n, d) = a \div d
    BY DEF Fixed
<1>. HIDE DEF h
<1>3. a = 10 * n + h
    OBVIOUS
<1>. HIDE DEF a
<1>4. PICK t \in Int : t = a \div d /\ t * d <= a /\ a < (t + 1) * d
    BY <1>2, Quotient
<1>5. (t + 1) * d = t * d + d /\ t * d \in Int
    OBVIOUS
<1>6. 2 * (n * 10 - t * d) <= d /\ -d <= 2 * (n * 10 - t * d)
    BY <1>1, <1>3, <1>4, <1>5
<1>. QED
    BY <1>2, <1>4, <1>6

LEMMA MemoryReadsBack ==
    ASSUME NEW bytes \in Nat
    PROVE  LET size == FormatMemory(bytes)
               i == CHOOSE k \in 0..4 : Units[k + 1] = size.unit
               off == bytes * 10 - size.tenths * SizeOf(i)
           IN  /\ 2 * off <= SizeOf(i) /\ -SizeOf(i) <= 2 * off
               /\ i > 0 => bytes >= SizeOf(i)
               /\ i < 4 => bytes \div SizeOf(i) < 1024
<1>. DEFINE over == {k \in 1..4 : bytes \div SizeOf(k - 1) >= 1024}
            T == {0} \cup over
            i == Max(T)
            size == FormatMemory(bytes)
<1>1. T \in SUBSET Nat /\ T # {} /\ \A k \in T : k <= 4
    OBVIOUS
<1>2. i \in T /\ \A k \in T : k <= i
    BY <1>1, MaxIsGreatest
<1>3. i \in 0..4
    BY <1>1, <1>2
<1>4. size = [tenths |-> Fixed(bytes, SizeOf(i)), unit |-> Units[i + 1]]
    BY DEF FormatMemory
<1>5. \A k : k \in over <=> k \in 1..4 /\ bytes \div SizeOf(k - 1) >= 1024
    OBVIOUS
<1>6. \A k : k \in T <=> k = 0 \/ k \in over
    OBVIOUS
<1>. HIDE DEF over, T, i, size
<1>7. i > 0 => bytes >= SizeOf(i)
  <2> SUFFICES ASSUME i > 0 PROVE bytes >= SizeOf(i)
      OBVIOUS
  <2>1. i \in 1..4 /\ bytes \div SizeOf(i - 1) >= 1024
      BY <1>2, <1>5, <1>6
  <2>2. i - 1 \in 0..4
      BY <2>1
  <2>3. SizeOf(i - 1) \in Nat /\ SizeOf(i - 1) > 0 /\ SizeOf(i) = 1024 * SizeOf(i - 1)
      BY <2>1, <2>2, UnitsGrow
  <2>4. PICK r \in Int : /\ r = bytes \div SizeOf(i - 1) /\ r * SizeOf(i - 1) <= bytes
      BY <2>3, Quotient
  <2>5. 1024 * SizeOf(i - 1) <= r * SizeOf(i - 1)
      BY <2>1, <2>3, <2>4
  <2>. QED
      BY <2>3, <2>4, <2>5
<1>8. i < 4 => bytes \div SizeOf(i) < 1024
  <2> SUFFICES ASSUME i < 4 PROVE bytes \div SizeOf(i) < 1024
      OBVIOUS
  <2>1. i + 1 \in 1..4 /\ (i + 1) - 1 = i /\ ~(i + 1 <= i)
      BY <1>3
  <2>2. i + 1 \notin over
      BY <1>2, <1>6, <2>1
  <2>3. ~(bytes \div SizeOf(i) >= 1024)
      BY <1>5, <2>1, <2>2
  <2>4. SizeOf(i) \in Nat /\ SizeOf(i) > 0
      BY <1>3, UnitsGrow
  <2>5. bytes \div SizeOf(i) \in Int
      BY <2>4, Quotient
  <2>. QED
      BY <2>3, <2>5
<1>9. i = CHOOSE k \in 0..4 : Units[k + 1] = size.unit
  <2>1. /\ Units[1] = "B" /\ Units[2] = "Ki" /\ Units[3] = "Mi"
        /\ Units[4] = "Gi" /\ Units[5] = "Ti"
      BY DEF Units
  <2>2. \A k \in 0..4 : k = 0 \/ k = 1 \/ k = 2 \/ k = 3 \/ k = 4
      OBVIOUS
  <2>3. /\ Units[0 + 1] = "B" /\ Units[1 + 1] = "Ki" /\ Units[2 + 1] = "Mi"
        /\ Units[3 + 1] = "Gi" /\ Units[4 + 1] = "Ti"
      BY <2>1
  <2>4. \A k, m \in 0..4 : Units[k + 1] = Units[m + 1] => k = m
      BY <2>2, <2>3
  <2>5. size.unit = Units[i + 1]
      BY <1>4
  <2>6. \A k \in 0..4 : Units[k + 1] = size.unit <=> k = i
      BY <1>3, <2>4, <2>5
  <2>. QED
      BY <1>3, <2>6
<1>10. LET off == bytes * 10 - size.tenths * SizeOf(i)
       IN  2 * off <= SizeOf(i) /\ -SizeOf(i) <= 2 * off
  <2>1. SizeOf(i) \in Nat /\ SizeOf(i) > 0 /\ size.tenths = Fixed(bytes, SizeOf(i))
      BY <1>3, <1>4, UnitsGrow
  <2>. QED
      BY <2>1, FixedRounds
<1>. QED
    BY <1>7, <1>8, <1>9, <1>10 DEF size

LEMMA AgeReadsBack ==
    ASSUME NEW minutes \in Nat
    PROVE  LET cell == GetAge(minutes)
               length == IF cell.unit = "d" THEN 1440 ELSE IF cell.unit = "h" THEN 60 ELSE 1
           IN  /\ cell.n * length <= minutes /\ minutes < (cell.n + 1) * length
               /\ cell.n > 0 \/ minutes = 0
<1>1. PICK hours \in Int : hours = minutes \div 60 /\ hours * 60 <= minutes
                           /\ minutes < (hours + 1) * 60
    BY Quotient
<1>2. PICK days \in Int : days = hours \div 24 /\ days * 24 <= hours
                          /\ hours < (days + 1) * 24
    BY Quotient
<1>3. GetAge(minutes) = IF days > 0 THEN [n |-> days, unit |-> "d"]
                        ELSE IF hours > 0 THEN [n |-> hours, unit |-> "h"]
                        ELSE [n |-> minutes, unit |-> "m"]
    BY <1>1, <1>2 DEF GetAge
<1>4. CASE days > 0
    BY <1>1, <1>2, <1>3, <1>4
<1>5. CASE ~(days > 0) /\ hours > 0
    BY <1>1, <1>2, <1>3, <1>5
<1>6. CASE ~(days > 0) /\ ~(hours > 0)
    BY <1>1, <1>2, <1>3, <1>6
<1>. QED
    BY <1>4, <1>5, <1>6

LEMMA FiguresInvIsEnough == ASSUME FiguresInv PROVE FiguresPromise
<1>1. age \in Nat /\ scheduled \in BOOLEAN
    BY FiguresConstants DEF FiguresInv, FiguresTypeOK
<1>. DEFINE u == row.metrics.usage
            known == row # None /\ row.metrics # None
<1>2. known => u \in Usages /\ row.metrics = FiguresFor(scheduled, u)
    BY DEF FiguresInv, RightFor
<1>3. known => /\ row.metrics.memory = MemoryOf(u)
               /\ scheduled =>
                     /\ row.metrics.cpuPercent
                          = RoundEven(CpuOf(u), NodeCores * (Nano \div 1000))
                     /\ row.metrics.memoryPercent
                          = RoundEven(1000 * MemoryOf(u), ParseMemory(NodeMemory))
               /\ ~scheduled => row.metrics.cpuPercent = Null /\ row.metrics.memoryPercent = Null
  <2>. HIDE DEF u, known
  <2>. QED
      BY <1>2 DEF FiguresFor
<1>4. PathsAgree
    BY <1>2, BothPathsGiveThese DEF PathsAgree
<1>5. known => row.metrics.memory \in Nat
  <2>. HIDE DEF u, known
  <2>. QED
      BY <1>2, <1>3, SumsAreNumbers
<1>6. CpuIsRight
  <2> SUFFICES ASSUME row # None, CpuCell(row) # None
               PROVE  IsShare(CpuCell(row).percent, TrueCpu(u), NodeCores * (Nano \div 1000))
      BY DEF CpuIsRight
  <2>1. row.metrics # None /\ row.metrics.cpuPercent # Null
          /\ CpuCell(row).percent = row.metrics.cpuPercent
      BY DEF CpuCell
  <2>2. scheduled /\ known
      BY <1>1, <1>3, <2>1
  <2>. HIDE DEF u, known
  <2>. QED
      BY <1>2, <1>3, <2>1, <2>2, SharesAreRight
<1>7. MemoryShareIsRight
  <2> SUFFICES ASSUME row # None, MemoryCell(row) # None, MemoryCell(row).percent # Null,
                      \A c \in Parts : u[c].memory.unit = NodeMemory.unit
               PROVE  IsShare(MemoryCell(row).percent, 1000 * TrueMemory(u), Bytes(NodeMemory))
      BY DEF MemoryShareIsRight
  <2>1. row.metrics # None /\ MemoryCell(row).percent = row.metrics.memoryPercent
      BY DEF MemoryCell
  <2>2. scheduled /\ known
      BY <1>1, <1>3, <2>1
  <2>. HIDE DEF u, known
  <2>. QED
      BY <1>2, <1>3, <2>1, <2>2, SharesAreRight
<1>8. CellsReadBack
  <2>1. row # None /\ row.metrics # None => MemoryCell(row).size = FormatMemory(row.metrics.memory)
      BY DEF MemoryCell
  <2>. QED
      BY <1>1, <1>5, <2>1, MemoryReadsBack, AgeReadsBack DEF CellsReadBack
<1>. QED
    BY <1>4, <1>6, <1>7, <1>8 DEF FiguresPromise

\* PollMetricsOnce, the endpoint that lists the pods and the cells of WPodsComponent: on
\* either path and in any units a row has the figures of the metrics API, the shares
\* of its CPU and, in one unit, of its memory are right to the last digit, and what
\* the cells say of memory and age reads back.
THEOREM FiguresPromiseHolds == FiguresSpec => []FiguresPromise
<1>1. FiguresInit => FiguresInv
    BY FiguresStart
<1>2. FiguresInv /\ [FiguresNext]_figuresVars => FiguresInv'
    BY FiguresStep
<1>. QED
    BY <1>1, <1>2, FiguresInvIsEnough, PTL DEF FiguresSpec
-----------------------------------------------------------------------------
(* The pods table.                                                          *)

PodRows == [uid : Uids, phase : Phases]
PodEvents == [uid : Uids, phase : Phases \cup {"gone"}]
RowsIn(s) == {s[i] : i \in 1..Len(s)}

\* Rows of pods, one of each at most.
Table(s) ==
    /\ s \in Seq(PodRows)
    /\ \A i, j \in 1..Len(s) : s[i].uid = s[j].uid => i = j

\* s says of u what is so in the cluster.
Agrees(s, u) ==
    {x \in RowsIn(s) : x.uid = u} = IF u \in Alive THEN {Row(u)} ELSE {}

\* Nothing about u is on its way.
Quiet(u) == \A i \in 1..Len(events) : events[i].uid # u
LastOfItsPod(i) == \A j \in (i + 1)..Len(events) : events[j].uid # events[i].uid

PodsTyped ==
    /\ cluster \in [Uids -> Phases \cup {"none", "gone"}]
    /\ events \in Seq(PodEvents)
    /\ listing \in {"no", "sent", "read"}
    /\ Table(pods) /\ Table(listed)
    /\ {podsLoading, podsError, passed, lost, watched} \subseteq BOOLEAN
    /\ podsLoading => listing # "no" /\ ~podsError

FiltersTyped ==
    /\ excludedNamespaces \subseteq PodNamespaces /\ excludedStatuses \subseteq Phases
    /\ sortKey \in SortKeys /\ sortDir \in {"asc", "desc"}
    /\ excludedNamespaces = unticked

\* What is on its way ends with how each pod is; what has come says it of the others.
CrossingInv ==
    /\ ~watched => events = <<>>
    /\ \A i \in 1..Len(events) : LastOfItsPod(i) => events[i].phase = cluster[events[i].uid]
    /\ ~lost /\ listing = "no" => \A u \in Uids : Quiet(u) => Agrees(pods, u)
    /\ ~lost /\ listing = "read" /\ ~passed =>
          \A u \in Uids : Quiet(u) => Agrees(listed, u)

LEMMA AliveFacts ==
    ASSUME cluster \in [Uids -> Phases \cup {"none", "gone"}]
    PROVE  /\ Cardinality(Alive) \in Nat
           /\ SetToSeq(Alive) \in [1..Cardinality(Alive) -> Alive]
           /\ \A i, j \in 1..Cardinality(Alive) :
                 SetToSeq(Alive)[i] = SetToSeq(Alive)[j] => i = j
           /\ \A u \in Alive : \E i \in 1..Cardinality(Alive) : SetToSeq(Alive)[i] = u
           /\ \A u \in Alive : u \in Uids /\ Row(u) \in PodRows /\ Row(u).uid = u
           /\ \A u \in Uids : u \in Alive <=> cluster[u] \in Phases
<1>1. Alive \in SUBSET Uids
    BY DEF Alive
<1>2. IsFiniteSet(Alive)
    BY <1>1, PodsAssumption, FS_Subset
<1>3. \A u \in Alive : u \in Uids /\ Row(u) \in PodRows /\ Row(u).uid = u
    BY DEF Alive, Row, PodRows
<1>4. \A u \in Uids : u \in Alive <=> cluster[u] \in Phases
    BY DEF Alive
<1>. QED
    BY <1>2, <1>3, <1>4, SetToSeqFacts

\* The list of the living pods.
LEMMA ListIsTheCluster ==
    ASSUME cluster \in [Uids -> Phases \cup {"none", "gone"}],
           NEW s, s = [i \in 1..Cardinality(Alive) |-> Row(SetToSeq(Alive)[i])]
    PROVE  Table(s) /\ \A u \in Uids : Agrees(s, u)
<1> DEFINE n == Cardinality(Alive)
           f == SetToSeq(Alive)
<1>1. /\ n \in Nat /\ f \in [1..n -> Alive]
      /\ \A i, j \in 1..n : f[i] = f[j] => i = j
      /\ \A u \in Alive : \E i \in 1..n : f[i] = u
      /\ \A u \in Alive : u \in Uids /\ Row(u) \in PodRows /\ Row(u).uid = u
    BY AliveFacts
<1>2. s = [i \in 1..n |-> Row(f[i])]
    OBVIOUS
<1> HIDE DEF n, f
<1>4. \A i \in 1..n : s[i] = Row(f[i]) /\ s[i].uid = f[i] /\ f[i] \in Alive
                       /\ s[i] \in PodRows
  <2> SUFFICES ASSUME NEW i \in 1..n
               PROVE  s[i] = Row(f[i]) /\ s[i].uid = f[i] /\ f[i] \in Alive /\ s[i] \in PodRows
      OBVIOUS
  <2>1. f[i] \in Alive
      BY <1>1
  <2>2. s[i] = Row(f[i])
      BY <1>2
  <2>. QED
      BY <1>1, <2>1, <2>2
<1>3. s \in Seq(PodRows) /\ Len(s) = n
  <2>1. s \in [1..n -> PodRows]
      BY <1>2, <1>4
  <2>2. n \in Nat
      BY <1>1
  <2>3. \A g \in [1..n -> PodRows] : g \in Seq(PodRows) /\ Len(g) = n
      BY <2>2
  <2>. QED
      BY <2>1, <2>3, Zenon
<1>5. Table(s)
  <2>1. ASSUME NEW i \in 1..n, NEW j \in 1..n, s[i].uid = s[j].uid PROVE i = j
    <3>1. f[i] = f[j]
        BY <1>4, <2>1
    <3>. QED
        BY <1>1, <3>1
  <2>. QED
      BY <1>3, <2>1 DEF Table
<1>6. ASSUME NEW u \in Uids PROVE Agrees(s, u)
  <2>1. CASE u \in Alive
    <3>1. PICK i \in 1..n : f[i] = u
        BY <1>1, <2>1
    <3>2. s[i] = Row(u) /\ s[i].uid = u /\ i \in 1..Len(s)
        BY <1>3, <1>4, <3>1
    <3>3. \A j \in 1..Len(s) : s[j].uid = u => s[j] = Row(u)
        BY <1>3, <1>4
    <3>4. {x \in RowsIn(s) : x.uid = u} = {Row(u)}
        BY <3>2, <3>3 DEF RowsIn
    <3>. QED
        BY <2>1, <3>4 DEF Agrees
  <2>2. CASE u \notin Alive
    <3>1. \A j \in 1..Len(s) : s[j].uid # u
        BY <1>3, <1>4, <2>2
    <3>. QED
        BY <2>2, <3>1 DEF Agrees, RowsIn
  <2>. QED
      BY <2>1, <2>2
<1>. QED
    BY <1>5, <1>6

\* applyPodEvent replaces, adds or takes out the x of its pod.
LEMMA EventApplied ==
    ASSUME Table(pods), NEW e \in PodEvents, ApplyPodEvent(e)
    PROVE  /\ Table(pods')
           /\ RowsIn(pods') = {x \in RowsIn(pods) : x.uid # e.uid}
                              \cup (IF e.phase = "gone" THEN {} ELSE {e})
<1>1. /\ pods \in Seq(PodRows) /\ DOMAIN pods = 1..Len(pods) /\ Len(pods) \in Nat
      /\ \A i, j \in 1..Len(pods) : pods[i].uid = pods[j].uid => i = j
    BY DEF Table
<1>2. Index(e.uid) = {i \in 1..Len(pods) : pods[i].uid = e.uid}
    BY <1>1 DEF Index
<1>3. CASE e.phase = "gone"
  <2> DEFINE K == (1..Len(pods)) \ Index(e.uid)
  <2>1. pods' = Picked(pods, K)
      BY <1>1, <1>3 DEF ApplyPodEvent
  <2>2. K \in SUBSET (1..Len(pods)) /\ \A i \in 1..Len(pods) : i \in K <=> pods[i].uid # e.uid
      BY <1>2
  <2>. HIDE DEF K
  <2>3. IsFiniteSet(1..Len(pods))
    <3>1. \A m \in Nat : IsFiniteSet(1..m)
        BY FS_Interval
    <3>. QED
        BY <1>1, <3>1
  <2>4. IsFiniteSet(K) /\ K \in SUBSET Int
    <3>1. IsFiniteSet(K)
        BY <2>2, <2>3, FS_Subset
    <3>. QED
        BY <2>2, <3>1
  <2>5. /\ pods' \in Seq(PodRows) /\ Len(pods') = Cardinality(K)
        /\ \A k \in 1..Cardinality(K) : pods'[k] = pods[Nth(K, k)]
      BY <1>1, <2>1, <2>2, <2>4, PickedFacts
  <2>6. /\ \A k \in 1..Cardinality(K) : Nth(K, k) \in K /\ RankIn(K, Nth(K, k)) = k
        /\ \A i \in K : RankIn(K, i) \in 1..Cardinality(K) /\ Nth(K, RankIn(K, i)) = i
      BY <2>4, NthFacts
  <2>7. Table(pods')
    <3> SUFFICES ASSUME NEW k \in 1..Cardinality(K), NEW l \in 1..Cardinality(K),
                        pods'[k].uid = pods'[l].uid
                 PROVE  k = l
        BY <2>5 DEF Table
    <3>1. Nth(K, k) = Nth(K, l)
        BY <1>1, <2>2, <2>5, <2>6
    <3>. QED
        BY <2>6, <3>1
  <2>8. RowsIn(pods') = {x \in RowsIn(pods) : x.uid # e.uid}
    <3>1. ASSUME NEW k \in 1..Len(pods')
          PROVE  \E i \in 1..Len(pods) : pods'[k] = pods[i] /\ pods[i].uid # e.uid
        BY <2>2, <2>5, <2>6
    <3>2. ASSUME NEW i \in 1..Len(pods), pods[i].uid # e.uid
          PROVE  \E k \in 1..Len(pods') : pods'[k] = pods[i]
      <4>1. i \in K
          BY <2>2, <3>2
      <4>. QED
          BY <2>5, <2>6, <4>1
    <3>. QED
        BY <3>1, <3>2 DEF RowsIn
  <2>. QED
      BY <1>3, <2>7, <2>8
<1>4. CASE e.phase # "gone" /\ Index(e.uid) = {}
  <2>1. pods' = Append(pods, e) /\ e \in PodRows
      BY <1>4 DEF ApplyPodEvent, PodEvents, PodRows
  <2>2. /\ pods' \in Seq(PodRows) /\ Len(pods') = Len(pods) + 1
        /\ pods'[Len(pods) + 1] = e /\ \A i \in 1..Len(pods) : pods'[i] = pods[i]
      BY <1>1, <2>1
  <2>3. \A i \in 1..Len(pods) : pods[i].uid # e.uid
      BY <1>2, <1>4
  <2>4. \A i \in 1..Len(pods') : i \in 1..Len(pods) \/ i = Len(pods) + 1
      BY <1>1, <2>2
  <2>5. Table(pods')
      BY <1>1, <2>2, <2>3, <2>4 DEF Table
  <2>6. RowsIn(pods') = RowsIn(pods) \cup {e}
    <3>1. \A i \in 1..Len(pods) : i \in 1..Len(pods')
        BY <1>1, <2>2
    <3>2. Len(pods) + 1 \in 1..Len(pods')
        BY <1>1, <2>2
    <3>. QED
        BY <2>2, <2>4, <3>1, <3>2 DEF RowsIn
  <2>7. RowsIn(pods) = {x \in RowsIn(pods) : x.uid # e.uid}
      BY <2>3 DEF RowsIn
  <2>. QED
      BY <1>4, <2>5, <2>6, <2>7
<1>5. CASE e.phase # "gone" /\ Index(e.uid) # {}
  <2>1. pods' = [i \in 1..Len(pods) |-> IF i \in Index(e.uid) THEN e ELSE pods[i]]
        /\ e \in PodRows
      BY <1>1, <1>5 DEF ApplyPodEvent, PodEvents, PodRows
  <2>2. PICK k \in 1..Len(pods) : pods[k].uid = e.uid
      BY <1>2, <1>5
  <2>3. Index(e.uid) = {k}
      BY <1>1, <1>2, <2>2
  <2>4. /\ pods' \in Seq(PodRows) /\ Len(pods') = Len(pods)
        /\ pods'[k] = e /\ \A i \in 1..Len(pods) : i # k => pods'[i] = pods[i]
      BY <1>1, <2>1, <2>3
  <2>5. Table(pods')
      BY <1>1, <2>2, <2>4 DEF Table
  <2>6. RowsIn(pods') = {x \in RowsIn(pods) : x.uid # e.uid} \cup {e}
      BY <1>1, <2>2, <2>4 DEF RowsIn
  <2>. QED
      BY <1>5, <2>5, <2>6
<1>. QED
    BY <1>3, <1>4, <1>5

LEMMA PodsStart == PodsInit => PodsTyped /\ FiltersTyped /\ CrossingInv
<1> SUFFICES ASSUME PodsInit PROVE PodsTyped /\ FiltersTyped /\ CrossingInv
    OBVIOUS
<1>1. Table(<<>>) /\ <<>> \in Seq(PodEvents)
    BY DEF Table
<1>2. cluster \in [Uids -> Phases \cup {"none", "gone"}]
    BY DEF PodsInit, Phases
<1>3. PodsTyped
    BY <1>1, <1>2 DEF PodsInit, PodsTyped
<1>4. FiltersTyped
    BY DEF PodsInit, FiltersTyped, SortKeys
<1>5. CrossingInv
    BY DEF PodsInit, CrossingInv
<1>. QED
    BY <1>3, <1>4, <1>5

\* What touches only the filters.
LEMMA FiltersKeep ==
    ASSUME PodsTyped, CrossingInv,
           UNCHANGED <<cluster, watched, events, fetch, pods, podsLoading, podsError, lost>>
    PROVE  PodsTyped' /\ CrossingInv'
BY DEF PodsTyped, CrossingInv, fetch, Agrees, Quiet, LastOfItsPod, Alive, Row, Table

LEMMA ChangeKeeps ==
    ASSUME PodsTyped, CrossingInv, NEW u \in Uids, NEW new \in Phases \cup {"gone"},
           ClusterChanges(u, new)
    PROVE  PodsTyped' /\ CrossingInv'
<1> DEFINE e == [uid |-> u, phase |-> new]
<1>1. /\ cluster' = [cluster EXCEPT ![u] = new]
      /\ events' = IF watched THEN Append(events, e) ELSE events
      /\ lost' = (lost \/ ~watched)
      /\ UNCHANGED <<watched, listing, listed, passed, pods, podsLoading, podsError>>
    BY DEF ClusterChanges, fetch
<1>2. /\ cluster \in [Uids -> Phases \cup {"none", "gone"}]
      /\ cluster' \in [Uids -> Phases \cup {"none", "gone"}]
      /\ cluster'[u] = new /\ \A v \in Uids \ {u} : cluster'[v] = cluster[v]
    BY <1>1 DEF PodsTyped
<1>3. e \in PodEvents /\ e.uid = u /\ e.phase = new
    BY DEF PodEvents
<1>. HIDE DEF e
<1>4. events \in Seq(PodEvents) /\ events' \in Seq(PodEvents)
    BY <1>1, <1>3 DEF PodsTyped
<1>5. PodsTyped'
    BY <1>1, <1>2, <1>4 DEF PodsTyped, Table
<1>6. ASSUME NEW v \in Uids \ {u} PROVE /\ v \in Alive' <=> v \in Alive
                                       /\ Row(v)' = Row(v)
    BY <1>2 DEF Alive, Row
<1>7. \A s : \A v \in Uids \ {u} :
         {x \in RowsIn(s) : x.uid = v} = (IF v \in Alive' THEN {Row(v)'} ELSE {})
            <=> {x \in RowsIn(s) : x.uid = v} = (IF v \in Alive THEN {Row(v)} ELSE {})
    BY <1>6
<1>8. CASE ~watched
  <2>1. lost' /\ events = <<>> /\ events' = <<>>
      BY <1>1, <1>8 DEF CrossingInv
  <2>. QED
      BY <1>5, <1>1, <1>8, <2>1 DEF CrossingInv
<1>9. CASE watched
  <2>1. /\ events' = Append(events, e) /\ Len(events') = Len(events) + 1
        /\ Len(events) \in Nat /\ events'[Len(events) + 1] = e
        /\ \A i \in 1..Len(events) : events'[i] = events[i]
      BY <1>1, <1>4, <1>9
  <2>2. ASSUME NEW v \in Uids, Quiet(v)' PROVE v \in Uids \ {u} /\ Quiet(v)
    <3>1. Len(events) + 1 \in 1..Len(events') /\ \A i \in 1..Len(events) : i \in 1..Len(events')
        BY <2>1
    <3>. QED
        BY <1>3, <2>1, <2>2, <3>1 DEF Quiet
  <2>3. ASSUME NEW v \in Uids, Quiet(v)', Agrees(pods, v) PROVE Agrees(pods, v)'
    <3>1. RowsIn(pods)' = RowsIn(pods)
        BY <1>1 DEF RowsIn
    <3>. QED
        BY <1>7, <2>2, <2>3, <3>1 DEF Agrees
  <2>4. ASSUME NEW v \in Uids, Quiet(v)', Agrees(listed, v) PROVE Agrees(listed, v)'
    <3>1. RowsIn(listed)' = RowsIn(listed)
        BY <1>1 DEF RowsIn
    <3>. QED
        BY <1>7, <2>2, <2>4, <3>1 DEF Agrees
  <2>5. ASSUME NEW i \in 1..Len(events'), LastOfItsPod(i)'
        PROVE  events'[i].phase = cluster'[events'[i].uid]
    <3>1. CASE i = Len(events) + 1
        BY <1>2, <1>3, <2>1, <3>1
    <3>2. CASE i # Len(events) + 1
      <4>1. i \in 1..Len(events) /\ events'[i] = events[i] /\ events[i] \in PodEvents
          BY <1>4, <2>1, <3>2
      <4>2. Len(events) + 1 \in (i + 1)..Len(events')
            /\ \A j \in (i + 1)..Len(events) : j \in (i + 1)..Len(events') /\ j \in 1..Len(events)
          BY <2>1, <4>1
      <4>3. events[i].uid # u /\ LastOfItsPod(i)
          BY <1>3, <2>1, <2>5, <4>1, <4>2 DEF LastOfItsPod
      <4>4. events[i].phase = cluster[events[i].uid] /\ events[i].uid \in Uids \ {u}
          BY <4>1, <4>3 DEF CrossingInv, PodEvents
      <4>. QED
          BY <1>2, <4>1, <4>4
    <3>. QED
        BY <3>1, <3>2
  <2>6. lost' = lost /\ listing' = listing /\ passed' = passed /\ watched'
      BY <1>1, <1>9 DEF PodsTyped
  <2>7. ~lost' /\ listing' = "no" => \A v \in Uids : Quiet(v)' => Agrees(pods, v)'
      BY <2>2, <2>3, <2>6 DEF CrossingInv
  <2>8. ~lost' /\ listing' = "read" /\ ~passed' =>
           \A v \in Uids : Quiet(v)' => Agrees(listed, v)'
      BY <2>2, <2>4, <2>6 DEF CrossingInv
  <2>. QED
      BY <1>5, <2>5, <2>6, <2>7, <2>8 DEF CrossingInv
<1>. QED
    BY <1>8, <1>9

LEMMA WatchKeeps ==
    ASSUME PodsTyped, CrossingInv, WatchBegins \/ WatchEnds
    PROVE  PodsTyped' /\ CrossingInv'
<1>1. UNCHANGED <<cluster, listing, listed, passed, pods, podsLoading, podsError>>
    BY DEF WatchBegins, WatchEnds, fetch
<1>2. watched' \in BOOLEAN /\ lost' \in BOOLEAN
    BY DEF WatchBegins, WatchEnds, PodsTyped
<1>3. \A u \in Uids : /\ Agrees(pods, u)' <=> Agrees(pods, u)
                      /\ Agrees(listed, u)' <=> Agrees(listed, u)
    BY <1>1 DEF Agrees, RowsIn, Alive, Row
<1>4. CASE WatchBegins
  <2> DEFINE all == [i \in 1..Cardinality(Alive) |-> Row(SetToSeq(Alive)[i])]
  <2>0. events = <<>> /\ lost' = lost /\ watched'
      BY <1>4 DEF WatchBegins, CrossingInv
  <2>1. events' = events \/ events' = events \o all
      BY <1>4 DEF WatchBegins, Row
  <2>2. Table(all) /\ \A u \in Uids : Agrees(all, u)
      BY ListIsTheCluster DEF PodsTyped
  <2>. HIDE DEF all
  <2>3. events' = <<>> \/ events' = all
    <3>1. all \in Seq(PodRows) /\ <<>> \o all = all
        BY <2>2 DEF Table
    <3>. QED
        BY <2>0, <2>1, <3>1
  <2>4. ASSUME NEW i \in 1..Len(all)
        PROVE  all[i] \in PodEvents /\ all[i].phase = cluster[all[i].uid]
    <3>0. all[i] \in PodRows
        BY <2>2 DEF Table
    <3>1. all[i] \in PodRows /\ all[i].uid \in Uids
        BY <3>0 DEF PodRows
    <3>2. all[i] \in {x \in RowsIn(all) : x.uid = all[i].uid}
        BY DEF RowsIn
    <3>3. all[i] = Row(all[i].uid)
        BY <2>2, <3>1, <3>2 DEF Agrees
    <3>. QED
        BY <3>1, <3>3 DEF PodRows, PodEvents, Row
  <2>5. events' \in Seq(PodEvents)
    <3>1. all \in Seq(PodRows)
        BY <2>2 DEF Table
    <3>2. all \in Seq(PodEvents) /\ <<>> \in Seq(PodEvents)
        BY <2>4, <3>1
    <3>. QED
        BY <2>3, <3>2
  <2>6. \A i \in 1..Len(events') : events'[i].phase = cluster'[events'[i].uid]
      BY <1>1, <2>3, <2>4
  <2>7. \A u \in Uids : Quiet(u)
      BY <2>0 DEF Quiet
  <2>8. PodsTyped'
      BY <1>1, <1>2, <2>5 DEF PodsTyped, Table
  <2>. QED
      BY <1>1, <1>3, <2>0, <2>6, <2>7, <2>8 DEF CrossingInv
<1>5. CASE WatchEnds
  <2>1. events' = <<>> /\ lost' = (lost \/ events # <<>>)
      BY <1>5 DEF WatchEnds
  <2>2. ~lost' => ~lost /\ \A u \in Uids : Quiet(u)
    <3> SUFFICES ASSUME ~lost' PROVE ~lost /\ \A u \in Uids : Quiet(u)
        OBVIOUS
    <3>1. ~lost /\ events = <<>>
        BY <2>1
    <3>. QED
        BY <3>1 DEF Quiet
  <2>3. PodsTyped'
    <3>1. events' \in Seq(PodEvents)
        BY <2>1
    <3>. QED
        BY <1>1, <1>2, <3>1 DEF PodsTyped, Table
  <2>4. ~lost' /\ listing' = "no" => \A u \in Uids : Quiet(u)' => Agrees(pods, u)'
      BY <1>1, <1>3, <2>2 DEF CrossingInv
  <2>5. ~lost' /\ listing' = "read" /\ ~passed' =>
           \A u \in Uids : Quiet(u)' => Agrees(listed, u)'
      BY <1>1, <1>3, <2>2 DEF CrossingInv
  <2>. QED
      BY <2>1, <2>3, <2>4, <2>5 DEF CrossingInv
<1>. QED
    BY <1>4, <1>5

LEMMA ListKeeps ==
    ASSUME PodsTyped, CrossingInv,
           ServerLists \/ ListArrives \/ ListFails \/ Retry \/ Reopen
    PROVE  PodsTyped' /\ CrossingInv'
<1>1. UNCHANGED <<cluster, watched, events>>
    BY DEF ServerLists, ListArrives, ListFails, Retry, Reopen
<1>2. \A u \in Uids : Quiet(u)' <=> Quiet(u)
    BY <1>1 DEF Quiet
<1>3. \A i : LastOfItsPod(i)' <=> LastOfItsPod(i)
    BY <1>1 DEF LastOfItsPod
<1>4. Table(<<>>)
    BY DEF Table
<1>5. /\ ~watched' => events' = <<>>
      /\ \A i \in 1..Len(events') : LastOfItsPod(i)' => events'[i].phase = cluster'[events'[i].uid]
    BY <1>1, <1>3 DEF CrossingInv
<1>6. CASE ServerLists
  <2>1. /\ listing' = "read" /\ passed' = FALSE /\ lost' = FALSE
        /\ listed' = [i \in 1..Cardinality(Alive) |-> Row(SetToSeq(Alive)[i])]
        /\ UNCHANGED <<pods, podsLoading, podsError>>
      BY <1>6 DEF ServerLists
  <2>2. Table(listed') /\ \A u \in Uids : Agrees(listed', u)
      BY <2>1, ListIsTheCluster DEF PodsTyped
  <2>3. Table(listed)' /\ \A u \in Uids : Agrees(listed, u)'
      BY <1>1, <2>2 DEF Table, Agrees, RowsIn, Alive, Row
  <2>4. PodsTyped'
      BY <1>1, <2>1, <2>3 DEF PodsTyped, Table
  <2>. QED
      BY <1>5, <2>1, <2>3, <2>4 DEF CrossingInv
<1>7. CASE ListArrives
  <2>1. /\ listing = "read" /\ pods' = listed /\ lost' = (lost \/ passed)
        /\ listing' = "no" /\ listed' = <<>> /\ passed' = FALSE /\ podsLoading' = FALSE
        /\ UNCHANGED podsError
      BY <1>7 DEF ListArrives
  <2>2. \A u \in Uids : Agrees(pods, u)' <=> Agrees(listed, u)
      BY <1>1, <2>1 DEF Agrees, RowsIn, Alive, Row
  <2>3. PodsTyped'
      BY <1>1, <1>4, <2>1 DEF PodsTyped, Table
  <2>. QED
      BY <1>2, <1>5, <2>1, <2>2, <2>3 DEF CrossingInv
<1>8. CASE ListFails
  <2>1. /\ listing' = "no" /\ listed' = <<>> /\ passed' = FALSE /\ podsError' = TRUE
        /\ podsLoading' = FALSE /\ lost' = TRUE /\ UNCHANGED pods
      BY <1>8 DEF ListFails
  <2>2. PodsTyped'
      BY <1>1, <1>4, <2>1 DEF PodsTyped, Table
  <2>. QED
      BY <1>5, <2>1, <2>2 DEF CrossingInv
<1>9. CASE Retry
  <2>1. /\ podsError' = FALSE /\ listing' = "sent" /\ listed' = <<>> /\ passed' = FALSE
        /\ UNCHANGED <<pods, podsLoading, lost>>
      BY <1>9 DEF Retry
  <2>2. PodsTyped'
      BY <1>1, <1>4, <2>1 DEF PodsTyped, Table
  <2>. QED
      BY <1>5, <2>1, <2>2 DEF CrossingInv
<1>10. CASE Reopen
  <2>1. /\ pods' = <<>> /\ podsLoading' = TRUE /\ podsError' = FALSE
        /\ listing' = "sent" /\ listed' = <<>> /\ passed' = FALSE /\ UNCHANGED lost
      BY <1>10 DEF Reopen
  <2>2. PodsTyped'
      BY <1>1, <1>4, <2>1 DEF PodsTyped, Table
  <2>. QED
      BY <1>5, <2>1, <2>2 DEF CrossingInv
<1>. QED
    BY <1>6, <1>7, <1>8, <1>9, <1>10

LEMMA EventKeeps ==
    ASSUME PodsTyped, CrossingInv, EventArrives
    PROVE  PodsTyped' /\ CrossingInv'
<1> DEFINE e == Head(events)
           n == Len(events)
<1>1. /\ events # <<>> /\ ApplyPodEvent(e) /\ events' = Tail(events)
      /\ passed' = (listing = "read")
      /\ UNCHANGED <<cluster, watched, listing, listed, podsLoading, podsError, lost>>
    BY DEF EventArrives
<1>2. /\ events \in Seq(PodEvents) /\ n \in Nat /\ n >= 1 /\ e = events[1] /\ e \in PodEvents
      /\ events' \in Seq(PodEvents) /\ Len(events') = n - 1
      /\ \A i \in 1..(n - 1) : events'[i] = events[i + 1]
    BY <1>1 DEF PodsTyped
<1>. HIDE DEF e
<1>3. /\ Table(pods')
      /\ RowsIn(pods') = {x \in RowsIn(pods) : x.uid # e.uid}
                         \cup (IF e.phase = "gone" THEN {} ELSE {e})
    BY <1>1, <1>2, EventApplied DEF PodsTyped
<1>4. PodsTyped'
    BY <1>1, <1>2, <1>3 DEF PodsTyped, Table
<1>5. ASSUME NEW i \in 1..Len(events'), LastOfItsPod(i)'
      PROVE  events'[i].phase = cluster'[events'[i].uid]
  <2>1. i + 1 \in 1..n /\ events'[i] = events[i + 1]
      BY <1>2
  <2>2. ASSUME NEW j \in ((i + 1) + 1)..n PROVE events[j].uid # events[i + 1].uid
    <3>1. j - 1 \in (i + 1)..Len(events') /\ j - 1 \in 1..(n - 1) /\ (j - 1) + 1 = j
        BY <1>2
    <3>. QED
        BY <1>2, <1>5, <2>1, <3>1 DEF LastOfItsPod
  <2>. QED
      BY <1>1, <2>1, <2>2 DEF CrossingInv, LastOfItsPod
<1>6. ASSUME NEW u \in Uids, Quiet(u)', u # e.uid PROVE Quiet(u)
  <2> SUFFICES ASSUME NEW i \in 1..n PROVE events[i].uid # u
      BY DEF Quiet
  <2>1. CASE i = 1
      BY <1>2, <1>6, <2>1
  <2>2. CASE i # 1
    <3>1. i - 1 \in 1..Len(events') /\ i - 1 \in 1..(n - 1) /\ (i - 1) + 1 = i
        BY <1>2, <2>2
    <3>. QED
        BY <1>2, <1>6, <3>1 DEF Quiet
  <2>. QED
      BY <2>1, <2>2
<1>7. ASSUME NEW u \in Uids, Quiet(u)', u = e.uid PROVE Agrees(pods, u)'
  <2>1. LastOfItsPod(1)
    <3> SUFFICES ASSUME NEW j \in (1 + 1)..n PROVE events[j].uid # events[1].uid
        BY DEF LastOfItsPod
    <3>1. j - 1 \in 1..Len(events') /\ j - 1 \in 1..(n - 1) /\ (j - 1) + 1 = j
        BY <1>2
    <3>. QED
        BY <1>2, <1>7, <3>1 DEF Quiet
  <2>2. e.phase = cluster[u] /\ 1 \in 1..n
      BY <1>2, <1>7, <2>1 DEF CrossingInv
  <2>3. /\ e.phase # "gone" => e.phase \in Phases
        /\ "gone" \notin Phases
        /\ e = [uid |-> e.uid, phase |-> e.phase]
      BY <1>2 DEF PodEvents, Phases
  <2>4. {x \in RowsIn(pods') : x.uid = u} = IF e.phase = "gone" THEN {} ELSE {e}
      BY <1>3, <1>7
  <2>5. /\ u \in Alive' <=> cluster[u] \in Phases
        /\ Row(u)' = [uid |-> u, phase |-> cluster[u]]
      BY <1>1 DEF Alive, Row
  <2>6. RowsIn(pods)' = RowsIn(pods')
      BY DEF RowsIn
  <2>. QED
      BY <1>7, <2>2, <2>3, <2>4, <2>5, <2>6 DEF Agrees, Phases
<1>8. ASSUME NEW u \in Uids, u # e.uid, Agrees(pods, u) PROVE Agrees(pods, u)'
  <2>1. {x \in RowsIn(pods') : x.uid = u} = {x \in RowsIn(pods) : x.uid = u}
      BY <1>3, <1>8
  <2>2. RowsIn(pods)' = RowsIn(pods') /\ Alive' = Alive /\ Row(u)' = Row(u)
      BY <1>1 DEF RowsIn, Alive, Row
  <2>. QED
      BY <1>8, <2>1, <2>2 DEF Agrees
<1>9. ~lost' /\ listing' = "no" => \A u \in Uids : Quiet(u)' => Agrees(pods, u)'
    BY <1>1, <1>6, <1>7, <1>8 DEF CrossingInv
<1>10. ~(listing' = "read" /\ ~passed')
    BY <1>1
<1>11. ~watched' => events' = <<>>
    BY <1>1 DEF CrossingInv
<1>. QED
    BY <1>4, <1>5, <1>9, <1>10, <1>11 DEF CrossingInv

\* The filters: what the namespace filter hides is what the user has unticked.
LEMMA FilterStep ==
    ASSUME PodsTyped, FiltersTyped, [PodsNext]_podsVars
    PROVE  FiltersTyped'
<1>1. CASE UNCHANGED filters
    BY <1>1 DEF filters, FiltersTyped
<1>2. ASSUME NEW sel \in SUBSET PodNamespaces, FilterNamespaces(sel) PROVE FiltersTyped'
  <2>1. /\ excludedNamespaces' = Offered \ sel /\ unticked' = Offered \ sel
        /\ UNCHANGED <<excludedStatuses, sortKey, sortDir>>
      BY <1>2 DEF FilterNamespaces, OnNamespaceFilter
  <2>2. \A i \in DOMAIN pods : pods[i] \in PodRows
      BY DEF PodsTyped, Table
  <2>3. Offered \subseteq PodNamespaces
      BY <2>2 DEF Offered, PodNamespaces, PodRows
  <2>. QED
      BY <2>1, <2>3 DEF FiltersTyped
<1>3. ASSUME NEW sel \in SUBSET Phases, OnStatusFilter(sel) PROVE FiltersTyped'
    BY <1>3 DEF OnStatusFilter, FiltersTyped
<1>4. ASSUME NEW text, Search(text) PROVE FiltersTyped'
    BY <1>4 DEF Search, FiltersTyped
<1>5. ASSUME NEW key \in SortKeys, SetSort(key) PROVE FiltersTyped'
    BY <1>5 DEF SetSort, FiltersTyped
<1>6. CASE UNCHANGED podsVars
    BY <1>1, <1>6 DEF podsVars, filters
<1>7. ASSUME NEW u \in Uids, NEW new \in Phases \cup {"gone"}, ClusterChanges(u, new)
      PROVE  FiltersTyped'
    BY <1>1, <1>7 DEF ClusterChanges
<1>8. CASE \/ WatchBegins \/ WatchEnds
           \/ ServerLists \/ ListArrives \/ ListFails \/ Retry \/ EventArrives \/ Reopen
    BY <1>1, <1>8 DEF WatchBegins, WatchEnds, ServerLists, ListArrives, ListFails, Retry,
                      EventArrives, Reopen
<1>. QED
    BY <1>2, <1>3, <1>4, <1>5, <1>6, <1>7, <1>8 DEF PodsNext

LEMMA CrossingStep ==
    ASSUME PodsTyped, CrossingInv, [PodsNext]_podsVars
    PROVE  PodsTyped' /\ CrossingInv'
<1>1. ASSUME \/ \E sel \in SUBSET PodNamespaces : FilterNamespaces(sel)
             \/ \E sel \in SUBSET Phases : OnStatusFilter(sel)
             \/ \E text \in {NoText, "name"} : Search(text)
             \/ \E key \in SortKeys : SetSort(key)
      PROVE  PodsTyped' /\ CrossingInv'
  <2>1. Touch
      BY <1>1 DEF FilterNamespaces, OnStatusFilter, Search, SetSort
  <2>. QED
      BY <2>1, FiltersKeep DEF Touch
<1>2. CASE UNCHANGED podsVars
    BY <1>2, FiltersKeep DEF podsVars, fetch
<1>3. ASSUME NEW u \in Uids, NEW new \in Phases \cup {"gone"}, ClusterChanges(u, new)
      PROVE  PodsTyped' /\ CrossingInv'
    BY <1>3, ChangeKeeps
<1>4. CASE WatchBegins \/ WatchEnds
    BY <1>4, WatchKeeps
<1>5. CASE ServerLists \/ ListArrives \/ ListFails \/ Retry \/ Reopen
    BY <1>5, ListKeeps
<1>6. CASE EventArrives
    BY <1>6, EventKeeps
<1>. QED
    BY <1>1, <1>2, <1>3, <1>4, <1>5, <1>6 DEF PodsNext

\* What the table shows: the rows that pass the filters, in whatever order.
PassingRows == {i \in DOMAIN pods : Passes(pods[i])}

LEMMA RanksAreNumbers ==
    ASSUME PodsTyped
    PROVE  \A i \in DOMAIN pods : Rank(pods[i]) \in Int
<1> SUFFICES ASSUME NEW i \in DOMAIN pods PROVE Rank(pods[i]) \in Int
    OBVIOUS
<1>1. pods[i] \in PodRows
    BY DEF PodsTyped, Table
<1>2. pods[i].uid \in Uids
    BY <1>1 DEF PodRows
<1>3. \E k \in 1..Cardinality(Uids) : SetToSeq(Uids)[k] = pods[i].uid
    BY <1>2, SetToSeqFacts, PodsAssumption
<1>4. /\ (CHOOSE k \in 1..Cardinality(Uids) : SetToSeq(Uids)[k] = pods[i].uid)
         \in 1..Cardinality(Uids)
      /\ \A k \in 1..Cardinality(Uids) : k \in Int
    BY <1>3
<1>. QED
    BY <1>4 DEF Rank

LEMMA TheTableShows ==
    ASSUME PodsTyped
    PROVE  Range(FilteredPods) = {pods[i] : i \in PassingRows}
<1> DEFINE A == PassingRows
           R == {x \in A \X A : Before(x[1], x[2])}
           n == Cardinality(A)
           place == PlaceIn(R, A)
<1>1. Len(pods) \in Nat /\ DOMAIN pods = 1..Len(pods) /\ A \in SUBSET (1..Len(pods))
    BY DEF PodsTyped, Table, PassingRows
<1>2. IsFiniteSet(1..Len(pods))
    BY <1>1, FS_Interval
<1>3. IsFiniteSet(A)
    BY <1>1, <1>2, FS_Subset
<1>4. \A i \in A : i \in Int /\ Rank(pods[i]) \in Int
    BY <1>1, RanksAreNumbers
<1>5. \A i, j \in A : <<i, j>> \in R <=> Before(i, j)
    OBVIOUS
<1>6. FilteredPods = [k \in 1..n |-> pods[CHOOSE i \in A : place[i] = k]]
  <2>1. \A i \in A : {j \in A : Before(j, i)} = {j \in A : <<j, i>> \in R}
      BY <1>5
  <2>2. [i \in A |-> Cardinality({j \in A : Before(j, i)}) + 1] = place
      BY <2>1 DEF PlaceIn
  <2> DEFINE Q == {i \in DOMAIN pods : Passes(pods[i])}
             at == [i \in Q |-> Cardinality({j \in Q : Before(j, i)}) + 1]
  <2>3. FilteredPods = [k \in 1..Cardinality(Q) |-> pods[CHOOSE i \in Q : at[i] = k]]
      BY DEF FilteredPods
  <2>4. Q = A
      BY DEF PassingRows
  <2>5. at = place
      BY <2>2, <2>4
  <2>. HIDE DEF Q, at, A, place, n
  <2>6. n = Cardinality(Q)
      BY <2>4 DEF n
  <2>7. [k \in 1..n |-> pods[CHOOSE i \in A : place[i] = k]] =
           [k \in 1..n |-> pods[CHOOSE i \in Q : at[i] = k]]
      BY <2>4, <2>5
  <2>. QED
      BY <2>3, <2>6, <2>7
<1>7. StrictOrder(R, A)
  <2>. HIDE DEF A, R
  <2>1. ASSUME NEW x \in A PROVE <<x, x>> \notin R
      BY <1>4, <1>5 DEF Before
  <2>2. ASSUME NEW x \in A, NEW y \in A, x # y PROVE <<x, y>> \in R \/ <<y, x>> \in R
      BY <1>4, <1>5, <2>2 DEF Before
  <2>3. ASSUME NEW x \in A, NEW y \in A, NEW z \in A, <<x, y>> \in R, <<y, z>> \in R
        PROVE  <<x, z>> \in R
      BY <1>4, <1>5, <2>3 DEF Before
  <2>. QED
      BY <2>1, <2>2, <2>3 DEF StrictOrder
<1>. HIDE DEF R, A
<1>8. /\ n \in Nat /\ place \in [A -> 1..n]
      /\ \A i, j \in A : place[i] = place[j] => i = j
      /\ \A k \in 1..n : \E i \in A : place[i] = k
    BY <1>3, <1>7, PlacesAreTaken
<1>. HIDE DEF place, n
<1>9. DOMAIN FilteredPods = 1..n
    BY <1>6
<1>10. ASSUME NEW k \in 1..n PROVE \E i \in A : FilteredPods[k] = pods[i]
  <2>1. (CHOOSE i \in A : place[i] = k) \in A
      BY <1>8
  <2>. QED
      BY <1>6, <2>1
<1>11. ASSUME NEW i \in A PROVE \E k \in 1..n : FilteredPods[k] = pods[i]
  <2>1. place[i] \in 1..n
      BY <1>8
  <2>2. (CHOOSE j \in A : place[j] = place[i]) = i
      BY <1>8
  <2>3. FilteredPods[place[i]] = pods[i]
      BY <1>6, <2>1, <2>2
  <2>. QED
      BY <2>1, <2>3
<1>12. Range(FilteredPods) = {FilteredPods[k] : k \in 1..n}
    BY <1>9 DEF Range
<1>13. Range(FilteredPods) = {pods[i] : i \in A}
    BY <1>10, <1>11, <1>12
<1>. QED
    BY <1>13 DEF A

LEMMA PodsInvIsEnough ==
    ASSUME PodsTyped, FiltersTyped, CrossingInv
    PROVE  PodsTypeOK /\ PodsPromise
<1>1. \A i \in DOMAIN pods : pods[i] \in PodRows
    BY DEF PodsTyped, Table
<1>2. PodsTypeOK
    BY <1>1 DEF PodsTyped, FiltersTyped, PodRows, PodsTypeOK
<1>3. DOMAIN pods = 1..Len(pods)
    BY DEF PodsTyped, Table
<1>4. \A i, j \in DOMAIN pods : pods[i].uid = pods[j].uid => i = j
    BY <1>3 DEF PodsTyped, Table
<1>5. ASSUME listing = "no", events = <<>>, ~lost
      PROVE  {pods[i] : i \in DOMAIN pods} = {Row(u) : u \in Alive}
  <2>1. \A u \in Uids : Quiet(u)
      BY <1>5 DEF Quiet
  <2>2. \A u \in Uids : Agrees(pods, u)
      BY <1>5, <2>1 DEF CrossingInv
  <2>3. {pods[i] : i \in DOMAIN pods} = RowsIn(pods)
      BY <1>3 DEF RowsIn
  <2>4. \A x \in RowsIn(pods) : x.uid \in Uids
      BY <1>1, <1>3 DEF RowsIn, PodRows
  <2>5. ASSUME NEW x \in RowsIn(pods) PROVE \E u \in Alive : x = Row(u)
    <3>1. x \in {y \in RowsIn(pods) : y.uid = x.uid}
        OBVIOUS
    <3>2. x \in IF x.uid \in Alive THEN {Row(x.uid)} ELSE {}
        BY <2>2, <2>4, <3>1 DEF Agrees
    <3>. QED
        BY <3>2
  <2>6. ASSUME NEW u \in Alive PROVE Row(u) \in RowsIn(pods)
    <3>1. u \in Uids
        BY DEF Alive
    <3>2. Row(u) \in {y \in RowsIn(pods) : y.uid = u}
        BY <2>2, <3>1 DEF Agrees
    <3>. QED
        BY <3>2
  <2>. QED
      BY <2>3, <2>5, <2>6
<1>6. HiddenByTheUser
  <2> SUFFICES ASSUME searchText = NoText, excludedStatuses = {}, NEW i \in DOMAIN pods
               PROVE  pods[i] \in Range(FilteredPods) <=> NsOf[pods[i].uid] \notin unticked
      BY DEF HiddenByTheUser
  <2>1. \A j \in DOMAIN pods : j \in PassingRows <=> NsOf[pods[j].uid] \notin unticked
      BY DEF PassingRows, Passes, FiltersTyped
  <2>2. pods[i] \in Range(FilteredPods) <=> \E j \in PassingRows : pods[j] = pods[i]
      BY TheTableShows
  <2>3. PassingRows \subseteq DOMAIN pods
      BY DEF PassingRows
  <2>. QED
      BY <2>1, <2>2, <2>3
<1>. QED
    BY <1>2, <1>4, <1>5, <1>6 DEF PodsPromise, TableIsTheCluster

\* For any pods, any list that crosses any events and any use of the filters:
\* the table of the dashboard (applyPodEvent, loadData, filteredPods) holds each
\* pod once, is the cluster when all has arrived and nothing was missed, and hides
\* by its namespace just what the user has unticked.
THEOREM PodsPromiseHolds == PodsSpec => [](PodsTypeOK /\ PodsPromise)
<1> DEFINE PodsInv == PodsTyped /\ FiltersTyped /\ CrossingInv
<1>1. PodsInit => PodsInv
    BY PodsStart
<1>2. PodsInv /\ [PodsNext]_podsVars => PodsInv'
    BY FilterStep, CrossingStep
<1>3. PodsInv => PodsTypeOK /\ PodsPromise
    BY PodsInvIsEnough
<1>. QED
    BY <1>1, <1>2, <1>3, PTL DEF PodsSpec

-----------------------------------------------------------------------------
(* Types.                                                                   *)

\* Where a call of the change of the password is, the calls under way, the sessions
\* in the header and in the history.
CallsTyped ==
    /\ menu \in 0..signIns /\ ended \subseteq Sessions
    /\ passwordCall \in {"none", "sent", "waiting", "forgotten", "resent"}
    /\ timers \in 0..MaxPasswordChanges /\ leaving \in 0..(MaxPasswordChanges + 1)
    /\ passwordCall # "none" => timers < MaxPasswordChanges

\* What is on the pages, and the rest of the history.
PagesTyped ==
    /\ isLoggedIn \in BOOLEAN /\ signingIn \in BOOLEAN /\ loginError \in BOOLEAN
    /\ seen \in [signingIn : BOOLEAN, loginError : BOOLEAN]
    /\ leadsRefresh \in BOOLEAN /\ savingPassword \in BOOLEAN
    /\ askedAgain \in BOOLEAN /\ unrouted \in BOOLEAN /\ signedOut \in BOOLEAN
    /\ elsewhere \in BOOLEAN /\ overlap \in BOOLEAN

LEMMA FreshIsTyped == Fresh \in [signingIn : BOOLEAN, loginError : BOOLEAN]
BY DEF Fresh

LEMMA LoginTypedStart == LoginInit => CallsTyped /\ PagesTyped
<1>1. /\ 0 \in 0..MaxPasswordChanges /\ 0 \in 0..(MaxPasswordChanges + 1)
      /\ Nobody \in 0..0
    BY LoginBoundsAssumption DEF Nobody
<1>2. LoginInit => CallsTyped
    BY <1>1 DEF LoginInit, CallsTyped
<1>3. LoginInit => PagesTyped
    BY FreshIsTyped, Zenon DEF LoginInit, PagesTyped
<1>. QED
    BY <1>2, <1>3

LEMMA FieldsTyped ==
    ASSUME PagesTyped,
           \/ UNCHANGED <<formVars, savingPassword>>
           \/ PagesChange
    PROVE  /\ signingIn' \in BOOLEAN /\ loginError' \in BOOLEAN /\ savingPassword' \in BOOLEAN
           /\ seen' \in [signingIn : BOOLEAN, loginError : BOOLEAN]
<1>1. CASE UNCHANGED <<formVars, savingPassword>>
    BY <1>1 DEF PagesTyped, formVars
<1>2. CASE PagesChange /\ address' # address
  <2>1. signingIn' = FALSE /\ loginError' = FALSE /\ savingPassword' = FALSE /\ seen' = Fresh
      BY <1>2 DEF PagesChange
  <2>. QED
      BY <2>1, FreshIsTyped
<1>3. CASE PagesChange /\ address' = address
    BY <1>1, <1>3 DEF PagesChange
<1>. QED
    BY <1>1, <1>2, <1>3

LEMMA PagesTypedStep ==
    ASSUME PagesTyped, [LoginNext]_loginAll
    PROVE  PagesTyped'
<1>1. ASSUME NEW to \in Addresses, OpenTab(to) PROVE PagesTyped'
    BY <1>1 DEF PagesTyped, OpenTab, Fresh
<1>2. ASSUME NEW to \in Addresses, Follow(to) PROVE PagesTyped'
    BY <1>2, FieldsTyped DEF PagesTyped, Follow, Navigate
<1>3. CASE Login \/ Typed
  <2>1. /\ signingIn' \in BOOLEAN /\ loginError' \in BOOLEAN /\ signedOut' \in BOOLEAN
      BY <1>3, Zenon DEF PagesTyped, Login, Typed, loginHistory
  <2>2. \A a, b \in BOOLEAN : [signingIn |-> a, loginError |-> b]
                                \in [signingIn : BOOLEAN, loginError : BOOLEAN]
      OBVIOUS
  <2>3. seen' \in [signingIn : BOOLEAN, loginError : BOOLEAN]
      BY <1>3, <2>2, Zenon DEF PagesTyped, Login, Typed
  <2>4. UNCHANGED <<isLoggedIn, leadsRefresh, savingPassword, askedAgain, unrouted, elsewhere,
                    overlap>>
      BY <1>3 DEF Login, Typed, passwordVars, loginHistory
  <2>. QED
      BY <2>1, <2>3, <2>4 DEF PagesTyped
<1>4. CASE LoginSucceeds
  <2>1. /\ isLoggedIn' = TRUE /\ UNCHANGED <<leadsRefresh, askedAgain, elsewhere, signedOut>>
        /\ overlap' \in BOOLEAN /\ unrouted' \in BOOLEAN
      BY <1>4 DEF PagesTyped, LoginSucceeds
  <2>2. \/ UNCHANGED <<formVars, savingPassword>>
        \/ signingIn' = FALSE /\ loginError' = FALSE /\ seen' = Fresh /\ savingPassword' = FALSE
      BY <1>4 DEF LoginSucceeds
  <2>3. /\ signingIn' \in BOOLEAN /\ loginError' \in BOOLEAN /\ savingPassword' \in BOOLEAN
        /\ seen' \in [signingIn : BOOLEAN, loginError : BOOLEAN]
      BY <2>2, FieldsTyped, FreshIsTyped
  <2>. QED
      BY <2>1, <2>3 DEF PagesTyped
<1>5. CASE LoginFails
  <2>1. /\ signingIn' \in BOOLEAN /\ loginError' \in BOOLEAN
      BY <1>5 DEF PagesTyped, LoginFails
  <2>. QED
      BY <1>5, <2>1 DEF PagesTyped, LoginFails, passwordVars, loginHistory
<1>6. ASSUME BeginLogout \/ LeaveTo("dashboard")
      PROVE  /\ signingIn' \in BOOLEAN /\ loginError' \in BOOLEAN
             /\ savingPassword' \in BOOLEAN /\ isLoggedIn' \in BOOLEAN
             /\ seen' \in [signingIn : BOOLEAN, loginError : BOOLEAN]
    BY <1>6, FieldsTyped DEF PagesTyped, BeginLogout, LeaveTo, Navigate, Stay
<1>7. ASSUME ClearAuthState
      PROVE  /\ signingIn' \in BOOLEAN /\ loginError' \in BOOLEAN
             /\ savingPassword' \in BOOLEAN /\ isLoggedIn' \in BOOLEAN
             /\ askedAgain' \in BOOLEAN
             /\ seen' \in [signingIn : BOOLEAN, loginError : BOOLEAN]
    BY <1>7, FieldsTyped DEF PagesTyped, ClearAuthState, Navigate, Stay
<1>8. ASSUME BeginLogout PROVE askedAgain' \in BOOLEAN
    BY <1>8 DEF PagesTyped, BeginLogout
<1>9. CASE SignOut \/ TimerSignsOut
    BY <1>6, <1>8, <1>9 DEF PagesTyped, SignOut, TimerSignsOut
<1>10. ASSUME NEW ok \in BOOLEAN, LogoutAnswered(ok) PROVE PagesTyped'
    BY <1>6, <1>10 DEF PagesTyped, LogoutAnswered
<1>11. CASE NoTokensLeft \/ RenewalFails
    BY <1>7, <1>11 DEF PagesTyped, NoTokensLeft, RenewalFails
<1>12. CASE RefreshBegins
    BY <1>12, Zenon DEF PagesTyped, RefreshBegins, formVars, passwordVars, loginHistory
<1>13. CASE TokensRenewed
    BY <1>13 DEF PagesTyped, TokensRenewed, formVars, passwordVars, loginHistory
<1>14. CASE SubmitPassword
    BY <1>14 DEF PagesTyped, SubmitPassword, formVars, loginHistory
<1>15. CASE PasswordChanged \/ PasswordFails
    BY <1>15 DEF PagesTyped, PasswordChanged, PasswordFails, formVars, loginHistory
<1>16. CASE PasswordRefused
  <2>1. leadsRefresh' \in BOOLEAN
      BY <1>16 DEF PasswordRefused, PagesTyped
  <2>2. ClearAuthState \/ (Stay /\ UNCHANGED <<session, isLoggedIn, asked, askedAgain>>)
      BY <1>16 DEF PasswordRefused
  <2>3. /\ signingIn' \in BOOLEAN /\ loginError' \in BOOLEAN
        /\ savingPassword' \in BOOLEAN /\ isLoggedIn' \in BOOLEAN
        /\ askedAgain' \in BOOLEAN
        /\ seen' \in [signingIn : BOOLEAN, loginError : BOOLEAN]
      BY <1>7, <2>2, FieldsTyped DEF PagesTyped, Stay
  <2>. QED
      BY <1>16, <2>1, <2>3 DEF PagesTyped, PasswordRefused
<1>17. CASE OtherTab
    BY <1>17 DEF PagesTyped, OtherTab, formVars, passwordVars
<1>18. CASE UNCHANGED loginAll
    BY <1>18 DEF PagesTyped, loginAll, loginVars, loginHistory
<1>. QED
    BY <1>1, <1>2, <1>3, <1>4, <1>5, <1>9, <1>10, <1>11, <1>12, <1>13, <1>14,
       <1>15, <1>16, <1>17, <1>18
       DEF LoginNext

\* The header is that of the session there is when a page is come to.
LEMMA HeaderTyped ==
    ASSUME TypesOK, CallsTyped, UNCHANGED signIns,
           \/ UNCHANGED menu \/ menu' = session \/ menu' = Nobody
    PROVE  menu' \in 0..signIns'
BY DEF TypesOK, CallsTyped, Nobody

LEMMA LeavingTo ==
    /\ \A back : LeaveTo(back) => menu' = Nobody
    /\ ClearAuthState => menu' = Nobody \/ menu' = menu
    /\ BeginLogout => /\ menu' = Nobody \/ menu' = menu
                      /\ leaving' = leaving \/ leaving' = leaving + 1
<1>1. \A back : LeaveTo(back) => menu' = Nobody
    BY DEF LeaveTo, Navigate, LandAt
<1>2. ClearAuthState => menu' = Nobody \/ menu' = menu
    BY DEF ClearAuthState, Navigate, LandAt, Stay
<1>. QED
    BY <1>1, <1>2 DEF BeginLogout, Stay

LEMMA SessionsEnd ==
    ASSUME TypesOK, CallsTyped, NEW s \in 0..signIns
    PROVE  ended \cup ({s} \ {Nobody}) \subseteq Sessions
BY LoginBoundsAssumption DEF TypesOK, CallsTyped, Sessions, Nobody

LEMMA CallsTypedStep ==
    ASSUME TypesOK, CallsTyped, [LoginNext]_loginAll
    PROVE  CallsTyped'
<1>1. /\ session \in 0..signIns /\ refreshing \in 0..signIns /\ signIns \in Nat
      /\ MaxPasswordChanges \in Nat
    BY LoginBoundsAssumption DEF TypesOK
<1>2. ASSUME NEW to \in Addresses, OpenTab(to) PROVE CallsTyped'
    BY <1>1, <1>2 DEF CallsTyped, OpenTab, Nobody
<1>3. ASSUME NEW to \in Addresses, Follow(to) PROVE CallsTyped'
  <2>1. menu' = session
      BY <1>3 DEF Follow, Navigate, LandAt
  <2>. QED
      BY <1>1, <1>3, <2>1 DEF CallsTyped, Follow
<1>4. CASE Login \/ LoginFails \/ Typed \/ RefreshBegins
    BY <1>4 DEF CallsTyped, Login, LoginFails, Typed, RefreshBegins, passwordVars,
                loginHistory
<1>5. CASE LoginSucceeds
  <2>1. menu' \in 0..signIns'
      BY <1>1, <1>5 DEF LoginSucceeds, CallsTyped
  <2>. QED
      BY <1>5, <2>1 DEF CallsTyped, LoginSucceeds
<1>6. CASE SignOut
  <2>1. leaving' \in 0..(MaxPasswordChanges + 1)
      BY <1>1, <1>6, LeavingTo DEF SignOut, CallsTyped
  <2>2. menu' \in 0..signIns'
      BY <1>6, LeavingTo, HeaderTyped DEF SignOut
  <2>3. ended' \subseteq Sessions
      BY <1>1, <1>6, SessionsEnd DEF SignOut
  <2>. QED
      BY <1>6, <2>1, <2>2, <2>3 DEF CallsTyped, SignOut
<1>7. CASE TimerSignsOut
  <2>1. leaving' \in 0..(MaxPasswordChanges + 1)
      BY <1>1, <1>7, LeavingTo DEF TimerSignsOut, CallsTyped
  <2>2. menu' \in 0..signIns'
      BY <1>7, LeavingTo, HeaderTyped DEF TimerSignsOut
  <2>3. /\ timers' \in 0..MaxPasswordChanges
        /\ passwordCall' # "none" => timers' < MaxPasswordChanges
      BY <1>1, <1>7 DEF TimerSignsOut, CallsTyped
  <2>. QED
      BY <1>7, <2>1, <2>2, <2>3 DEF CallsTyped, TimerSignsOut
<1>8. ASSUME NEW ok \in BOOLEAN, LogoutAnswered(ok) PROVE CallsTyped'
  <2>1. menu' \in 0..signIns'
      BY <1>8, LeavingTo, HeaderTyped DEF LogoutAnswered
  <2>. QED
      BY <1>1, <1>8, <2>1 DEF CallsTyped, LogoutAnswered
<1>9. CASE NoTokensLeft
  <2>1. menu' \in 0..signIns'
      BY <1>9, LeavingTo, HeaderTyped DEF NoTokensLeft
  <2>. QED
      BY <1>9, <2>1 DEF CallsTyped, NoTokensLeft
<1>10. CASE RenewalFails
  <2>1. menu' \in 0..signIns'
      BY <1>10, LeavingTo, HeaderTyped DEF RenewalFails
  <2>2. ended' \subseteq Sessions
    <3>1. {refreshing} = {refreshing} \ {Nobody}
        BY <1>10 DEF RenewalFails
    <3>. QED
        BY <1>1, <1>10, <3>1, SessionsEnd DEF RenewalFails
  <2>. QED
      BY <1>10, <2>1, <2>2 DEF CallsTyped, RenewalFails
<1>11. CASE TokensRenewed
    BY <1>11 DEF CallsTyped, TokensRenewed, loginHistory
<1>12. CASE SubmitPassword \/ PasswordFails
    BY <1>12 DEF CallsTyped, SubmitPassword, PasswordFails, loginHistory
<1>13. CASE PasswordChanged
  <2>1. timers' \in 0..MaxPasswordChanges
      BY <1>1, <1>13 DEF PasswordChanged, CallsTyped
  <2>2. ended' \subseteq Sessions
    <3>1. {session} = {session} \ {Nobody}
        BY <1>13 DEF PasswordChanged
    <3>. QED
        BY <1>1, <1>13, <3>1, SessionsEnd DEF PasswordChanged
  <2>. QED
      BY <1>13, <2>1, <2>2 DEF CallsTyped, PasswordChanged
<1>14. CASE PasswordRefused
  <2>1. menu' \in 0..signIns'
    <3>1. UNCHANGED signIns /\ (ClearAuthState \/ Stay)
        BY <1>14 DEF PasswordRefused
    <3>2. menu' = menu \/ menu' = Nobody
        BY <3>1, LeavingTo DEF Stay
    <3>. QED
        BY <3>1, <3>2, HeaderTyped
  <2>2. passwordCall = "sent" /\ passwordCall' \in {"none", "waiting"}
      BY <1>14 DEF PasswordRefused
  <2>. QED
      BY <1>14, <2>1, <2>2 DEF CallsTyped, PasswordRefused
<1>15. CASE OtherTab
  <2>1. menu' = menu /\ signIns' >= signIns /\ signIns' \in Nat
      BY <1>1, <1>15 DEF OtherTab
  <2>. QED
      BY <1>1, <1>15, <2>1 DEF CallsTyped, OtherTab, passwordVars
<1>16. CASE UNCHANGED loginAll
    BY <1>16 DEF CallsTyped, loginAll, loginVars, loginHistory
<1>. QED
    BY <1>2, <1>3, <1>4, <1>5, <1>6, <1>7, <1>8, <1>9, <1>10, <1>11, <1>12, <1>13, <1>14,
       <1>15, <1>16 DEF LoginNext

LEMMA LoginTypes == LoginInv /\ CallsTyped /\ PagesTyped => LoginTypeOK
BY DEF LoginInv, TypesOK, CallsTyped, PagesTyped, LoginTypeOK

\* What the page of the settings shows and has been edited.
SettingsShown ==
    /\ pageLoading \in BOOLEAN /\ pageSaving \in BOOLEAN
    /\ savedShown \in BOOLEAN /\ saveError \in BOOLEAN
    /\ payload \in Forms \cup {NoForm} /\ edited \subseteq Fields
    /\ prefsOnServer \subseteq PodKeys

LEMMA ShownStart == SettingsInit => SettingsShown
BY DEF SettingsInit, SettingsShown

LEMMA ShownStep ==
    ASSUME SettingsInv, SettingsShown, [SettingsNext \/ TogglesNext]_settingsPageVars
    PROVE  SettingsShown'
<1>1. form \in Forms /\ \A q \in puts : q.value \subseteq PodKeys
    BY DEF SettingsInv, FormInv, PrefsInv, PutsInv
<1>2. CASE UNCHANGED <<settingsVars, prefsOnServer>>
    BY <1>2 DEF SettingsShown, settingsVars
<1>3. ASSUME NEW q \in puts, PutIsApplied(q) PROVE SettingsShown'
    BY <1>1, <1>3 DEF SettingsShown, PutIsApplied, settingsVars
<1>4. ASSUME TogglesNext
      PROVE  \/ UNCHANGED <<settingsVars, prefsOnServer>>
             \/ \E q \in puts : PutIsApplied(q)
    BY <1>4 DEF TogglesNext, ToggleCounts, DebounceEnds, PutAnswered, PutFails, LoadApp
<1>5. ASSUME SettingsNext PROVE prefsOnServer' = prefsOnServer
    BY <1>5 DEF SettingsNext, SettingsAreRead, ServerSaves, OtherBrowserSaves,
       SettingsArrive, SettingsFail, PodsArrive, PodsFail, EnterSetting, TogglePod,
       EnableAll, DisableAll, ChoosePods, Edit, Save, SaveAnswered, SaveFails,
       ReopenSettings, prefVars
<1>6. ASSUME \/ SettingsAreRead \/ ServerSaves
             \/ \E s \in Forms : s.scan >= MinScan /\ OtherBrowserSaves(s)
             \/ SettingsArrive \/ SettingsFail
             \/ \E list \in SUBSET PodKeys : PodsArrive(list)
             \/ PodsFail \/ SaveAnswered \/ SaveFails \/ Save \/ ReopenSettings
      PROVE  SettingsShown'
  <2>1. prefsOnServer' = prefsOnServer
      BY <1>5, <1>6 DEF SettingsNext
  <2>. QED
      BY <1>1, <1>6, <2>1 DEF SettingsShown, SettingsAreRead, ServerSaves, OtherBrowserSaves,
         SettingsArrive, SettingsFail, PodsArrive, PodsFail, SaveAnswered, SaveFails, Save,
         ReopenSettings, Opened, SetForm
<1>7. ASSUME NEW field \in Fields, NEW value, Edit(field, value),
             savedShown' \in {savedShown, FALSE}
      PROVE  SettingsShown'
    BY <1>7 DEF SettingsShown, Edit, prefVars
<1>8. CASE EnterSetting
  <2>1. "enabled" \in Fields /\ "scan" \in Fields
      BY DEF Fields
  <2>. QED
      BY <1>7, <1>8, <2>1 DEF EnterSetting
<1>9. ASSUME NEW set, ChoosePods(set) PROVE SettingsShown'
  <2>1. "excluded" \in Fields
      BY DEF Fields
  <2>. QED
      BY <1>7, <1>9, <2>1 DEF ChoosePods
<1>10. ASSUME (\E k \in PodKeys : TogglePod(k)) \/ EnableAll \/ DisableAll
       PROVE  SettingsShown'
    BY <1>9, <1>10 DEF TogglePod, EnableAll, DisableAll
<1>. QED
    BY <1>2, <1>3, <1>4, <1>6, <1>8, <1>10 DEF SettingsNext, settingsPageVars, prefVars

LEMMA SettingsTypes == SettingsInv /\ SettingsShown => SettingsTypeOK
BY DEF SettingsInv, FormInv, OptionsInv, PrefsInv, PutsInv, SettingsShown, SettingsTypeOK

\* What the views show is of versions that were computed, and one that shows an
\* error has no request under way.
ViewsShown ==
    /\ metrics \in MetricVersions
    /\ viewError \in [Views \ {"strip"} -> BOOLEAN]
    /\ \A w \in Views \ {"strip"} : viewError[w] => get[w] = "no"
    /\ \A w \in Views : answer[w] # 0 => get[w] = "read"
    /\ \A c \in cards : c.name \in Nodes /\ c.values \in 1..metrics /\ c.total \in 1..metrics

LEMMA ViewsShownStart == ViewsInit => ViewsShown
<1>. SUFFICES ASSUME ViewsInit PROVE ViewsShown
    OBVIOUS
<1>1. 1 \in MetricVersions
    BY ViewsAssumption DEF MetricVersions
<1>. QED
    BY <1>1 DEF ViewsInit, ViewsShown

LEMMA MergeIsTyped ==
    ASSUME ViewsTyped, ViewsShown, NEW v \in 1..metrics, MergeNodes(v)
    PROVE  \A c \in cards' : c.name \in Nodes /\ c.values \in 1..metrics
                             /\ c.total \in 1..metrics
<1>. DEFINE known(n) == {c \in cards : c.name = n}
            total(n) == IF known(n) = {} THEN v ELSE (CHOOSE c \in known(n) : TRUE).total
<1>1. cards' = {[name |-> n, values |-> v, total |-> total(n)] : n \in NodesAt[v]}
    BY DEF MergeNodes
<1>2. NodesAt[v] \subseteq Nodes
    BY ViewsAssumption DEF ViewsTyped, ViewsShown, MetricVersions
<1>3. ASSUME NEW n PROVE total(n) \in 1..metrics
  <2>1. CASE known(n) # {}
    <3>1. (CHOOSE c \in known(n) : TRUE) \in cards
        BY <2>1
    <3>. QED
        BY <2>1, <3>1 DEF ViewsShown
  <2>. QED
      BY <2>1
<1>. HIDE DEF total
<1>. QED
    BY <1>1, <1>2, <1>3

LEMMA ViewsShownStep ==
    ASSUME WidgetsInv, ViewsShown, [ViewsNext]_viewVars
    PROVE  ViewsShown'
<1>1. /\ metrics \in Nat \ {0} /\ pushes \in Seq(1..metrics)
      /\ get \in [Views -> {"no", "sent", "read"}] /\ answer \in [Views -> 0..metrics]
      /\ \A w \in Views : get[w] = "read" => answer[w] # 0
    BY DEF WidgetsInv, ViewsTyped, AnswersAreRead
<1>2. CASE Measures
  <2>1. metrics' \in MetricVersions /\ 1..metrics \subseteq 1..metrics'
      BY <1>1, <1>2 DEF Measures, MetricVersions
  <2>. QED
      BY <1>2, <2>1 DEF Measures, ViewsShown
<1>3. CASE ClusterUpdate
  <2>1. Head(pushes) \in 1..metrics
      BY <1>1, <1>3 DEF ClusterUpdate
  <2>2. \A c \in cards' : c.name \in Nodes /\ c.values \in 1..metrics /\ c.total \in 1..metrics
      BY <1>3, <2>1, MergeIsTyped DEF ClusterUpdate, WidgetsInv
  <2>. QED
      BY <1>3, <2>2 DEF ClusterUpdate, ViewsShown
<1>4. ASSUME NEW w \in Views, ServerAnswers(w) PROVE ViewsShown'
  <2>1. \A x \in Views : get'[x] = (IF x = w THEN "read" ELSE get[x])
                         /\ (x # w => answer'[x] = answer[x])
      BY <1>1, <1>4 DEF ServerAnswers
  <2>2. get[w] = "sent" /\ UNCHANGED <<metrics, viewError, cards>>
      BY <1>4 DEF ServerAnswers
  <2>. QED
      BY <2>1, <2>2 DEF ViewsShown
<1>5. ASSUME NEW w \in Views, AnswerArrives(w) PROVE ViewsShown'
  <2>1. /\ \A x \in Views : /\ get'[x] = (IF x = w THEN "no" ELSE get[x])
                            /\ answer'[x] = (IF x = w THEN 0 ELSE answer[x])
        /\ UNCHANGED <<metrics, viewError>>
      BY <1>1, <1>5 DEF AnswerArrives
  <2>2. answer[w] \in 1..metrics
      BY <1>1, <1>5 DEF AnswerArrives
  <2>3. \A c \in cards' : c.name \in Nodes /\ c.values \in 1..metrics /\ c.total \in 1..metrics
      BY <1>5, <2>2, MergeIsTyped DEF AnswerArrives, WidgetsInv, ViewsShown
  <2>. QED
      BY <2>1, <2>3 DEF ViewsShown
<1>6. ASSUME NEW w \in Views, AnswerFails(w) PROVE ViewsShown'
  <2>1. /\ \A x \in Views : /\ get'[x] = (IF x = w THEN "no" ELSE get[x])
                            /\ answer'[x] = (IF x = w THEN 0 ELSE answer[x])
        /\ UNCHANGED <<metrics, cards>>
      BY <1>1, <1>6 DEF AnswerFails
  <2>2. /\ viewError' = [x \in Views \ {"strip"} |-> x = w \/ viewError[x]]
        /\ \A x \in Views \ {"strip"} : (x = w \/ viewError[x]) \in BOOLEAN
      BY <1>6 DEF AnswerFails, ViewsShown
  <2>. QED
      BY <2>1, <2>2 DEF ViewsShown
<1>7. ASSUME NEW w \in Views, ViewRetry(w) PROVE ViewsShown'
  <2>1. /\ w # "strip" /\ UNCHANGED <<metrics, answer, cards>>
        /\ viewError' = [viewError EXCEPT ![w] = FALSE]
        /\ \A x \in Views : get'[x] = (IF x = w THEN "sent" ELSE get[x])
      BY <1>1, <1>7 DEF ViewRetry
  <2>2. viewError[w]
      BY <1>7, <2>1 DEF ViewRetry, Face, Views
  <2>3. get[w] = "no" /\ answer[w] = 0
      BY <2>1, <2>2 DEF ViewsShown
  <2>. QED
      BY <2>1, <2>3 DEF ViewsShown
<1>8. CASE UNCHANGED viewVars
    BY <1>8 DEF viewVars, ViewsShown
<1>. QED
    BY <1>2, <1>3, <1>4, <1>5, <1>6, <1>7, <1>8 DEF ViewsNext

LEMMA ViewsTypes == WidgetsInv /\ ViewsShown => ViewsTypeOK
BY DEF WidgetsInv, ViewsTyped, AnswersAreRead, ViewsShown, ViewsTypeOK

\* What MCPages checks at once is what the components do: in a behaviour of its
\* specification each of them starts as it should and takes its own steps only.
LEMMA OneAtATime ==
    /\ PagesInit => /\ PageInit /\ HubInit /\ DashInit /\ ViewsInit /\ LoginInit
                    /\ PodsInit /\ FiguresInit /\ SettingsInit
    /\ [PagesNext]_<<part, pageVars, hubVars, dashVars, viewVars, loginAll, podsVars,
                     figuresVars, settingsPageVars>>
         => /\ [PageNext]_pageVars /\ [HubNext]_hubVars /\ [DashNext]_dashVars
            /\ [ViewsNext]_viewVars /\ [LoginNext]_loginAll /\ [PodsNext]_podsVars
            /\ [FiguresNext]_figuresVars
            /\ [SettingsNext \/ TogglesNext]_settingsPageVars
BY Zenon DEF PagesInit, PagesNext, PageActs, HubActs, DashActs, ViewsAct, LoginActs, PodsAct,
             FiguresAct, SettingsAct, TogglesAct

\* Every page and both connections keep their types, whatever happens to them.
THEOREM PagesTypes == PagesSpec => []PagesTypeOK
<1>. DEFINE Inv == /\ LogsInv /\ PageTyped /\ ClientInv /\ DashInv /\ WidgetsInv
                   /\ ViewsShown /\ LoginInv /\ CallsTyped /\ PagesTyped
                   /\ PodsTyped /\ FiltersTyped /\ CrossingInv /\ FiguresInv
                   /\ SettingsInv /\ SettingsShown
                   /\ part \in {"page", "hub", "dash", "views", "login", "pods",
                                "figures", "settings", "toggles"}
<1>1. PagesInit => Inv
    BY OneAtATime, LogsStart, TypesStart, ClientStarts, DashStartsOK, ViewsStart,
       ViewsShownStart, LoginStart, LoginTypedStart, PodsStart, FiguresStart,
       SettingsPageStarts, ShownStart DEF PagesInit
<1>2. Inv /\ [PagesNext]_<<part, pageVars, hubVars, dashVars, viewVars, loginAll, podsVars,
                           figuresVars, settingsPageVars>> => Inv'
  <2>. SUFFICES ASSUME Inv,
                       [PagesNext]_<<part, pageVars, hubVars, dashVars, viewVars, loginAll,
                                     podsVars, figuresVars, settingsPageVars>>
                PROVE  Inv'
      OBVIOUS
  <2>1. part' = part
      BY DEF PagesNext
  <2>2. TypesOK
      BY DEF LoginInv
  <2>. QED
      BY <2>1, <2>2, OneAtATime, LogsStep, TypesStep, ClientSteps, DashSteps, WidgetsStep,
         ViewsShownStep, LoginStep, CallsTypedStep, PagesTypedStep, FilterStep, CrossingStep,
         FiguresStep, SettingsPageSteps, ShownStep
<1>3. Inv => PagesTypeOK
  <2>. SUFFICES ASSUME Inv PROVE PagesTypeOK
      OBVIOUS
  <2>1. PageTypeOK
      BY PageInvIsEnough
  <2>2. HubTypeOK /\ DashTypeOK /\ FiguresTypeOK
      BY DEF ClientInv, DashInv, FiguresInv
  <2>3. ViewsTypeOK /\ LoginTypeOK /\ SettingsTypeOK
      BY ViewsTypes, LoginTypes, SettingsTypes
  <2>4. PodsTypeOK
      BY PodsInvIsEnough
  <2>. QED
      BY <2>1, <2>2, <2>3, <2>4 DEF PagesTypeOK
<1>. QED
    BY <1>1, <1>2, <1>3, PTL DEF PagesSpec

================================================================================
