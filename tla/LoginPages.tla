------------------------------ MODULE LoginPages ------------------------------
(***************************************************************************)
(* One browser tab between signed in and signed out: the tokens that       *)
(* AuthService keeps in localStorage, authGuard and the addresses it turns *)
(* away, the login page, the change of the password, and the header.       *)
(*                                                                         *)
(* What one JavaScript task does is one step; a navigation is part of the  *)
(* step that starts it.  The two tokens are always written together, and   *)
(* are named by the sign-in they descend from.                             *)
(***************************************************************************)
EXTENDS Naturals

CONSTANTS
    MaxSignIns,     \* bound on sign-ins, of this tab and of others
    MaxPasswordChanges      \* bound on changes of the password

ASSUME LoginBoundsAssumption == MaxSignIns \in Nat /\ MaxPasswordChanges \in Nat

Nobody == 0
Sessions == 1..MaxSignIns

\* The addresses: a pod of the logs page is chosen in the query string.
Routes == {"dashboard", "logs", "settings", "change-password"}
Pages == Routes \cup {"logs?pod"}
Addresses == Pages \cup {"login"}

NoAnswer == [to |-> "login", here |-> FALSE]

VARIABLES
    session,        \* localStorage: the sign-in whose tokens are kept
    signIns,        \* sign-ins so far
    isLoggedIn,
    address,        \* router.url, less the query string of /login
    returnUrl,      \* LoginPageComponent.returnUrl
    signingIn,      \* its loading
    loginError,     \* its error is set
    seen,           \* what the view of the login page was last drawn with
    entering,       \* POST /login under way: where to go, and whether its page
                    \* is still there
    menu,           \* the session the user menu was made for
    passwordCall,   \* POST /change-password: where it is
    leadsRefresh,   \* it is the request that refreshes the tokens
    savingPassword, \* ChangePasswordPageComponent.saving
    timers,         \* logouts due 1200 ms after a change
    leaving,        \* POST /logout under way
    refreshing      \* the session that POST /refresh was sent for

VARIABLES           \* history
    asked,          \* where the user wants to be after the login
    askedAgain,     \* asked for another page while the login page was there
    unrouted,           \* the page to go to after a login was not found
    ended,          \* sessions that were to end
    signedOut,      \* the user has signed out, and has not sent the form since
    elsewhere,      \* another tab has changed the tokens
    overlap         \* something under way has outlived its session

loginVars == <<session, signIns, isLoggedIn, address, returnUrl, signingIn,
               loginError, seen, entering, menu, passwordCall, leadsRefresh,
               savingPassword, timers, leaving, refreshing>>
loginHistory == <<asked, askedAgain, unrouted, ended, signedOut, elsewhere, overlap>>
loginAll == <<loginVars, loginHistory>>

formVars == <<signingIn, loginError, seen>>
passwordVars == <<passwordCall, leadsRefresh, savingPassword, timers>>

Fresh == [signingIn |-> FALSE, loginError |-> FALSE]

-----------------------------------------------------------------------------
(* Where a navigation ends.                                                *)

\* isAuthenticated: the tokens in the store are the server's, so that their
\* payload can be read.
IsAuthenticated(s) == s # Nobody

\* authGuard, in front of every page but the login.
Admitted(to, s) == to = "login" \/ IsAuthenticated(s)

\* router.navigate([url]) takes the address for the segments of a path: no
\* route is found for one with a query string.
Routable(to) == to \in Routes \cup {"login"}

\* Variant: the address is not kept for the login.
LandAt_NoReturn(to, back, s) ==
    LET landed == IF Admitted(to, s) THEN to ELSE "login"
        again == IF address = "login" THEN returnUrl ELSE "dashboard"
    IN  /\ address' = IF landed = "login" /\ IsAuthenticated(s) THEN back
                                                                ELSE landed
        /\ returnUrl' = IF address' = "login" THEN again ELSE "dashboard"
        /\ menu' = s

\* The router goes to an address: the guard sends whoever has no token to the
\* login, with the address (or back) as its returnUrl; the login page, when it
\* is not there yet, takes that and goes on at once if there is a token.  A page
\* that is there already is not made again.  The header is drawn.
LandAt(to, back, s) ==
    LET landed == IF Admitted(to, s) THEN to ELSE "login"
        again == IF address = "login" THEN returnUrl
                 ELSE IF landed # to THEN to ELSE back
    IN  /\ address' = IF landed = "login" /\ IsAuthenticated(s) THEN back
                                                                ELSE landed
        /\ returnUrl' = IF address' = "login" THEN again ELSE "dashboard"
        /\ menu' = s

\* The page that is left or made again takes its fields with it; requests go on.
PagesChange ==
    IF address' = address
      THEN UNCHANGED <<formVars, entering, savingPassword>>
      ELSE /\ signingIn' = FALSE /\ loginError' = FALSE /\ seen' = Fresh
           /\ entering' = [entering EXCEPT !.here = FALSE]
           /\ savingPassword' = FALSE

Navigate(to, back, s) == LandAt(to, back, s) /\ PagesChange

\* Nothing is navigated, and nothing is drawn.
Stay == UNCHANGED <<address, returnUrl, menu, formVars, entering, savingPassword>>

-----------------------------------------------------------------------------
LoginInit ==
    /\ session = Nobody /\ signIns = 0 /\ isLoggedIn = FALSE
    /\ address = "login" /\ returnUrl = "dashboard"
    /\ signingIn = FALSE /\ loginError = FALSE /\ seen = Fresh
    /\ entering = NoAnswer /\ menu = Nobody
    /\ passwordCall = "none" /\ leadsRefresh = FALSE /\ savingPassword = FALSE
    /\ timers = 0 /\ leaving = 0 /\ refreshing = Nobody
    /\ asked = "dashboard" /\ askedAgain = FALSE /\ unrouted = FALSE /\ ended = {}
    /\ signedOut = FALSE /\ elsewhere = FALSE /\ overlap = FALSE

\* An address is opened or the page reloaded: of everything in memory only the
\* tokens are left.
OpenTab(to) ==
    LET out == to # "login" /\ ~IsAuthenticated(session)
    IN  /\ isLoggedIn' = (session # Nobody)
        /\ address' = CASE out -> "login"
                        [] to = "login" /\ IsAuthenticated(session) -> "dashboard"
                        [] OTHER -> to
        /\ returnUrl' = IF out THEN to ELSE "dashboard"
        /\ asked' = IF to = "login" THEN "dashboard" ELSE to
    /\ askedAgain' = FALSE /\ unrouted' = FALSE /\ menu' = session
    /\ signingIn' = FALSE /\ loginError' = FALSE /\ seen' = Fresh
    /\ entering' = NoAnswer
    /\ passwordCall' = "none" /\ leadsRefresh' = FALSE /\ savingPassword' = FALSE
    /\ timers' = 0 /\ leaving' = 0 /\ refreshing' = Nobody
    /\ overlap' = FALSE /\ elsewhere' = FALSE
    /\ signedOut' = (signedOut /\ session = Nobody)
    /\ UNCHANGED <<session, signIns, ended>>

\* A link of the header, of the user menu or of the pod list is followed.
Follow(to) ==
    /\ to # "login" /\ to # address
    /\ to \in {"settings", "change-password"} => menu # Nobody
    /\ to = "logs?pod" => address = "dashboard"
    /\ Navigate(to, "dashboard", session)
    /\ asked' = to
    /\ askedAgain' = (address = "login" /\ to # returnUrl)
    /\ unrouted' = (unrouted /\ address' = "login")
    /\ UNCHANGED <<session, signIns, isLoggedIn, passwordCall, leadsRefresh,
                   timers, leaving, refreshing, ended, signedOut, elsewhere,
                   overlap>>

-----------------------------------------------------------------------------
(* The login page.                                                         *)

\* login(), by the button, which is as it was last drawn.
Login ==
    /\ address = "login" /\ ~seen.signingIn
    /\ entering = NoAnswer              \* bound: one POST /login under way
    /\ signIns < MaxSignIns
    /\ signingIn' = TRUE /\ loginError' = FALSE
    /\ seen' = [signingIn |-> TRUE, loginError |-> FALSE]
    /\ entering' = [to |-> returnUrl, here |-> TRUE]
    /\ signedOut' = FALSE
    /\ UNCHANGED <<session, signIns, isLoggedIn, address, returnUrl, menu,
                   passwordVars, leaving, refreshing, asked, askedAgain, unrouted,
                   ended, elsewhere, overlap>>

\* What is under way belongs to an earlier session when the tokens change.
Outlived == timers > 0 \/ leaving > 0 \/ refreshing # Nobody

\* The answer: the tokens are stored, and the page that sent the form goes to
\* its returnUrl, whatever page is there by now.
LoginSucceeds ==
    /\ entering # NoAnswer /\ signIns < MaxSignIns
    /\ signIns' = signIns + 1 /\ session' = signIns + 1
    /\ isLoggedIn' = TRUE
    /\ entering' = NoAnswer
    /\ IF Routable(entering.to)
         THEN /\ address' = entering.to
              /\ returnUrl' = "dashboard" /\ menu' = session'
              /\ unrouted' = FALSE
              /\ IF address' = address
                   THEN UNCHANGED <<formVars, savingPassword>>
                   ELSE /\ signingIn' = FALSE /\ loginError' = FALSE
                        /\ seen' = Fresh
                        /\ savingPassword' = FALSE
         ELSE /\ unrouted' = TRUE
              /\ UNCHANGED <<address, returnUrl, menu, formVars, savingPassword>>
    /\ overlap' = (overlap \/ Outlived)
    /\ UNCHANGED <<passwordCall, leadsRefresh, timers, leaving, refreshing, asked,
                   askedAgain, ended, signedOut, elsewhere>>

\* The fields are no signals: that they have changed is not seen.
LoginFails ==
    /\ entering # NoAnswer
    /\ entering' = NoAnswer
    /\ signingIn' = (signingIn /\ ~entering.here)
    /\ loginError' = (entering.here \/ loginError)
    /\ UNCHANGED <<session, signIns, isLoggedIn, address, returnUrl, seen, menu,
                   passwordVars, leaving, refreshing, loginHistory>>

\* The user types: the view is drawn again.
Typed ==
    /\ address = "login"
    /\ seen' = [signingIn |-> signingIn, loginError |-> loginError]
    /\ seen' # seen
    /\ UNCHANGED <<session, signIns, isLoggedIn, address, returnUrl, signingIn,
                   loginError, entering, menu, passwordVars, leaving, refreshing,
                   loginHistory>>

-----------------------------------------------------------------------------
(* The end of a session.                                                   *)

\* clearTokens, isLoggedIn, and the way to the login page.
LeaveTo(back) ==
    /\ session' = Nobody /\ isLoggedIn' = FALSE
    /\ Navigate("login", back, Nobody)

\* clearAuthState: whoever is on a page comes back to it after the login.
ClearAuthState ==
    /\ session' = Nobody /\ isLoggedIn' = FALSE
    /\ IF address = "login"
         THEN Stay /\ UNCHANGED <<asked, askedAgain>>
         ELSE /\ Navigate("login", address, Nobody)
              /\ asked' = address /\ askedAgain' = FALSE

\* logout() up to its POST, which is sent only with a token; without one
\* everything is cleared at once.
BeginLogout ==
    IF IsAuthenticated(session)
      THEN /\ leaving' = leaving + 1
           /\ Stay
           /\ UNCHANGED <<session, isLoggedIn, asked, askedAgain>>
      ELSE /\ LeaveTo("dashboard")
           /\ asked' = IF address = "login" THEN asked ELSE "dashboard"
           /\ askedAgain' = (askedAgain /\ address = "login")
           /\ UNCHANGED leaving

SignOut ==
    /\ menu # Nobody /\ leaving = 0        \* bound: one click at a time
    /\ BeginLogout
    /\ ended' = ended \cup ({session} \ {Nobody})
    /\ UNCHANGED <<unrouted, signIns, passwordCall, leadsRefresh, timers, refreshing,
                   signedOut, elsewhere, overlap>>

\* Variant: an error of the request is not caught.
LogoutAnswered_Throws(ok) ==
    /\ leaving > 0
    /\ leaving' = leaving - 1
    /\ IF ok THEN /\ LeaveTo("dashboard")
                  /\ asked' = IF address = "login" THEN asked ELSE "dashboard"
                  /\ askedAgain' = (askedAgain /\ address = "login")
             ELSE Stay /\ UNCHANGED <<session, isLoggedIn, asked, askedAgain>>
    /\ signedOut' = (entering = NoAnswer)
    /\ overlap' = (overlap \/ refreshing # Nobody)
    /\ UNCHANGED <<unrouted, signIns, passwordCall, leadsRefresh, timers, refreshing,
                   ended, elsewhere>>

\* Whatever the answer: the tokens go, the login page comes.
LogoutAnswered(ok) ==
    /\ leaving > 0
    /\ leaving' = leaving - 1
    /\ LeaveTo("dashboard")
    /\ asked' = IF address = "login" THEN asked ELSE "dashboard"
    /\ askedAgain' = (askedAgain /\ address = "login")
    /\ signedOut' = (entering = NoAnswer)
    /\ overlap' = (overlap \/ refreshing # Nobody)
    /\ UNCHANGED <<unrouted, signIns, passwordCall, leadsRefresh, timers, refreshing,
                   ended, elsewhere>>

-----------------------------------------------------------------------------
(* A request of some page is answered with 401, and the tokens are renewed. *)

RefreshBegins ==
    /\ session # Nobody /\ refreshing = Nobody
    /\ refreshing' = session
    /\ UNCHANGED <<session, signIns, isLoggedIn, address, returnUrl, formVars,
                   entering, menu, passwordVars, leaving, loginHistory>>

\* Without tokens there is nothing to renew.
NoTokensLeft ==
    /\ session = Nobody /\ address # "login"
    /\ ClearAuthState
    /\ UNCHANGED <<unrouted, signIns, passwordCall, leadsRefresh, timers, leaving,
                   refreshing, ended, signedOut, elsewhere, overlap>>

\* The renewed tokens are stored over whatever is there.
TokensRenewed ==
    /\ refreshing # Nobody
    /\ session' = refreshing /\ isLoggedIn' = TRUE
    /\ refreshing' = Nobody
    /\ passwordCall' = IF passwordCall \in {"waiting", "forgotten"} THEN "resent"
                                                                 ELSE passwordCall
    /\ leadsRefresh' = FALSE
    /\ UNCHANGED <<signIns, address, returnUrl, formVars, entering, menu,
                   savingPassword, timers, leaving, loginHistory>>

\* The request that leads fails; one that waits hears nothing, and goes out with
\* the tokens of a later refresh.
RenewalFails ==
    /\ refreshing # Nobody
    /\ ClearAuthState
    /\ refreshing' = Nobody
    /\ ended' = ended \cup {refreshing}
    /\ passwordCall' = IF leadsRefresh THEN "none"
                       ELSE IF passwordCall = "waiting" THEN "forgotten"
                       ELSE passwordCall
    /\ leadsRefresh' = FALSE
    /\ UNCHANGED <<unrouted, signIns, timers, leaving, signedOut, elsewhere, overlap>>

-----------------------------------------------------------------------------
(* The change of the password.                                             *)

\* submit(): without an old and a new password, or with two new ones that
\* differ, a message is all there is.
SubmitPassword ==
    /\ address = "change-password" /\ ~savingPassword
    /\ passwordCall = "none" /\ timers < MaxPasswordChanges
    /\ passwordCall' = "sent" /\ savingPassword' = TRUE
    /\ UNCHANGED <<session, signIns, isLoggedIn, address, returnUrl, formVars,
                   entering, menu, leadsRefresh, timers, leaving, refreshing,
                   loginHistory>>

\* The message asks to sign in again: a timer sees to it.
PasswordChanged ==
    /\ passwordCall \in {"sent", "resent"} /\ session # Nobody
    /\ passwordCall' = "none" /\ savingPassword' = FALSE
    /\ timers' = timers + 1
    /\ ended' = ended \cup {session}
    /\ UNCHANGED <<session, signIns, isLoggedIn, address, returnUrl, formVars,
                   entering, menu, leadsRefresh, leaving, refreshing, asked,
                   askedAgain, unrouted, signedOut, elsewhere, overlap>>

\* A wrong password is a 401 like that of a token: the tokens are renewed and
\* the request is sent again.
PasswordRefused ==
    /\ passwordCall = "sent"
    /\ IF session = Nobody
         THEN /\ ClearAuthState
              /\ passwordCall' = "none"
              /\ UNCHANGED <<leadsRefresh, refreshing>>
         ELSE /\ passwordCall' = "waiting"
              /\ leadsRefresh' = (refreshing = Nobody)
              /\ refreshing' = IF refreshing = Nobody THEN session ELSE refreshing
              /\ Stay
              /\ UNCHANGED <<session, isLoggedIn, asked, askedAgain>>
    /\ UNCHANGED <<unrouted, signIns, timers, leaving, ended, signedOut, elsewhere,
                   overlap>>

PasswordFails ==
    /\ passwordCall = "resent"
    /\ passwordCall' = "none" /\ savingPassword' = FALSE
    /\ UNCHANGED <<session, signIns, isLoggedIn, address, returnUrl, formVars,
                   entering, menu, leadsRefresh, timers, leaving, refreshing,
                   loginHistory>>

\* 1200 ms later, wherever the user is: logout().
TimerSignsOut ==
    /\ timers > 0 /\ leaving <= MaxPasswordChanges     \* bound: logouts under way
    /\ timers' = timers - 1
    /\ BeginLogout
    /\ UNCHANGED <<unrouted, signIns, passwordCall, leadsRefresh, refreshing,
                   ended, signedOut, elsewhere, overlap>>

-----------------------------------------------------------------------------
\* Another tab signs in or out: localStorage is shared, nothing else is.
OtherTab ==
    /\ \/ session = Nobody /\ signIns < MaxSignIns
          /\ signIns' = signIns + 1 /\ session' = signIns + 1
       \/ session # Nobody /\ session' = Nobody /\ UNCHANGED signIns
    /\ elsewhere' = TRUE
    /\ UNCHANGED <<isLoggedIn, address, returnUrl, formVars, entering, menu,
                   passwordVars, leaving, refreshing, asked, askedAgain, unrouted,
                   ended, signedOut, overlap>>

LoginNext ==
    \/ \E to \in Addresses : OpenTab(to) \/ Follow(to)
    \/ Login \/ LoginSucceeds \/ LoginFails \/ Typed
    \/ SignOut \/ \E ok \in BOOLEAN : LogoutAnswered(ok)
    \/ RefreshBegins \/ NoTokensLeft \/ TokensRenewed \/ RenewalFails
    \/ SubmitPassword \/ PasswordChanged \/ PasswordRefused \/ PasswordFails
    \/ TimerSignsOut
    \/ OtherTab

LoginSpec == LoginInit /\ [][LoginNext]_loginAll

-----------------------------------------------------------------------------
LoginTypeOK ==
    /\ session \in 0..signIns /\ signIns \in 0..MaxSignIns
    /\ isLoggedIn \in BOOLEAN
    /\ address \in Addresses /\ returnUrl \in Pages
    /\ signingIn \in BOOLEAN /\ loginError \in BOOLEAN
    /\ seen \in [signingIn : BOOLEAN, loginError : BOOLEAN]
    /\ entering \in [to : Addresses, here : BOOLEAN]
    /\ menu \in 0..signIns
    /\ passwordCall \in {"none", "sent", "waiting", "forgotten", "resent"}
    /\ leadsRefresh \in BOOLEAN /\ savingPassword \in BOOLEAN
    /\ timers \in 0..MaxPasswordChanges /\ leaving \in 0..(MaxPasswordChanges + 1)
    /\ refreshing \in 0..signIns
    /\ asked \in Pages /\ ended \subseteq Sessions
    /\ {askedAgain, unrouted, signedOut, elsewhere, overlap} \subseteq BOOLEAN

\* "So the user isn't stranded on a protected page": without tokens the page is
\* the login, unless another tab has taken them.
NotStranded ==
    address # "login" => session # Nobody \/ elsewhere

\* The header and the hub connection go with the tokens: what isLoggedIn says is
\* true, and the name in the menu is that of the session.
HeaderIsTrue ==
    /\ (isLoggedIn <=> session # Nobody) \/ elsewhere
    /\ menu \notin {Nobody, session} => elsewhere \/ overlap

\* The login page is busy only while its request is under way, and shows so
\* until that, or a failure it has not drawn yet.
LoginWaits ==
    /\ signingIn => entering.here \/ unrouted
    /\ seen.signingIn => signingIn \/ loginError

\* After a sign-out there are no tokens before the form is sent again, unless a
\* refresh was under way then.
SignedOutStays ==
    signedOut => session = Nobody \/ overlap \/ elsewhere

\* A session of the tab ends because its user has signed out or changed the
\* password, or because its tokens could not be renewed; and after a login the
\* user is where the guard, or the end of the session, had stopped him, unless he
\* has asked for another page on the login page, or the address has a query string.
LoginSteps ==
    [][ /\ session # Nobody /\ session' # session
             => session \in ended' \/ overlap' \/ elsewhere'
        /\ LoginSucceeds /\ entering.here /\ Routable(asked) /\ ~askedAgain
             => address' = asked ]_loginAll

\* What the pages promise whatever answers come after the user has moved on:
\* what they show is the session there is.
LoginPromise ==
    /\ NotStranded
    /\ HeaderIsTrue
    /\ LoginWaits
    /\ SignedOutStays
=============================================================================
