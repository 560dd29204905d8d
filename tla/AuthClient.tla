------------------------------ MODULE AuthClient ------------------------------
(***************************************************************************)
(* Browser tabs in front of the server of RefreshTokens: AuthService keeps *)
(* the two tokens in localStorage, which the tabs share, and JwtInterceptor *)
(* answers a 401 by exchanging them, once for all requests of its tab.     *)
(*                                                                         *)
(* A pair of tokens is named by the row of its refresh token.  What one    *)
(* JavaScript task does is one step.                                       *)
(***************************************************************************)
EXTENDS RefreshTokens

CONSTANTS
    Tabs,
    Calls,          \* HTTP requests of the pages, each sent once
    TabOf,          \* the tab of a call
    LoginForm       \* the user signs in on one tab at a time

\* A tab has at most one POST /refresh (SingleFlight), which bears its name.
ASSUME TabsAssumption ==
    /\ TabOf \in [Calls -> Tabs]
    /\ LoginForm \notin Tabs
    /\ Requests = Tabs \cup {LoginForm}

Refused == MaxTokens + 1            \* an answer that is an error

VARIABLES
    store,          \* the pair in localStorage, 0 for none
    stale,          \* the pairs whose access token has expired
    answer,         \* answer[r]: the response on its way to the browser, or 0
    isRefreshing,   \* JwtInterceptor.isRefreshing of a tab
    exchanging,     \* AuthService.isRefreshing of a tab
    given,          \* given[t]: the pair that the tab's POST /refresh carries
    phase,          \* phase[q]: where a call is
    with,           \* with[q]: the pair on the wire with it
    troubled        \* history: a refresh has met a failure, an expired row, or
                    \* the same pair in another tab

browser == <<store, isRefreshing, exchanging, given, phase, with>>
clientVars == <<browser, stale, answer, troubled>>
allVars == <<tokenVars, clientVars>>

Phases == {"unsent", "sent", "leading", "waiting", "forgotten",
           "resent", "done", "failed"}

AInit ==
    /\ TokensInit
    /\ store = 0 /\ stale = {}
    /\ answer = [r \in Requests |-> 0]
    /\ isRefreshing = [t \in Tabs |-> FALSE]
    /\ exchanging = [t \in Tabs |-> FALSE]
    /\ given = [t \in Tabs |-> 0]
    /\ phase = [q \in Calls |-> "unsent"]
    /\ with = [q \in Calls |-> 0]
    /\ troubled = FALSE

-----------------------------------------------------------------------------
(* The server's part, and the way of its answers.                          *)

Quiet(r) == pc[r] = "idle" /\ answer[r] = 0

ServerLogin ==
    /\ store = 0 /\ Quiet(LoginForm)
    /\ \E u \in Users : Login(LoginForm, u)
    /\ UNCHANGED clientVars

ServerLoginCreates ==
    /\ LoginCreates(LoginForm)
    /\ answer' = [answer EXCEPT ![LoginForm] = made']
    /\ UNCHANGED <<browser, stale, troubled>>

ServerValidates(t) ==
    /\ given[t] # 0 /\ Quiet(t)
    /\ Validate(t, given[t])
    /\ UNCHANGED clientVars

ServerRefuses(t) ==
    /\ given[t] # 0 /\ Quiet(t) /\ ~Valid(given[t])
    /\ answer' = [answer EXCEPT ![t] = Refused]
    /\ UNCHANGED <<tokenVars, browser, stale, troubled>>

ServerRevokes(t) == RevokeOld(t) /\ UNCHANGED clientVars

ServerCreates(t) ==
    /\ CreateNew(t)
    /\ answer' = [answer EXCEPT ![t] = made']
    /\ UNCHANGED <<browser, stale, troubled>>

\* A statement fails or the server restarts.
ServerFails(r) ==
    /\ Fails(r)
    /\ answer' = [answer EXCEPT ![r] = Refused]
    /\ troubled' = TRUE
    /\ UNCHANGED <<browser, stale>>

\* A response is lost on its way.
AnswerLost(r) ==
    /\ answer[r] \in Ids
    /\ answer' = [answer EXCEPT ![r] = Refused]
    /\ troubled' = TRUE
    /\ UNCHANGED <<tokenVars, browser, stale>>

\* Time matters where a token is looked at: a row expires when it is about to
\* be presented, an access token while a call carries it.
RowExpires(i) ==
    /\ Expires(i) /\ i \notin expired
    /\ \E t \in Tabs : given[t] = i /\ Quiet(t)
    /\ troubled' = TRUE
    /\ UNCHANGED <<browser, stale, answer>>

AccessExpires(i) ==
    /\ i \in 1..made
    /\ \E q \in Calls : phase[q] \in {"sent", "resent"} /\ with[q] = i
    /\ stale' = stale \cup {i}
    /\ UNCHANGED <<tokenVars, browser, answer, troubled>>

-----------------------------------------------------------------------------
(* AuthService: login and logout.                                          *)

\* Variant: an error is stored as if it were a pair.
LoginAnswered_AnyAnswer ==
    /\ answer[LoginForm] # 0
    /\ store' = answer[LoginForm]
    /\ answer' = [answer EXCEPT ![LoginForm] = 0]
    /\ UNCHANGED <<tokenVars, stale, isRefreshing, exchanging, given, phase, with,
                   troubled>>

LoginAnswered ==
    /\ answer[LoginForm] # 0
    /\ store' = IF answer[LoginForm] = Refused THEN store ELSE answer[LoginForm]
    /\ answer' = [answer EXCEPT ![LoginForm] = 0]
    /\ UNCHANGED <<tokenVars, stale, isRefreshing, exchanging, given, phase, with,
                   troubled>>

\* intercept(): the requests that carry the access token.
Attaches(endpoint) == endpoint \notin {"login", "refresh", "logout"}

\* logout() of a tab: POST /logout, which is answered with 401 unless it carries
\* a good token; errors are ignored and the tokens are cleared.  Nothing else
\* is seen of the request, so that this is one step.  The flags stay.
SignOut ==
    /\ store # 0
    /\ IF Attaches("logout") /\ store \notin stale
         THEN Logout(owner[store])
         ELSE UNCHANGED tokenVars
    /\ store' = 0
    /\ UNCHANGED <<stale, answer, isRefreshing, exchanging, given, phase, with,
                   troubled>>

-----------------------------------------------------------------------------
(* JwtInterceptor.                                                         *)

Send(q) ==
    /\ phase[q] = "unsent"
    /\ phase' = [phase EXCEPT ![q] = "sent"]
    /\ with' = [with EXCEPT ![q] = store]
    /\ UNCHANGED <<tokenVars, store, stale, answer, isRefreshing, exchanging, given,
                   troubled>>

\* The answer of q is there: no token of it is on the wire.
Answered(q, to) ==
    /\ phase' = [phase EXCEPT ![q] = to]
    /\ with' = [with EXCEPT ![q] = 0]

Accepted(q) == with[q] # 0 /\ with[q] \notin stale

CallSucceeds(q) ==
    /\ phase[q] \in {"sent", "resent"} /\ Accepted(q)
    /\ Answered(q, "done")
    /\ UNCHANGED <<tokenVars, store, stale, answer, isRefreshing, exchanging, given,
                   troubled>>

\* handle401Error without tokens: clearAuthState, and the call fails.
NoTokens(q) ==
    /\ phase[q] = "sent" /\ ~Accepted(q) /\ store = 0
    /\ Answered(q, "failed")
    /\ exchanging' = [exchanging EXCEPT ![TabOf[q]] = FALSE]
    /\ UNCHANGED <<tokenVars, store, stale, answer, isRefreshing, given, troubled>>

\* Another tab has a refresh under way with the pair in the store.
Contended(t) == \E s \in Tabs \ {t} : given[s] = store

\* Variant: every 401 starts a refresh of its own.
Lead_NoFlag(q) ==
    /\ phase[q] = "sent" /\ ~Accepted(q) /\ store # 0
    /\ answer[TabOf[q]] = 0
    /\ isRefreshing' = [isRefreshing EXCEPT ![TabOf[q]] = TRUE]
    /\ exchanging' = [exchanging EXCEPT ![TabOf[q]] = TRUE]
    /\ given' = [given EXCEPT ![TabOf[q]] = store]
    /\ Answered(q, "leading")
    /\ troubled' = (troubled \/ Contended(TabOf[q]))
    /\ UNCHANGED <<tokenVars, store, stale, answer>>

\* handle401Error of the first call: AuthService.refreshToken up to its POST.
Lead(q) ==
    /\ phase[q] = "sent" /\ ~Accepted(q) /\ store # 0
    /\ ~isRefreshing[TabOf[q]]
    /\ isRefreshing' = [isRefreshing EXCEPT ![TabOf[q]] = TRUE]
    /\ exchanging' = [exchanging EXCEPT ![TabOf[q]] = TRUE]
    /\ given' = [given EXCEPT ![TabOf[q]] = store]
    /\ Answered(q, "leading")
    /\ troubled' = (troubled \/ Contended(TabOf[q]))
    /\ UNCHANGED <<tokenVars, store, stale, answer>>

\* handle401Error of the others: they wait for refreshTokenSubject.
Wait(q) ==
    /\ phase[q] = "sent" /\ ~Accepted(q) /\ store # 0
    /\ isRefreshing[TabOf[q]]
    /\ Answered(q, "waiting")
    /\ UNCHANGED <<tokenVars, store, stale, answer, isRefreshing, exchanging, given,
                   troubled>>

\* What every end of the refresh does, in both services.
Settle(t) ==
    /\ isRefreshing' = [isRefreshing EXCEPT ![t] = FALSE]
    /\ exchanging' = [exchanging EXCEPT ![t] = FALSE]
    /\ given' = [given EXCEPT ![t] = 0]
    /\ answer' = [answer EXCEPT ![t] = 0]

InTab(t, phases) == {q \in Calls : TabOf[q] = t /\ phase[q] \in phases}

\* Variant: the interceptor's subject is not told of the token.
RefreshSucceeds_NoNext(t) ==
    /\ answer[t] \in Ids
    /\ store' = answer[t]
    /\ LET again == InTab(t, {"leading"})
       IN  /\ phase' = [q \in Calls |->
                            IF q \in again THEN "resent" ELSE phase[q]]
           /\ with' = [q \in Calls |-> IF q \in again THEN store' ELSE with[q]]
    /\ Settle(t)
    /\ UNCHANGED <<tokenVars, stale, troubled>>

\* Variant: only the access token is stored.
RefreshSucceeds_KeepsOld(t) ==
    /\ answer[t] \in Ids
    /\ LET again == InTab(t, {"leading", "waiting", "forgotten"})
       IN  /\ phase' = [q \in Calls |->
                            IF q \in again THEN "resent" ELSE phase[q]]
           /\ with' = [q \in Calls |-> IF q \in again THEN answer[t]
                                                    ELSE with[q]]
    /\ Settle(t)
    /\ UNCHANGED <<tokenVars, store, stale, troubled>>

\* The pair is stored, and the calls of the tab that led or waited are sent
\* again; a second 401 is not handled.
RefreshSucceeds(t) ==
    /\ answer[t] \in Ids
    /\ store' = answer[t]
    /\ LET again == InTab(t, {"leading", "waiting", "forgotten"})
       IN  /\ phase' = [q \in Calls |->
                            IF q \in again THEN "resent" ELSE phase[q]]
           /\ with' = [q \in Calls |-> IF q \in again THEN store' ELSE with[q]]
    /\ Settle(t)
    /\ UNCHANGED <<tokenVars, stale, troubled>>

\* clearAuthState: whatever is in the store goes.  The leading call fails, the
\* waiting ones are told nothing: they are forgotten until a later refresh of
\* the tab succeeds.
RefreshFails(t) ==
    /\ answer[t] = Refused
    /\ store' = 0
    /\ phase' = [q \in Calls |->
                    CASE q \in InTab(t, {"leading"}) -> "failed"
                      [] q \in InTab(t, {"waiting"}) -> "forgotten"
                      [] OTHER -> phase[q]]
    /\ Settle(t)
    /\ UNCHANGED <<tokenVars, stale, with, troubled>>

ResentFails(q) ==
    /\ phase[q] = "resent" /\ ~Accepted(q)
    /\ Answered(q, "failed")
    /\ UNCHANGED <<tokenVars, store, stale, answer, isRefreshing, exchanging, given,
                   troubled>>

-----------------------------------------------------------------------------
ServerStep(t) ==
    \/ ServerValidates(t) \/ ServerRefuses(t)
    \/ ServerRevokes(t) \/ ServerCreates(t)

AnswerStep(t) == RefreshSucceeds(t) \/ RefreshFails(t)

CallAnswered(q) ==
    CallSucceeds(q) \/ NoTokens(q) \/ Lead(q) \/ Wait(q) \/ ResentFails(q)

ANext ==
    \/ ServerLogin \/ ServerLoginCreates \/ LoginAnswered \/ SignOut
    \/ \E t \in Tabs : ServerStep(t) \/ AnswerStep(t)
    \/ \E q \in Calls : Send(q) \/ CallAnswered(q)
    \/ \E r \in Requests : ServerFails(r) \/ AnswerLost(r)
    \/ \E i \in Ids : RowExpires(i) \/ AccessExpires(i)

\* The server works on, and answers arrive.
AFairness ==
    /\ \A t \in Tabs : WF_allVars(ServerStep(t)) /\ WF_allVars(AnswerStep(t))
    /\ \A q \in Calls : WF_allVars(CallAnswered(q))

ASpec == AInit /\ [][ANext]_allVars /\ AFairness

-----------------------------------------------------------------------------
ATypeOK ==
    /\ TokensTypeOK
    /\ store \in 0..made /\ stale \subseteq 1..made
    /\ answer \in [Requests -> 0..Refused]
    /\ isRefreshing \in [Tabs -> BOOLEAN] /\ exchanging \in [Tabs -> BOOLEAN]
    /\ given \in [Tabs -> 0..made]
    /\ phase \in [Calls -> Phases] /\ with \in [Calls -> 0..made]
    /\ troubled \in BOOLEAN

\* A tab has at most one refresh under way, led by one call, and the flag of
\* AuthService is never up without the interceptor's: its own queue, with the
\* timeout, is never entered.
SingleFlight ==
    \A t \in Tabs :
       /\ exchanging[t] => isRefreshing[t]
       /\ isRefreshing[t] <=> given[t] # 0
       /\ isRefreshing[t] <=> \E q \in InTab(t, {"leading"}) :
                                 InTab(t, {"leading"}) = {q}
       /\ ~isRefreshing[t] => Quiet(t)

\* However many calls of a tab meet an expired token, the session survives: a
\* failed refresh clears tokens only after a failure, the end of a refresh
\* token's life, or an overlap with a refresh of another tab.
SessionSurvives ==
    [][(\E t \in Tabs : RefreshFails(t)) /\ store # 0 => troubled]_allVars

\* The bound on rows keeps a refresh of the tab from its end.
OutOfRows(t) == made = MaxTokens /\ pc[t] = "revokedOld"

\* A call does not wait while no refresh of its tab goes on: it is sent again
\* when the new pair is there, or forgotten when there is none.
WaitersAreResent ==
    \A q \in Calls :
       phase[q] = "waiting" ~> phase[q] # "waiting" \/ OutOfRows(TabOf[q])

\* "Only call the logout API if we have a valid token": when logout() clears the
\* tokens while the access token is good, POST /logout has revoked the refresh
\* token among them.
LogoutRevokes ==
    [][SignOut /\ store \notin stale => store \in revoked']_allVars
=============================================================================
