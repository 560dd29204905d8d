---------------------------- MODULE RefreshTokens ----------------------------
(***************************************************************************)
(* The refresh tokens of the API: RefreshTokenService on the table         *)
(* RefreshToken, and the endpoints that use it.  Every SQL statement is    *)
(* one step; a refresh is three of them (validate, revoke, create), and    *)
(* other requests, a failing statement or a restart may come between.      *)
(***************************************************************************)
EXTENDS Naturals

CONSTANTS
    Users,
    NoUser,
    Requests,       \* requests the server works on at the same time
    MaxTokens,      \* bound: rows ever inserted
    MaxLogouts      \* bound: logouts of a user

ASSUME TokensBoundsAssumption == MaxTokens \in Nat /\ MaxLogouts \in Nat
ASSUME NoUserAssumption == NoUser \notin Users

Ids == 1..MaxTokens

VARIABLES
    made,           \* rows inserted: their ids are 1..made
    owner,          \* UserId of a row
    revoked,        \* the rows with IsRevoked = 1
    expired,        \* the rows whose ExpiryDate has passed
    pc,             \* pc[r]: how far request r is
    user,           \* user[r]: whose request it is
    tok,            \* tok[r]: the row that it refreshes
    replaces,           \* history: the row a row replaced, 0 for a login
    shared,         \* history: rows two refreshes were validated for at once
    epoch,          \* history: how often a user logged out
    born,           \* history: the epoch of the login a row goes back to
    seen,           \* history: the epoch in which r was validated
    late            \* history: rows that go back to a refresh under way when
                    \* its user logged out

table == <<made, owner, revoked, expired>>
requests == <<pc, user, tok, seen>>
history == <<replaces, shared, epoch, born, late>>
tokenVars == <<table, requests, history>>

Stages == {"idle", "login", "validated", "revokedOld"}

TokensInit ==
    /\ made = 0
    /\ owner = [i \in Ids |-> NoUser]
    /\ revoked = {} /\ expired = {}
    /\ pc = [r \in Requests |-> "idle"]
    /\ user = [r \in Requests |-> NoUser]
    /\ tok = [r \in Requests |-> 0]
    /\ replaces = [i \in Ids |-> 0]
    /\ shared = {}
    /\ epoch = [u \in Users |-> 0]
    /\ born = [i \in Ids |-> 0]
    /\ seen = [r \in Requests |-> 0]
    /\ late = {}

Valid(i) == i \in 1..made /\ i \notin revoked /\ i \notin expired

\* The row that CreateRefreshTokenAsync inserts for request r.
Insert(r, b, isLate) ==
    /\ made < MaxTokens
    /\ made' = made + 1
    /\ owner' = [owner EXCEPT ![made + 1] = user[r]]
    /\ replaces' = [replaces EXCEPT ![made + 1] = tok[r]]
    /\ born' = [born EXCEPT ![made + 1] = b]
    /\ late' = IF isLate THEN late \cup {made + 1} ELSE late
    /\ UNCHANGED <<revoked, expired, shared, epoch>>

Ends(r) ==
    /\ pc' = [pc EXCEPT ![r] = "idle"]
    /\ user' = [user EXCEPT ![r] = NoUser]
    /\ tok' = [tok EXCEPT ![r] = 0]
    /\ seen' = [seen EXCEPT ![r] = 0]

-----------------------------------------------------------------------------
(* POST /login                                                             *)

\* The password is right; other logins change nothing.
Login(r, u) ==
    /\ pc[r] = "idle"
    /\ pc' = [pc EXCEPT ![r] = "login"]
    /\ user' = [user EXCEPT ![r] = u]
    /\ UNCHANGED <<table, tok, seen, history>>

LoginCreates(r) ==
    /\ pc[r] = "login"
    /\ Insert(r, epoch[user[r]], FALSE)
    /\ Ends(r)

-----------------------------------------------------------------------------
(* POST /refresh, with the two tokens of one login or refresh response.    *)

\* Variant: IsRevoked is not looked at.
Validate_IgnoresRevoked(r, i) ==
    /\ pc[r] = "idle"
    /\ i \in 1..made /\ i \notin expired
    /\ pc' = [pc EXCEPT ![r] = "validated"]
    /\ user' = [user EXCEPT ![r] = owner[i]]
    /\ tok' = [tok EXCEPT ![r] = i]
    /\ seen' = [seen EXCEPT ![r] = epoch[owner[i]]]
    /\ shared' = IF \E s \in Requests : pc[s] = "validated" /\ tok[s] = i
                   THEN shared \cup {i} ELSE shared
    /\ UNCHANGED <<table, replaces, epoch, born, late>>

\* ValidateRefreshTokenAsync finds the row, neither revoked nor expired.  An
\* invalid token is answered with 401 and changes nothing.
Validate(r, i) ==
    /\ pc[r] = "idle"
    /\ Valid(i)
    /\ pc' = [pc EXCEPT ![r] = "validated"]
    /\ user' = [user EXCEPT ![r] = owner[i]]
    /\ tok' = [tok EXCEPT ![r] = i]
    /\ seen' = [seen EXCEPT ![r] = epoch[owner[i]]]
    /\ shared' = IF \E s \in Requests : pc[s] = "validated" /\ tok[s] = i
                   THEN shared \cup {i} ELSE shared
    /\ UNCHANGED <<table, replaces, epoch, born, late>>

\* RotateRefreshTokenAsync, first statement.
RevokeOld(r) ==
    /\ pc[r] = "validated"
    /\ revoked' = revoked \cup {tok[r]}
    /\ pc' = [pc EXCEPT ![r] = "revokedOld"]
    /\ UNCHANGED <<made, owner, expired, user, tok, seen, history>>

\* RotateRefreshTokenAsync, second statement, and the answer.
CreateNew(r) ==
    /\ pc[r] = "revokedOld"
    /\ Insert(r, born[tok[r]], tok[r] \in late \/ seen[r] # epoch[user[r]])
    /\ Ends(r)

\* A statement of r fails; what it did before stays done.
Fails(r) ==
    /\ pc[r] # "idle"
    /\ Ends(r)
    /\ UNCHANGED <<table, history>>

-----------------------------------------------------------------------------
(* POST /revoke and /logout, time and restarts.                            *)

Revoke(i) ==
    /\ i \in 1..made
    /\ revoked' = revoked \cup {i}
    /\ UNCHANGED <<made, owner, expired, requests, history>>

\* Variant: only the newest token of the user is revoked.
Logout_NewestOnly(u) ==
    /\ epoch[u] < MaxLogouts
    /\ epoch' = [epoch EXCEPT ![u] = @ + 1]
    /\ revoked' = revoked \cup {i \in 1..made :
                     owner[i] = u /\ \A j \in (i + 1)..made : owner[j] # u}
    /\ UNCHANGED <<made, owner, expired, requests, replaces, shared, born, late>>

\* RevokeAllUserRefreshTokensAsync.
Logout(u) ==
    /\ epoch[u] < MaxLogouts
    /\ epoch' = [epoch EXCEPT ![u] = @ + 1]
    /\ revoked' = revoked \cup {i \in 1..made : owner[i] = u}
    /\ UNCHANGED <<made, owner, expired, requests, replaces, shared, born, late>>

Expires(i) ==
    /\ i \in 1..made
    /\ expired' = expired \cup {i}
    /\ UNCHANGED <<made, owner, revoked, requests, history>>

\* The server restarts: the requests are gone, the table is not.
Restart ==
    /\ pc' = [r \in Requests |-> "idle"]
    /\ user' = [r \in Requests |-> NoUser]
    /\ tok' = [r \in Requests |-> 0]
    /\ seen' = [r \in Requests |-> 0]
    /\ UNCHANGED <<table, history>>

-----------------------------------------------------------------------------
TokensNext ==
    \/ \E r \in Requests :
          \/ \E u \in Users : Login(r, u)
          \/ LoginCreates(r)
          \/ \E i \in Ids : Validate(r, i)
          \/ RevokeOld(r) \/ CreateNew(r) \/ Fails(r)
    \/ \E i \in Ids : Revoke(i) \/ Expires(i)
    \/ \E u \in Users : Logout(u)
    \/ Restart

TokensSpec == TokensInit /\ [][TokensNext]_tokenVars

-----------------------------------------------------------------------------
\* A request under way is a user's, and a refresh has a row of that user.
RequestOK(r) ==
    /\ pc[r] \in {"validated", "revokedOld"}
          => tok[r] \in 1..made /\ owner[tok[r]] = user[r]
    /\ pc[r] \in {"idle", "login"} => tok[r] = 0
    /\ pc[r] # "idle" => user[r] \in Users

TokensTypeOK ==
    /\ made \in 0..MaxTokens
    /\ owner \in [Ids -> Users \cup {NoUser}]
    /\ \A i \in 1..made : owner[i] \in Users
    /\ revoked \subseteq 1..made /\ expired \subseteq 1..made
    /\ pc \in [Requests -> Stages]
    /\ user \in [Requests -> Users \cup {NoUser}]
    /\ tok \in [Requests -> 0..MaxTokens]
    /\ \A r \in Requests : RequestOK(r)
    /\ replaces \in [Ids -> 0..MaxTokens]
    /\ shared \subseteq Ids /\ late \subseteq Ids
    /\ epoch \in [Users -> Nat]
    /\ born \in [Ids -> Nat]
    /\ seen \in [Requests -> Nat]

\* Rotation: a token is exchanged once.  Only two refreshes that had both been
\* validated for it before either revoked it get a new token each.
ExchangedOnce ==
    \A i, j \in 1..made :
       i # j /\ replaces[i] = replaces[j] /\ replaces[i] # 0 => replaces[i] \in shared

\* A logout ends every session of its user: a token that is still good belongs
\* to a login after the last logout, unless a refresh that the logout found
\* under way has carried an older session over.
LogoutEndsSessions ==
    \A i \in 1..made :
       i \notin revoked => born[i] = epoch[owner[i]] \/ i \in late
=============================================================================
