----------------------------- MODULE TokensProofs -----------------------------
(***************************************************************************)
(* Proofs about RefreshTokens, for any number of users, requests, tokens   *)
(* and logouts: a token is exchanged once, and a logout ends the sessions, *)
(* outside the overlaps that "shared" and "late" record.  Then about       *)
(* AuthClient, which composes it, for any number of tabs, calls, users and *)
(* rows: the browser and the server together implement the server alone, a *)
(* tab refreshes once at a time, and a session outlives its expired        *)
(* tokens.                                                                 *)
(***************************************************************************)
EXTENDS AuthClient, TLAPS

-----------------------------------------------------------------------------
(* The server alone.                                                       *)

\* The tables and no request under way, as the server starts with them.
LEMMA InitType == TokensInit => TokensTypeOK
BY TokensBoundsAssumption, NoUserAssumption
DEF TokensInit, TokensTypeOK, RequestOK, Ids, Stages

\* CreateRefreshTokenAsync inserts a row of the user the request works for.
LEMMA InsertType ==
    ASSUME NEW r \in Requests, NEW b \in Nat, NEW l \in BOOLEAN,
           TokensTypeOK, user[r] \in Users, Insert(r, b, l), Ends(r)
    PROVE  TokensTypeOK'
<1>1. made' \in 0..MaxTokens /\ made + 1 \in Ids /\ made' = made + 1
    BY TokensBoundsAssumption DEF TokensTypeOK, Insert, Ids
<1>2. /\ owner' \in [Ids -> Users \cup {NoUser}]
      /\ replaces' \in [Ids -> 0..MaxTokens]
      /\ born' \in [Ids -> Nat]
      /\ epoch' \in [Users -> Nat]
    BY <1>1 DEF TokensTypeOK, Insert
<1>3. \A i \in 1..made' : owner'[i] \in Users
    BY <1>1, TokensBoundsAssumption DEF TokensTypeOK, Insert, Ids
<1>4. revoked' \subseteq 1..made' /\ expired' \subseteq 1..made'
    BY <1>1, TokensBoundsAssumption DEF TokensTypeOK, Insert
<1>5. shared' \subseteq Ids /\ late' \subseteq Ids
    BY <1>1 DEF TokensTypeOK, Insert
<1>6. /\ pc' \in [Requests -> Stages]
      /\ user' \in [Requests -> Users \cup {NoUser}]
      /\ tok' \in [Requests -> 0..MaxTokens]
      /\ seen' \in [Requests -> Nat]
    BY TokensBoundsAssumption DEF TokensTypeOK, Ends, Stages
<1>7. ASSUME NEW s \in Requests PROVE RequestOK(s)'
  <2>1. CASE s = r
      BY <2>1 DEF TokensTypeOK, Ends, RequestOK, Stages
  <2>2. CASE s # r
    <3>1. pc'[s] = pc[s] /\ user'[s] = user[s] /\ tok'[s] = tok[s]
        BY <2>2 DEF Ends, TokensTypeOK
    <3>2. \A i \in 1..made : i \in 1..made' /\ owner'[i] = owner[i]
        BY <1>1, TokensBoundsAssumption DEF TokensTypeOK, Insert, Ids
    <3> QED BY <3>1, <3>2 DEF TokensTypeOK, RequestOK
  <2> QED BY <2>1, <2>2
<1> QED BY <1>1, <1>2, <1>3, <1>4, <1>5, <1>6, <1>7 DEF TokensTypeOK

\* Every step keeps the types.
LEMMA StepType == TokensTypeOK /\ [TokensNext]_tokenVars => TokensTypeOK'
<1> SUFFICES ASSUME TokensTypeOK, [TokensNext]_tokenVars PROVE TokensTypeOK'
    OBVIOUS
<1>1. ASSUME NEW r \in Requests, NEW u \in Users, Login(r, u) PROVE TokensTypeOK'
    BY <1>1 DEF Login, TokensTypeOK, RequestOK, Stages, Ids, table, history
<1>2. ASSUME NEW r \in Requests, LoginCreates(r) PROVE TokensTypeOK'
  <2>1. user[r] \in Users /\ epoch[user[r]] \in Nat
      BY <1>2 DEF LoginCreates, TokensTypeOK, RequestOK
  <2> QED BY <1>2, <2>1, InsertType DEF LoginCreates
<1>3. ASSUME NEW r \in Requests, NEW i \in Ids, Validate(r, i) PROVE TokensTypeOK'
  <2>1. owner[i] \in Users /\ i \in 1..made
      BY <1>3 DEF Validate, Valid, TokensTypeOK
  <2>2. /\ pc' \in [Requests -> Stages]
        /\ user' \in [Requests -> Users \cup {NoUser}]
        /\ tok' \in [Requests -> 0..MaxTokens]
        /\ seen' \in [Requests -> Nat]
        /\ shared' \subseteq Ids
      BY <1>3, <2>1, TokensBoundsAssumption DEF Validate, TokensTypeOK, Stages, Ids
  <2>3. UNCHANGED <<made, owner, revoked, expired, replaces, epoch, born, late>>
      BY <1>3 DEF Validate, table
  <2>4. \A s \in Requests : RequestOK(s)'
      BY <1>3, <2>1, <2>3 DEF Validate, TokensTypeOK, RequestOK
  <2> QED BY <2>2, <2>3, <2>4 DEF TokensTypeOK
<1>4. ASSUME NEW r \in Requests, RevokeOld(r) PROVE TokensTypeOK'
    BY <1>4 DEF RevokeOld, TokensTypeOK, RequestOK, Stages, Ids, history
<1>5. ASSUME NEW r \in Requests, CreateNew(r) PROVE TokensTypeOK'
  <2>1. user[r] \in Users /\ born[tok[r]] \in Nat
      BY <1>5, TokensBoundsAssumption DEF CreateNew, TokensTypeOK, RequestOK, Ids
  <2>2. (tok[r] \in late \/ seen[r] # epoch[user[r]]) \in BOOLEAN
      OBVIOUS
  <2> QED BY <1>5, <2>1, <2>2, InsertType DEF CreateNew
<1>6. ASSUME NEW r \in Requests, Fails(r) PROVE TokensTypeOK'
  <2>1. /\ pc' \in [Requests -> Stages]
        /\ user' \in [Requests -> Users \cup {NoUser}]
        /\ tok' \in [Requests -> 0..MaxTokens]
        /\ seen' \in [Requests -> Nat]
      BY <1>6, TokensBoundsAssumption DEF Fails, Ends, TokensTypeOK, Stages
  <2>2. UNCHANGED <<table, history>>
      BY <1>6 DEF Fails
  <2>3. \A s \in Requests : RequestOK(s)'
      BY <1>6, <2>2 DEF Fails, Ends, TokensTypeOK, RequestOK, table
  <2> QED BY <2>1, <2>2, <2>3 DEF TokensTypeOK, table, history
<1>7. ASSUME NEW i \in Ids, Revoke(i) \/ Expires(i) PROVE TokensTypeOK'
    BY <1>7 DEF Revoke, Expires, TokensTypeOK, RequestOK, requests, history
<1>8. ASSUME NEW u \in Users, Logout(u) PROVE TokensTypeOK'
  <2>1. epoch' \in [Users -> Nat]
    <3>1. epoch' = [epoch EXCEPT ![u] = epoch[u] + 1] /\ epoch[u] + 1 \in Nat
        BY <1>8 DEF Logout, TokensTypeOK
    <3> QED BY <3>1 DEF TokensTypeOK
  <2>3. revoked' \subseteq 1..made
      BY <1>8 DEF Logout, TokensTypeOK
  <2>2. UNCHANGED <<made, owner, expired, requests, replaces, shared, born, late>>
      BY <1>8 DEF Logout
  <2> QED BY <2>1, <2>2, <2>3 DEF TokensTypeOK, RequestOK, requests
<1>9. CASE Restart
    BY <1>9, TokensBoundsAssumption
    DEF Restart, TokensTypeOK, RequestOK, Stages, table, history
<1>10. CASE UNCHANGED tokenVars
    BY <1>10 DEF tokenVars, table, requests, history, TokensTypeOK, RequestOK
<1> QED BY <1>1, <1>2, <1>3, <1>4, <1>5, <1>6, <1>7, <1>8, <1>9, <1>10 DEF TokensNext

\* Rows belong to users, and requests work on rows of the user they are for.
THEOREM TypeCorrect == TokensSpec => []TokensTypeOK
BY InitType, StepType, PTL DEF TokensSpec

-----------------------------------------------------------------------------
Refreshing(r) == pc[r] \in {"validated", "revokedOld"}

\* What makes ExchangedOnce inductive: a row that has a successor is revoked,
\* and two refreshes can be under way for one row, or one for a row that has a
\* successor, only after both have been validated at the same time.
ExchangeInv ==
    /\ \A i \in 1..made : replaces[i] # 0 => replaces[i] \in revoked
    /\ \A r \in Requests : pc[r] = "revokedOld" => tok[r] \in revoked
    /\ \A r, s \in Requests :
          r # s /\ Refreshing(r) /\ Refreshing(s) /\ tok[r] = tok[s]
             => tok[r] \in shared
    /\ \A r \in Requests, i \in 1..made :
          Refreshing(r) /\ replaces[i] = tok[r] => tok[r] \in shared
    /\ ExchangedOnce

\* A refresh inserts the successor of its row; a login's row has none before it.
LEMMA InsertExchange ==
    ASSUME NEW r \in Requests, NEW b, NEW l \in BOOLEAN,
           TokensTypeOK, ExchangeInv, Insert(r, b, l), Ends(r),
           \/ pc[r] = "login"
           \/ pc[r] = "revokedOld"
    PROVE  ExchangeInv'
<1>1. /\ made' = made + 1 /\ made + 1 \in Ids /\ made \in Nat
      /\ \A i \in 1..made' : i \in 1..made \/ i = made + 1
    BY TokensBoundsAssumption DEF TokensTypeOK, Insert, Ids
<1>2. /\ replaces'[made + 1] = tok[r]
      /\ \A i \in 1..made : replaces'[i] = replaces[i]
      /\ revoked' = revoked /\ shared' = shared
    BY <1>1, TokensBoundsAssumption DEF TokensTypeOK, Insert, Ids
<1>3. tok[r] = 0 \/ (pc[r] = "revokedOld" /\ Refreshing(r) /\ tok[r] \in revoked)
    BY DEF TokensTypeOK, RequestOK, ExchangeInv, Refreshing
<1>4. /\ ~Refreshing(r)' /\ pc'[r] = "idle"
      /\ \A s \in Requests \ {r} : pc'[s] = pc[s] /\ tok'[s] = tok[s]
    BY DEF TokensTypeOK, Ends, Refreshing
<1>5. \A s \in Requests : Refreshing(s)' =>
          s # r /\ Refreshing(s) /\ tok'[s] = tok[s] /\ tok[s] \in 1..made
    BY <1>4 DEF Refreshing, TokensTypeOK, RequestOK
<1>6. \A i \in 1..made' : replaces'[i] # 0 => replaces'[i] \in revoked'
    BY <1>1, <1>2, <1>3 DEF ExchangeInv
<1>7. \A s \in Requests : pc'[s] = "revokedOld" => tok'[s] \in revoked'
    BY <1>2, <1>4 DEF ExchangeInv
<1>8. \A s, t \in Requests :
          s # t /\ Refreshing(s)' /\ Refreshing(t)' /\ tok'[s] = tok'[t]
             => tok'[s] \in shared'
    BY <1>2, <1>5 DEF ExchangeInv
<1>9. ASSUME NEW s \in Requests, NEW i \in 1..made',
             Refreshing(s)', replaces'[i] = tok'[s]
      PROVE  tok'[s] \in shared'
  <2>1. CASE i \in 1..made
      BY <2>1, <1>2, <1>5, <1>9 DEF ExchangeInv
  <2>2. CASE i = made + 1
    <3>1. tok[s] = tok[r] /\ tok[s] # 0
        BY <2>2, <1>1, <1>2, <1>5, <1>9
    <3> QED BY <3>1, <1>2, <1>3, <1>5, <1>9 DEF ExchangeInv
  <2> QED BY <1>1, <2>1, <2>2
<1>10. ASSUME NEW i \in 1..made', NEW j \in 1..made',
              i # j, replaces'[i] = replaces'[j], replaces'[i] # 0
       PROVE  replaces'[i] \in shared'
  <2>1. CASE i \in 1..made /\ j \in 1..made
      BY <2>1, <1>2, <1>10 DEF ExchangeInv, ExchangedOnce
  <2>2. CASE i = made + 1 /\ j \in 1..made
      BY <2>2, <1>2, <1>3, <1>10 DEF ExchangeInv
  <2>3. CASE j = made + 1 /\ i \in 1..made
      BY <2>3, <1>2, <1>3, <1>10 DEF ExchangeInv
  <2> QED BY <1>1, <1>10, <2>1, <2>2, <2>3
<1> QED BY <1>6, <1>7, <1>8, <1>9, <1>10 DEF ExchangeInv, ExchangedOnce

\* Nothing but the requests changes, and they only end; or rows are revoked.
LEMMA QuietExchange ==
    ASSUME TokensTypeOK, ExchangeInv,
           UNCHANGED <<made, replaces, shared>>, revoked \subseteq revoked',
           \A s \in Requests :
              \/ pc'[s] \in {"idle", "login"}
              \/ /\ tok'[s] = tok[s] /\ Refreshing(s)
                 /\ pc'[s] = "revokedOld" => tok[s] \in revoked'
    PROVE  ExchangeInv'
<1>1. \A s \in Requests : Refreshing(s)' => Refreshing(s) /\ tok'[s] = tok[s]
    BY DEF Refreshing
<1> QED BY <1>1 DEF ExchangeInv, ExchangedOnce, Refreshing

\* Every step keeps the invariant.
LEMMA StepExchange == TokensTypeOK /\ ExchangeInv /\ [TokensNext]_tokenVars => ExchangeInv'
<1> SUFFICES ASSUME TokensTypeOK, ExchangeInv, [TokensNext]_tokenVars PROVE ExchangeInv'
    OBVIOUS
<1>1. ASSUME NEW r \in Requests, NEW u \in Users, Login(r, u) PROVE ExchangeInv'
    BY <1>1, QuietExchange
    DEF Login, TokensTypeOK, ExchangeInv, Refreshing, Stages, table, history
<1>2. ASSUME NEW r \in Requests, LoginCreates(r) PROVE ExchangeInv'
    BY <1>2, InsertExchange DEF LoginCreates
<1>3. ASSUME NEW r \in Requests, NEW i \in Ids, Validate(r, i) PROVE ExchangeInv'
  <2>1. /\ i \in 1..made /\ i \notin revoked /\ pc[r] = "idle"
        /\ UNCHANGED <<made, replaces, revoked>>
        /\ pc'[r] = "validated" /\ tok'[r] = i
        /\ \A s \in Requests \ {r} : pc'[s] = pc[s] /\ tok'[s] = tok[s]
        /\ shared \subseteq shared'
      BY <1>3 DEF Validate, Valid, TokensTypeOK, table
  <2>2. \A s \in Requests \ {r} : Refreshing(s)' <=> Refreshing(s)
      BY <2>1 DEF Refreshing
  <2>3. \A s \in Requests \ {r} : Refreshing(s) /\ tok[s] = i => i \in shared'
    <3>1. \A s \in Requests \ {r} :
             Refreshing(s) /\ tok[s] = i => pc[s] = "validated"
        BY <2>1 DEF ExchangeInv, Refreshing
    <3> QED BY <3>1, <1>3 DEF Validate
  <2>4. \A j \in 1..made : replaces[j] # i
      BY <2>1 DEF ExchangeInv
  <2>5. \A s, t \in Requests :
           s # t /\ Refreshing(s)' /\ Refreshing(t)' /\ tok'[s] = tok'[t]
              => tok'[s] \in shared'
      BY <2>1, <2>2, <2>3 DEF ExchangeInv
  <2>6. \A s \in Requests, j \in 1..made' :
           Refreshing(s)' /\ replaces'[j] = tok'[s] => tok'[s] \in shared'
      BY <2>1, <2>2, <2>4 DEF ExchangeInv
  <2> QED BY <2>1, <2>5, <2>6 DEF ExchangeInv, ExchangedOnce
<1>4. ASSUME NEW r \in Requests, RevokeOld(r) PROVE ExchangeInv'
  <2>1. /\ UNCHANGED <<made, replaces, shared, tok>>
        /\ revoked' = revoked \cup {tok[r]} /\ pc[r] = "validated"
        /\ \A s \in Requests : IF s = r THEN pc'[s] = "revokedOld"
                                        ELSE pc'[s] = pc[s]
      BY <1>4 DEF RevokeOld, TokensTypeOK, history
  <2> QED BY <2>1, QuietExchange DEF ExchangeInv, Refreshing, TokensTypeOK, Stages
<1>5. ASSUME NEW r \in Requests, CreateNew(r) PROVE ExchangeInv'
  <2>1. (tok[r] \in late \/ seen[r] # epoch[user[r]]) \in BOOLEAN
      OBVIOUS
  <2> QED BY <1>5, <2>1, InsertExchange DEF CreateNew
<1>6. ASSUME NEW r \in Requests, Fails(r) PROVE ExchangeInv'
  <2>1. /\ UNCHANGED <<made, replaces, shared, revoked>>
        /\ \A s \in Requests : pc'[s] = "idle"
                                 \/ (pc'[s] = pc[s] /\ tok'[s] = tok[s])
      BY <1>6 DEF Fails, Ends, TokensTypeOK, table, history
  <2> QED BY <2>1, QuietExchange DEF ExchangeInv, Refreshing, TokensTypeOK, Stages
<1>7. ASSUME NEW i \in Ids, Revoke(i) \/ Expires(i) PROVE ExchangeInv'
  <2>1. UNCHANGED <<made, replaces, shared, pc, tok>> /\ revoked \subseteq revoked'
      BY <1>7 DEF Revoke, Expires, requests, history
  <2> QED BY <2>1, QuietExchange DEF ExchangeInv, Refreshing, TokensTypeOK, Stages
<1>8. ASSUME NEW u \in Users, Logout(u) PROVE ExchangeInv'
  <2>1. UNCHANGED <<made, replaces, shared, pc, tok>> /\ revoked \subseteq revoked'
      BY <1>8 DEF Logout, requests
  <2> QED BY <2>1, QuietExchange DEF ExchangeInv, Refreshing, TokensTypeOK, Stages
<1>9. CASE Restart
    BY <1>9, QuietExchange DEF Restart, table, history
<1>10. CASE UNCHANGED tokenVars
  <2>1. UNCHANGED <<made, replaces, shared, revoked, pc, tok>>
      BY <1>10 DEF tokenVars, table, requests, history
  <2> QED BY <2>1, QuietExchange DEF ExchangeInv, Refreshing, TokensTypeOK, Stages
<1> QED BY <1>1, <1>2, <1>3, <1>4, <1>5, <1>6, <1>7, <1>8, <1>9, <1>10 DEF TokensNext

\* RotateRefreshTokenAsync exchanges a token once, unless two refreshes passed
\* ValidateRefreshTokenAsync with it before either revoked it.
THEOREM ExchangedOnceHolds == TokensSpec => []ExchangedOnce
<1>1. TokensInit => ExchangeInv
    BY DEF TokensInit, ExchangeInv, ExchangedOnce, Refreshing
<1>2. ExchangeInv => ExchangedOnce
    BY DEF ExchangeInv
<1> QED BY <1>1, <1>2, TypeCorrect, StepExchange, PTL DEF TokensSpec

-----------------------------------------------------------------------------
\* What makes LogoutEndsSessions inductive: a refresh under way carries a
\* session of the epoch it was validated in, or one that is late already.
SessionInv ==
    /\ LogoutEndsSessions
    /\ \A r \in Requests :
          Refreshing(r) => born[tok[r]] = seen[r] \/ tok[r] \in late

\* A row inserted with the epoch of its user, or marked late, is no exception.
LEMMA InsertSession ==
    ASSUME NEW r \in Requests, NEW b \in Nat, NEW l \in BOOLEAN,
           TokensTypeOK, SessionInv, Insert(r, b, l), Ends(r),
           b = epoch[user[r]] \/ l
    PROVE  SessionInv'
<1>1. /\ made' = made + 1 /\ made + 1 \in Ids /\ made \in Nat
      /\ \A i \in 1..made' : i \in 1..made \/ i = made + 1
    BY TokensBoundsAssumption DEF TokensTypeOK, Insert, Ids
<1>2. /\ owner'[made + 1] = user[r] /\ born'[made + 1] = b
      /\ l => made + 1 \in late'
      /\ late \subseteq late'
      /\ \A i \in 1..made : owner'[i] = owner[i] /\ born'[i] = born[i]
      /\ revoked' = revoked /\ epoch' = epoch
    BY <1>1, TokensBoundsAssumption DEF TokensTypeOK, Insert, Ids
<1>3. LogoutEndsSessions'
    BY <1>1, <1>2 DEF SessionInv, LogoutEndsSessions
<1>4. ASSUME NEW s \in Requests, Refreshing(s)'
      PROVE  born'[tok'[s]] = seen'[s] \/ tok'[s] \in late'
  <2>1. Refreshing(s) /\ tok'[s] = tok[s] /\ seen'[s] = seen[s]
      BY <1>4 DEF Ends, TokensTypeOK, Refreshing
  <2>2. tok[s] \in 1..made
      BY <2>1 DEF TokensTypeOK, RequestOK, Refreshing
  <2> QED BY <2>1, <2>2, <1>2 DEF SessionInv
<1> QED BY <1>3, <1>4 DEF SessionInv

\* Every step keeps the invariant.
LEMMA StepSession == TokensTypeOK /\ SessionInv /\ [TokensNext]_tokenVars => SessionInv'
<1> SUFFICES ASSUME TokensTypeOK, SessionInv, [TokensNext]_tokenVars PROVE SessionInv'
    OBVIOUS
<1>1. ASSUME NEW r \in Requests, NEW u \in Users, Login(r, u) PROVE SessionInv'
    BY <1>1
    DEF Login, TokensTypeOK, SessionInv, LogoutEndsSessions, Refreshing, table, history
<1>2. ASSUME NEW r \in Requests, LoginCreates(r) PROVE SessionInv'
  <2>1. epoch[user[r]] \in Nat
      BY <1>2 DEF LoginCreates, TokensTypeOK, RequestOK
  <2> QED BY <1>2, <2>1, InsertSession DEF LoginCreates
<1>3. ASSUME NEW r \in Requests, NEW i \in Ids, Validate(r, i) PROVE SessionInv'
  <2>1. born[i] = epoch[owner[i]] \/ i \in late
      BY <1>3 DEF Validate, Valid, SessionInv, LogoutEndsSessions
  <2> QED BY <1>3, <2>1
          DEF Validate, TokensTypeOK, SessionInv, LogoutEndsSessions, Refreshing, table
<1>4. ASSUME NEW r \in Requests, RevokeOld(r) PROVE SessionInv'
    BY <1>4
    DEF RevokeOld, TokensTypeOK, SessionInv, LogoutEndsSessions, Refreshing, history
<1>5. ASSUME NEW r \in Requests, CreateNew(r) PROVE SessionInv'
  <2> DEFINE l == tok[r] \in late \/ seen[r] # epoch[user[r]]
  <2>1. l \in BOOLEAN
      OBVIOUS
  <2>2. born[tok[r]] \in Nat /\ (born[tok[r]] = epoch[user[r]] \/ l)
      BY <1>5, TokensBoundsAssumption
      DEF CreateNew, TokensTypeOK, RequestOK, SessionInv, Refreshing, Ids
  <2>3. Insert(r, born[tok[r]], l) /\ Ends(r)
      BY <1>5 DEF CreateNew
  <2> HIDE DEF l
  <2> QED BY <2>1, <2>2, <2>3, InsertSession
<1>6. ASSUME NEW r \in Requests, Fails(r) PROVE SessionInv'
    BY <1>6 DEF Fails, Ends, TokensTypeOK, SessionInv, LogoutEndsSessions, Refreshing,
                table, history
<1>7. ASSUME NEW i \in Ids, Revoke(i) \/ Expires(i) PROVE SessionInv'
    BY <1>7 DEF Revoke, Expires, SessionInv, LogoutEndsSessions, Refreshing,
                requests, history
<1>8. ASSUME NEW u \in Users, Logout(u) PROVE SessionInv'
  <2>1. \A i \in 1..made : i \notin revoked' =>
           i \notin revoked /\ epoch'[owner[i]] = epoch[owner[i]]
      BY <1>8 DEF Logout, TokensTypeOK
  <2>2. UNCHANGED <<made, owner, born, late, pc, tok, seen>>
      BY <1>8 DEF Logout, requests
  <2> QED BY <2>1, <2>2 DEF SessionInv, LogoutEndsSessions, Refreshing
<1>9. CASE Restart
    BY <1>9 DEF Restart, SessionInv, LogoutEndsSessions, Refreshing, table, history
<1>10. CASE UNCHANGED tokenVars
    BY <1>10 DEF tokenVars, table, requests, history, SessionInv, LogoutEndsSessions,
                 Refreshing
<1> QED BY <1>1, <1>2, <1>3, <1>4, <1>5, <1>6, <1>7, <1>8, <1>9, <1>10 DEF TokensNext

\* After RevokeAllUserRefreshTokensAsync a user's good tokens come from later
\* logins, or from a refresh that was under way.
THEOREM LogoutHolds == TokensSpec => []LogoutEndsSessions
<1>1. TokensInit => SessionInv
    BY DEF TokensInit, SessionInv, LogoutEndsSessions, Refreshing
<1>2. SessionInv => LogoutEndsSessions
    BY DEF SessionInv
<1> QED BY <1>1, <1>2, TypeCorrect, StepSession, PTL DEF TokensSpec

-----------------------------------------------------------------------------
(* The server's part is one of RefreshTokens.                              *)

\* The rows and requests of the server change as RefreshTokens says.
LEMMA ServerImplements == TokensTypeOK /\ store \in 0..made /\ [ANext]_allVars
                             => [TokensNext]_tokenVars
<1> SUFFICES ASSUME TokensTypeOK, store \in 0..made, [ANext]_allVars
             PROVE  [TokensNext]_tokenVars
    OBVIOUS
<1>1. CASE ServerLogin \/ ServerLoginCreates
    BY <1>1, TabsAssumption DEF ServerLogin, ServerLoginCreates, TokensNext
<1>2. CASE LoginAnswered
    BY <1>2 DEF LoginAnswered
<1>3. CASE SignOut
  <2>1. store # 0 => owner[store] \in Users
      BY DEF TokensTypeOK
  <2> QED BY <1>3, <2>1 DEF SignOut, TokensNext
<1>4. ASSUME NEW t \in Tabs, ServerStep(t) \/ AnswerStep(t)
      PROVE  [TokensNext]_tokenVars
  <2>1. t \in Requests
      BY TabsAssumption
  <2>2. CASE ServerValidates(t)
    <3>1. given[t] \in Ids /\ Validate(t, given[t])
        BY <2>2, TokensBoundsAssumption
        DEF ServerValidates, Validate, Valid, TokensTypeOK, Ids
    <3> QED BY <2>1, <3>1 DEF TokensNext
  <2>3. CASE ServerRefuses(t) \/ RefreshSucceeds(t) \/ RefreshFails(t)
      BY <2>3 DEF ServerRefuses, RefreshSucceeds, RefreshFails
  <2>4. CASE ServerRevokes(t) \/ ServerCreates(t)
      BY <2>1, <2>4 DEF ServerRevokes, ServerCreates, TokensNext
  <2> QED BY <1>4, <2>2, <2>3, <2>4 DEF ServerStep, AnswerStep
<1>5. ASSUME NEW q \in Calls, Send(q) \/ CallAnswered(q)
      PROVE  UNCHANGED tokenVars
    BY <1>5 DEF Send, CallAnswered, CallSucceeds, NoTokens, Lead, Wait, ResentFails
<1>6. ASSUME NEW r \in Requests, ServerFails(r) \/ AnswerLost(r)
      PROVE  [TokensNext]_tokenVars
    BY <1>6 DEF ServerFails, AnswerLost, TokensNext
<1>7. ASSUME NEW i \in Ids, RowExpires(i) \/ AccessExpires(i)
      PROVE  [TokensNext]_tokenVars
    BY <1>7 DEF RowExpires, AccessExpires, TokensNext
<1>8. CASE UNCHANGED allVars
    BY <1>8 DEF allVars
<1> QED BY <1>1, <1>2, <1>3, <1>4, <1>5, <1>6, <1>7, <1>8 DEF ANext

-----------------------------------------------------------------------------
(* One refresh per tab.                                                    *)

\* Tabs refresh the pair they have sent, and the login form signs in; an answer
\* on its way is that of a request which is over, and it is an error or a pair
\* that has been made.
RolesOK ==
    /\ \A t \in Tabs : /\ pc[t] \in {"idle", "validated", "revokedOld"}
                       /\ pc[t] # "idle" => tok[t] = given[t]
    /\ pc[LoginForm] \in {"idle", "login"}
    /\ \A r \in Requests : /\ answer[r] # 0 => pc[r] = "idle"
                           /\ answer[r] \in 0..made \cup {Refused}

Leads(q, t) == TabOf[q] = t /\ phase[q] = "leading"

\* SingleFlight, without sets of calls.
FlightsOK ==
    \A t \in Tabs :
       /\ exchanging[t] => isRefreshing[t]
       /\ isRefreshing[t] <=> given[t] # 0
       /\ isRefreshing[t] => \E q \in Calls : Leads(q, t)
       /\ \A q \in Calls : Leads(q, t) => isRefreshing[t]
       /\ \A p, q \in Calls : Leads(p, t) /\ Leads(q, t) => p = q
       /\ ~isRefreshing[t] => Quiet(t)

AuthInv == ATypeOK /\ RolesOK /\ FlightsOK

-----------------------------------------------------------------------------
(* The session survives.                                                   *)

\* While nothing has gone wrong: a pair is with one tab, on one way or in the
\* store, and the pair in the store is good or is being exchanged.
SoundOK ==
    ~troubled =>
       /\ expired = {}
       /\ \A s, t \in Tabs : s # t /\ given[s] = given[t] => given[s] = 0
       /\ \A t \in Tabs : given[t] \in revoked => ~Quiet(t)
       /\ store \in revoked => \E t \in Tabs : given[t] = store
       /\ \A r \in Requests : answer[r] # 0 =>
             /\ answer[r] \notin revoked \cup {Refused, store}
             /\ \A t \in Tabs : given[t] # answer[r]
             /\ \A s \in Requests \ {r} : answer[s] # answer[r]

SessionOK == AuthInv /\ SoundOK

USE TabsAssumption

\* An error is none of the pairs.
LEMMA RefusedIsNoPair ==
    TokensTypeOK => /\ Refused \in Nat \ {0} /\ Refused \notin 0..made
                    /\ 0 \in 0..made /\ 0 \in 0..Refused
                    /\ Ids = (1..Refused) \ {Refused}
BY TokensBoundsAssumption DEF TokensTypeOK, Refused, Ids

\* The server goes on with request r of a tab, or of the login form, and revokes
\* no more than the pair that the tab has sent.
LEMMA WorkGoesOn ==
    ASSUME SessionOK, TokensTypeOK', NEW r \in Requests,
           UNCHANGED <<clientVars, made, expired>>,
           answer[r] = 0, pc'[r] # "idle",
           r \in Tabs => /\ given[r] # 0 /\ tok'[r] = given[r]
                         /\ pc'[r] \in {"validated", "revokedOld"}
           /\ revoked' \in {revoked, revoked \cup {given[r]}},
           r = LoginForm => pc'[r] = "login" /\ revoked' = revoked,
           \A s \in Requests \ {r} : pc'[s] = pc[s] /\ tok'[s] = tok[s]
    PROVE  SessionOK'
<1> USE DEF SessionOK, AuthInv, clientVars, browser
<1>1. ATypeOK'
    BY DEF ATypeOK
<1>2. RolesOK'
    BY DEF RolesOK
<1>3. FlightsOK'
    BY DEF FlightsOK, Leads, Quiet
<1>4. SoundOK'
    BY DEF SoundOK, Quiet, ATypeOK
<1> QED BY <1>1, <1>2, <1>3, <1>4

\* The server's request r is over: with a new pair, or with an error that only
\* trouble can have caused.
LEMMA RequestEnds ==
    ASSUME SessionOK, TokensTypeOK', NEW r \in Requests, NEW a,
           UNCHANGED <<browser, stale, revoked, expired>>,
           answer' = [answer EXCEPT ![r] = a], pc'[r] = "idle",
           r \in Tabs => given[r] # 0,
           \A s \in Requests \ {r} : pc'[s] = pc[s] /\ tok'[s] = tok[s],
           \/ a = made' /\ made' = made + 1 /\ troubled' = troubled
           \/ a = Refused /\ made' = made /\ troubled' = TRUE
    PROVE  SessionOK'
<1> USE DEF SessionOK, AuthInv, browser
<1>0. /\ made \in Nat /\ made <= made' /\ made' <= MaxTokens
      /\ Refused \notin 0..made' /\ Refused # 0
      /\ a \in 0..made' \cup {Refused} /\ a # 0
      /\ revoked \subseteq 1..made /\ answer \in [Requests -> 0..Refused]
    BY TokensBoundsAssumption DEF ATypeOK, TokensTypeOK, Refused
<1>1. ATypeOK'
  <2>1. 0..made \subseteq 0..made' /\ 1..made \subseteq 1..made' /\ a \in 0..Refused
      BY <1>0, TokensBoundsAssumption DEF TokensTypeOK, Refused
  <2>2. /\ store' \in 0..made' /\ stale' \subseteq 1..made'
        /\ answer' \in [Requests -> 0..Refused] /\ given' \in [Tabs -> 0..made']
        /\ with' \in [Calls -> 0..made'] /\ troubled' \in BOOLEAN
      BY <2>1 DEF ATypeOK
  <2> QED BY <2>2 DEF ATypeOK
<1>2. RolesOK'
    BY <1>0 DEF RolesOK
<1>3. FlightsOK'
    BY <1>0 DEF FlightsOK, Leads, Quiet
<1>4. SoundOK'
  <2> SUFFICES ASSUME ~troubled'
               PROVE  SoundOK'
      BY DEF SoundOK
  <2>1. a = made + 1 /\ made' = made + 1 /\ ~troubled
      OBVIOUS
  <2>2. \A s \in Requests : answer[s] # a
      BY <1>0, <2>1 DEF RolesOK
  <2>3. store # a /\ a \notin revoked /\ \A t \in Tabs : given[t] # a
      BY <1>0, <2>1 DEF ATypeOK
  <2> QED BY <1>0, <2>1, <2>2, <2>3 DEF SoundOK, Quiet
<1> QED BY <1>1, <1>2, <1>3, <1>4

\* The requests that the server works on.
LEMMA ServerSteps ==
    ASSUME SessionOK, TokensTypeOK',
           \/ ServerLogin \/ ServerLoginCreates
           \/ \E t \in Tabs : ServerStep(t)
           \/ \E r \in Requests : ServerFails(r) \/ AnswerLost(r)
    PROVE  SessionOK'
<1> USE DEF SessionOK, AuthInv
<1>0. TokensTypeOK /\ RolesOK /\ FlightsOK /\ SoundOK
    BY DEF ATypeOK
<1>1. CASE ServerLogin
  <2>1. PICK u \in Users : Login(LoginForm, u)
      BY <1>1 DEF ServerLogin
  <2> QED BY <1>0, <1>1, <2>1, WorkGoesOn
          DEF ServerLogin, Login, Quiet, TokensTypeOK, table
<1>2. CASE ServerLoginCreates
    BY <1>0, <1>2, RequestEnds
    DEF ServerLoginCreates, LoginCreates, Insert, Ends, TokensTypeOK
<1>3. ASSUME NEW t \in Tabs, ServerValidates(t)
      PROVE  SessionOK'
    BY <1>0, <1>3, WorkGoesOn
    DEF ServerValidates, Validate, Quiet, TokensTypeOK, table
<1>4. ASSUME NEW t \in Tabs, ServerRefuses(t)
      PROVE  SessionOK'
  <2>1. troubled
      BY <1>0, <1>4 DEF ServerRefuses, Valid, SoundOK, ATypeOK
  <2>2. troubled' = TRUE
      BY <2>1, <1>4 DEF ServerRefuses, ATypeOK
  <2> QED BY <1>0, <1>4, <2>2, RequestEnds
          DEF ServerRefuses, Quiet, tokenVars, table, requests
<1>5. ASSUME NEW t \in Tabs, ServerRevokes(t)
      PROVE  SessionOK'
  <2>1. given[t] # 0 /\ answer[t] = 0 /\ tok[t] = given[t]
      BY <1>0, <1>5 DEF ServerRevokes, RevokeOld, RolesOK, FlightsOK, Quiet
  <2> QED BY <1>0, <1>5, <2>1, WorkGoesOn
          DEF ServerRevokes, RevokeOld, TokensTypeOK
<1>6. ASSUME NEW t \in Tabs, ServerCreates(t)
      PROVE  SessionOK'
    BY <1>0, <1>6, RequestEnds
    DEF ServerCreates, CreateNew, Insert, Ends, TokensTypeOK, FlightsOK, Quiet
<1>7. ASSUME NEW r \in Requests, ServerFails(r)
      PROVE  SessionOK'
    BY <1>0, <1>7, RequestEnds
    DEF ServerFails, Fails, Ends, table, TokensTypeOK, FlightsOK, Quiet
<1>8. ASSUME NEW r \in Requests, AnswerLost(r)
      PROVE  SessionOK'
  <2>1. answer[r] # 0 /\ pc[r] = "idle"
      BY <1>0, <1>8 DEF AnswerLost, Ids, RolesOK
  <2>2. r \in Tabs => given[r] # 0
      BY <1>0, <2>1 DEF FlightsOK, Quiet
  <2>3. UNCHANGED <<browser, stale, revoked, expired, made, pc, tok>>
      BY <1>8 DEF AnswerLost, tokenVars, table, requests
  <2> QED BY <1>8, <2>1, <2>2, <2>3, RequestEnds DEF AnswerLost
<1> QED BY <1>1, <1>2, <1>3, <1>4, <1>5, <1>6, <1>7, <1>8 DEF ServerStep

\* The browser stores a pair that nobody else has.
LEMMA LoginAnsweredStep ==
    ASSUME SessionOK, TokensTypeOK', LoginAnswered
    PROVE  SessionOK'
<1> USE DEF SessionOK, AuthInv, LoginAnswered
<1>0. /\ UNCHANGED <<made, revoked, expired, pc, tok>>
      /\ LoginForm \in Requests /\ LoginForm \notin Tabs
      /\ answer \in [Requests -> 0..Refused]
      /\ answer[LoginForm] \in 0..made \cup {Refused}
      /\ 0 \in 0..made /\ 0 \in 0..Refused /\ Refused \notin 0..made
    BY RefusedIsNoPair DEF tokenVars, table, requests, ATypeOK, RolesOK
<1>1. /\ UNCHANGED <<made, revoked, expired, pc, tok>>
      /\ LoginForm \in Requests /\ LoginForm \notin Tabs
      /\ answer \in [Requests -> 0..Refused] /\ answer' \in [Requests -> 0..Refused]
      /\ store' \in 0..made
    BY <1>0 DEF ATypeOK
<1>2. ATypeOK'
    BY <1>1 DEF ATypeOK
<1>3. RolesOK'
  <2>1. \A r \in Requests : answer'[r] = IF r = LoginForm THEN 0 ELSE answer[r]
      BY <1>0
  <2> QED BY <1>0, <2>1 DEF RolesOK
<1>4. FlightsOK'
    BY <1>1 DEF FlightsOK, Leads, Quiet
<1>5. SoundOK'
    BY <1>1 DEF SoundOK, Quiet
<1> QED BY <1>2, <1>3, <1>4, <1>5

\* logout() sends no token, so that no row is revoked.
LEMMA SignOutStep ==
    ASSUME SessionOK, TokensTypeOK', SignOut
    PROVE  SessionOK'
<1> USE DEF SessionOK, AuthInv
<1>1. /\ UNCHANGED <<tokenVars, stale, answer, isRefreshing, exchanging, given, phase,
                     with, troubled>>
      /\ store' = 0
    BY DEF SignOut, Attaches
<1>2. UNCHANGED <<made, revoked, expired, pc, tok>>
    BY <1>1 DEF tokenVars, table, requests
<1>3. ATypeOK'
    BY <1>1, <1>2 DEF ATypeOK, TokensTypeOK
<1>4. RolesOK'
    BY <1>1, <1>2 DEF RolesOK
<1>5. FlightsOK'
    BY <1>1, <1>2 DEF FlightsOK, Leads, Quiet
<1>6. SoundOK'
    BY <1>1, <1>2 DEF SoundOK, Quiet, ATypeOK, TokensTypeOK
<1> QED BY <1>3, <1>4, <1>5, <1>6

\* The answer of a refresh is there: the tab is free again.
LEMMA AnswerSteps ==
    ASSUME SessionOK, TokensTypeOK', NEW t \in Tabs, AnswerStep(t)
    PROVE  SessionOK'
<1> USE DEF SessionOK, AuthInv
<1>0. /\ answer[t] # 0 /\ t \in Requests /\ Settle(t)
      /\ UNCHANGED <<tokenVars, stale, troubled>>
  <2>1. Refused # 0 /\ 0 \notin Ids
      BY RefusedIsNoPair DEF ATypeOK, Ids
  <2> QED BY <2>1 DEF AnswerStep, RefreshSucceeds, RefreshFails
<1>1. /\ UNCHANGED <<made, revoked, expired, pc, tok, stale, troubled>>
      /\ isRefreshing' = [isRefreshing EXCEPT ![t] = FALSE]
      /\ exchanging' = [exchanging EXCEPT ![t] = FALSE]
      /\ given' = [given EXCEPT ![t] = 0]
      /\ answer' = [answer EXCEPT ![t] = 0]
      /\ answer[t] # 0 /\ t \in Requests /\ pc[t] = "idle"
    BY <1>0 DEF Settle, tokenVars, table, requests, RolesOK
<1>2. /\ store' \in {0, answer[t]} /\ store' \in 0..made
      /\ answer[t] = Refused => store' = 0
  <2>1. /\ answer[t] \in 0..made \cup {Refused}
        /\ 0 \in 0..made /\ Refused \notin Ids
      BY <1>1, RefusedIsNoPair DEF RolesOK, ATypeOK
  <2> QED BY <2>1 DEF AnswerStep, RefreshSucceeds, RefreshFails
<1>3. phase' \in [Calls -> Phases] /\ with' \in [Calls -> 0..made]
  <2>1. CASE RefreshSucceeds(t)
      BY <1>2, <2>1 DEF RefreshSucceeds, ATypeOK, Phases
  <2>2. CASE RefreshFails(t)
      BY <2>2 DEF RefreshFails, ATypeOK, Phases
  <2> QED BY <2>1, <2>2 DEF AnswerStep
<1>4. \A q \in Calls : phase'[q] = "leading" <=> phase[q] = "leading" /\ TabOf[q] # t
  <2>1. CASE RefreshSucceeds(t)
      BY <2>1 DEF RefreshSucceeds, InTab
  <2>2. CASE RefreshFails(t)
      BY <2>2 DEF RefreshFails, InTab
  <2> QED BY <2>1, <2>2 DEF AnswerStep
<1>5. ATypeOK'
  <2>1. /\ answer' \in [Requests -> 0..Refused] /\ given' \in [Tabs -> 0..made]
        /\ isRefreshing' \in [Tabs -> BOOLEAN] /\ exchanging' \in [Tabs -> BOOLEAN]
      BY <1>1, RefusedIsNoPair DEF ATypeOK
  <2> QED BY <1>1, <1>2, <1>3, <2>1 DEF ATypeOK
<1>6. RolesOK'
  <2>1. /\ \A r \in Requests : answer'[r] = IF r = t THEN 0 ELSE answer[r]
        /\ \A s \in Tabs : given'[s] = IF s = t THEN 0 ELSE given[s]
        /\ 0 \in 0..made
      BY <1>1, RefusedIsNoPair DEF ATypeOK
  <2> QED BY <1>1, <2>1 DEF RolesOK
<1>7. FlightsOK'
    BY <1>1, <1>4 DEF FlightsOK, Leads, Quiet, ATypeOK
<1>8. SoundOK'
    BY <1>1, <1>2 DEF SoundOK, Quiet, ATypeOK, TokensTypeOK
<1> QED BY <1>5, <1>6, <1>7, <1>8

\* A call goes on without a refresh.
LEMMA CallMoves ==
    ASSUME SessionOK, TokensTypeOK', NEW q \in Calls, 
           Send(q) \/ CallSucceeds(q) \/ NoTokens(q) \/ Wait(q) \/ ResentFails(q)
    PROVE  SessionOK'
<1> USE DEF SessionOK, AuthInv
<1>1. /\ UNCHANGED <<made, revoked, expired, pc, tok, store, stale, answer,
                     isRefreshing, given, troubled>>
      /\ exchanging' \in {exchanging, [exchanging EXCEPT ![TabOf[q]] = FALSE]}
      /\ phase[q] # "leading"
      /\ \E to \in Phases \ {"leading"} : phase' = [phase EXCEPT ![q] = to]
      /\ with' \in [Calls -> 0..made]
    BY DEF Send, CallSucceeds, NoTokens, Wait, ResentFails, Answered, tokenVars, table,
       requests, Phases, ATypeOK, TokensTypeOK
<1>2. ATypeOK'
  <2>1. exchanging' \in [Tabs -> BOOLEAN]
      BY <1>1 DEF ATypeOK
  <2>2. phase' \in [Calls -> Phases]
      BY <1>1 DEF ATypeOK
  <2> QED BY <1>1, <2>1, <2>2 DEF ATypeOK
<1>3. RolesOK'
    BY <1>1 DEF RolesOK
<1>4. FlightsOK'
    BY <1>1 DEF FlightsOK, Leads, Quiet, ATypeOK
<1>5. SoundOK'
    BY <1>1 DEF SoundOK, Quiet
<1> QED BY <1>2, <1>3, <1>4, <1>5

\* The first call that meets a 401 starts the refresh of its tab.
LEMMA LeadStep ==
    ASSUME SessionOK, TokensTypeOK', NEW q \in Calls, Lead(q)
    PROVE  SessionOK'
<1> USE DEF SessionOK, AuthInv
<1> DEFINE t == TabOf[q]
<1>1. /\ UNCHANGED <<made, revoked, expired, pc, tok, store, stale, answer>>
      /\ t \in Tabs /\ ~isRefreshing[t] /\ store # 0
      /\ isRefreshing' = [isRefreshing EXCEPT ![t] = TRUE]
      /\ exchanging' = [exchanging EXCEPT ![t] = TRUE]
      /\ given' = [given EXCEPT ![t] = store]
      /\ phase' = [phase EXCEPT ![q] = "leading"]
      /\ with' = [with EXCEPT ![q] = 0]
      /\ troubled' = (troubled \/ Contended(t))
    BY DEF Lead, Answered, tokenVars, table, requests
<1>2. given[t] = 0 /\ Quiet(t) /\ \A p \in Calls : ~Leads(p, t)
    BY <1>1 DEF FlightsOK
<1> HIDE DEF t
<1>3. ATypeOK'
    BY <1>1 DEF ATypeOK, TokensTypeOK, Phases
<1>4. RolesOK'
    BY <1>1, <1>2 DEF RolesOK, ATypeOK, Quiet
<1>5. FlightsOK'
  <2>1. \A p \in Calls, s \in Tabs : Leads(p, s)' <=> \/ p = q /\ s = t
                                                      \/ s # t /\ Leads(p, s)
      BY <1>1, <1>2 DEF Leads, ATypeOK, t
  <2> QED BY <1>1, <1>2, <2>1 DEF FlightsOK, Quiet, ATypeOK
<1>6. SoundOK'
    BY <1>1, <1>2 DEF SoundOK, Quiet, Contended, ATypeOK
<1> QED BY <1>3, <1>4, <1>5, <1>6

\* Tokens expire.
LEMMA TimeStep ==
    ASSUME SessionOK, TokensTypeOK', NEW i \in Ids, RowExpires(i) \/ AccessExpires(i)
    PROVE  SessionOK'
<1> USE DEF SessionOK, AuthInv, browser
<1>1. /\ UNCHANGED <<browser, answer, made, revoked, pc, tok>>
      /\ stale' \in {stale, stale \cup {i}} /\ i \in 1..made
      /\ troubled' = TRUE \/ UNCHANGED <<troubled, expired>>
    BY DEF RowExpires, AccessExpires, Expires, requests, tokenVars, table
<1>2. ATypeOK'
  <2>1. stale' \subseteq 1..made /\ troubled' \in BOOLEAN
      BY <1>1 DEF ATypeOK
  <2> QED BY <1>1, <2>1 DEF ATypeOK
<1>3. RolesOK'
    BY <1>1 DEF RolesOK
<1>4. FlightsOK'
    BY <1>1 DEF FlightsOK, Leads, Quiet
<1>5. SoundOK'
  <2>1. CASE troubled' = TRUE
      BY <2>1 DEF SoundOK
  <2>2. CASE UNCHANGED <<troubled, expired>>
      BY <1>1, <2>2 DEF SoundOK, Quiet
  <2> QED BY <1>1, <2>1, <2>2
<1> QED BY <1>2, <1>3, <1>4, <1>5

\* SessionOK is inductive.
LEMMA SessionStep == SessionOK /\ [ANext]_allVars => SessionOK'
<1> SUFFICES ASSUME SessionOK, [ANext]_allVars
             PROVE  SessionOK'
    OBVIOUS
<1>1. TokensTypeOK /\ store \in 0..made
    BY DEF SessionOK, AuthInv, ATypeOK
<1>2. TokensTypeOK'
    BY <1>1, ServerImplements, StepType
<1>3. CASE ServerLogin \/ ServerLoginCreates
    BY <1>2, <1>3, ServerSteps
<1>4. CASE LoginAnswered
    BY <1>2, <1>4, LoginAnsweredStep
<1>5. CASE SignOut
    BY <1>2, <1>5, SignOutStep
<1>6. ASSUME NEW t \in Tabs, ServerStep(t)
      PROVE  SessionOK'
    BY <1>2, <1>6, ServerSteps
<1>7. ASSUME NEW t \in Tabs, AnswerStep(t)
      PROVE  SessionOK'
    BY <1>2, <1>7, AnswerSteps
<1>8. ASSUME NEW q \in Calls, Send(q) \/ CallAnswered(q)
      PROVE  SessionOK'
  <2>1. CASE Lead(q)
      BY <1>2, <2>1, LeadStep
  <2>2. CASE Send(q) \/ CallSucceeds(q) \/ NoTokens(q) \/ Wait(q) \/ ResentFails(q)
      BY <1>2, <2>2, CallMoves
  <2> QED BY <1>8, <2>1, <2>2 DEF CallAnswered
<1>9. ASSUME NEW r \in Requests, ServerFails(r) \/ AnswerLost(r)
      PROVE  SessionOK'
    BY <1>2, <1>9, ServerSteps
<1>10. ASSUME NEW i \in Ids, RowExpires(i) \/ AccessExpires(i)
       PROVE  SessionOK'
    BY <1>2, <1>10, TimeStep
<1>11. CASE UNCHANGED allVars
    BY <1>2, <1>11 DEF SessionOK, AuthInv, SoundOK, ATypeOK, RolesOK, FlightsOK, Leads,
       Quiet, allVars, clientVars, browser, tokenVars, table, requests
<1> QED BY <1>3, <1>4, <1>5, <1>6, <1>7, <1>8, <1>9, <1>10, <1>11 DEF ANext

LEMMA SessionStart == AInit => SessionOK
<1> SUFFICES ASSUME AInit PROVE SessionOK
    OBVIOUS
<1>1. TokensTypeOK /\ Refused \in Nat /\ 0 \in 0..made /\ 0 \in 0..Refused
    BY InitType, RefusedIsNoPair DEF AInit
<1>2. made = 0 /\ revoked = {} /\ expired = {} /\ pc = [r \in Requests |-> "idle"]
    BY DEF AInit, TokensInit
<1>3. ATypeOK
    BY <1>1 DEF AInit, ATypeOK, Phases
<1>4. RolesOK
    BY <1>1, <1>2 DEF AInit, RolesOK
<1>5. FlightsOK
    BY <1>2 DEF AInit, FlightsOK, Leads, Quiet
<1>6. SoundOK
    BY <1>2 DEF AInit, SoundOK, Quiet
<1> QED BY <1>3, <1>4, <1>5, <1>6 DEF SessionOK, AuthInv

LEMMA SessionInvariant == ASpec => []SessionOK
BY SessionStart, SessionStep, PTL DEF ASpec

-----------------------------------------------------------------------------
(* What the tabs and the server can count on.                              *)

\* Every variable of the browser and of the server has its type: the store, the
\* refreshes and the calls bear pairs that the server has made.
THEOREM AuthTypes == ASpec => []ATypeOK
<1>1. SessionOK => ATypeOK
    BY DEF SessionOK, AuthInv
<1> QED BY <1>1, SessionInvariant, PTL

\* JwtInterceptor and AuthService: a tab has at most one refresh under way, led
\* by one call, and AuthService's own queue is never entered.
THEOREM OneRefreshPerTab == ASpec => []SingleFlight
<1>1. SessionOK => SingleFlight
  <2> SUFFICES ASSUME SessionOK, NEW t \in Tabs
               PROVE  /\ exchanging[t] => isRefreshing[t]
                      /\ isRefreshing[t] <=> given[t] # 0
                      /\ isRefreshing[t] <=> \E q \in InTab(t, {"leading"}) :
                                                InTab(t, {"leading"}) = {q}
                      /\ ~isRefreshing[t] => Quiet(t)
      BY DEF SingleFlight
  <2>1. \A q : q \in InTab(t, {"leading"}) <=> q \in Calls /\ Leads(q, t)
      BY DEF InTab, Leads
  <2>2. ASSUME isRefreshing[t]
        PROVE  \E q \in InTab(t, {"leading"}) : InTab(t, {"leading"}) = {q}
    <3>1. PICK q \in Calls : Leads(q, t)
        BY <2>2 DEF SessionOK, AuthInv, FlightsOK
    <3>2. InTab(t, {"leading"}) = {q}
        BY <2>1, <3>1 DEF SessionOK, AuthInv, FlightsOK
    <3> QED BY <3>2
  <2>3. ASSUME NEW q \in InTab(t, {"leading"})
        PROVE  isRefreshing[t]
      BY <2>1, <2>3 DEF SessionOK, AuthInv, FlightsOK
  <2> QED BY <2>2, <2>3 DEF SessionOK, AuthInv, FlightsOK
<1> QED BY <1>1, SessionInvariant, PTL

\* refreshToken() and /api/auth/refresh: a refresh is refused, and the tokens are
\* cleared, only after a failure, at the end of a row's life or when two tabs
\* refresh the same pair.
THEOREM SessionsSurvive == ASpec => SessionSurvives
<1>1. SessionOK => ((\E t \in Tabs : RefreshFails(t)) /\ store # 0 => troubled)
  <2> SUFFICES ASSUME SessionOK, NEW t \in Tabs, answer[t] = Refused
               PROVE  troubled
      BY DEF RefreshFails
  <2>1. t \in Requests /\ answer[t] # 0
      BY RefusedIsNoPair DEF SessionOK, AuthInv, ATypeOK
  <2> QED BY <2>1 DEF SessionOK, SoundOK
<1> QED BY <1>1, SessionInvariant, PTL DEF SessionSurvives

\* The browser and the server together do to the rows only what the endpoints of
\* RefreshTokens do.
THEOREM ClientImplementsTokens == ASpec => TokensSpec
<1>1. AInit => TokensInit
    BY DEF AInit
<1>2. SessionOK /\ [ANext]_allVars => [TokensNext]_tokenVars
    BY ServerImplements DEF SessionOK, AuthInv, ATypeOK
<1> QED BY <1>1, <1>2, SessionInvariant, PTL DEF ASpec, TokensSpec

\* So what the server keeps alone, it keeps with any number of tabs before it:
\* a pair is exchanged once, and a logout leaves no session of its user.
COROLLARY TabsKeepTheTokens == ASpec => [](ExchangedOnce /\ LogoutEndsSessions)
BY ClientImplementsTokens, ExchangedOnceHolds, LogoutHolds, PTL
=============================================================================
