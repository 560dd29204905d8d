------------------------- MODULE DatabaseStartProofs -------------------------
(* What every start of the database leaves behind, for any set of users.    *)
EXTENDS DatabaseStart, TLAPS

\* How far the keys have been brought to lower case at a stage.  A start that
\* was cut short has brought some of them there: nothing is claimed of "down".
KeysDone ==
    /\ stage \in {"tokens", "prefs", "seeding", "serving"} => userRows = Lower(userRows)
    /\ stage \in {"prefs", "seeding", "serving"} => tokenRows = Lower(tokenRows)
    /\ stage \in {"seeding", "serving"} => prefRows = Lower(prefRows)

\* Whatever its case, a token or preference belongs to a user.
Owned ==
    /\ Lower(tokenRows) \subseteq Lower(userRows)
    /\ Lower(prefRows) \subseteq Lower(userRows)

\* The table has a user, or the start that made it will insert one.
Seeded ==
    /\ stage = "down" /\ "User" \in tables => userRows # {} \/ broken
    /\ stage # "down" /\ userTableExisted => userRows # {} \/ broken
    /\ stage = "serving" => userRows # {} \/ broken

StartInv == StartTypeOK /\ KeysDone /\ Owned /\ Seeded

-----------------------------------------------------------------------------
\* The UPDATE statements: running one again changes nothing, it keeps every
\* user, and rows that are there stay there.
LEMMA LowerFacts ==
    ASSUME NEW A \in SUBSET Keys, NEW B \in SUBSET Keys
    PROVE  /\ Lower(A) \in SUBSET Keys
           /\ Lower(Lower(A)) = Lower(A)
           /\ A # {} => Lower(A) # {}
           /\ A \subseteq B => Lower(A) \subseteq Lower(B)
           /\ Lower(A \cup B) = Lower(A) \cup Lower(B)
<1>1. \A k \in A \cup B : k[1] \in Users \cup {Admin}
  BY DEF Keys
<1>2. Lower(A) \in SUBSET Keys
  BY <1>1 DEF Lower, Keys
<1>3. Lower(Lower(A)) = Lower(A)
  BY DEF Lower
<1>4. A # {} => Lower(A) # {}
  BY DEF Lower
<1>5. A \subseteq B => Lower(A) \subseteq Lower(B)
  BY DEF Lower
<1>6. Lower(A \cup B) = Lower(A) \cup Lower(B)
  BY DEF Lower
<1> QED
  BY <1>2, <1>3, <1>4, <1>5, <1>6

\* A row that the server adds for a user whose key is in lower case.
LEMMA AddedRow ==
    ASSUME NEW U \in SUBSET Keys, NEW A \in SUBSET Keys, NEW k \in U,
           U = Lower(U), A = Lower(A), Lower(A) \subseteq Lower(U)
    PROVE  /\ A \cup {<<k[1], "lower">>} \in SUBSET Keys
           /\ A \cup {<<k[1], "lower">>} = Lower(A \cup {<<k[1], "lower">>})
           /\ Lower(A \cup {<<k[1], "lower">>}) \subseteq Lower(U)
<1> DEFINE new == {<<k[1], "lower">>}
<1>1. <<k[1], "lower">> \in U
  BY DEF Lower
<1>2. new \in SUBSET Keys /\ new \subseteq U
  BY <1>1
<1>3. Lower(new) = new
  BY DEF Lower
<1>4. Lower(A \cup new) = A \cup new
  BY <1>2, <1>3, LowerFacts
<1> QED
  BY <1>2, <1>4

LEMMA InitStartInv == StartInit => StartInv
<1> SUFFICES ASSUME StartInit PROVE StartInv
  OBVIOUS
<1>1. CASE tables = {} /\ userRows = {} /\ tokenRows = {} /\ prefRows = {}
  BY <1>1 DEF StartInit, StartInv, StartTypeOK, KeysDone, Owned, Seeded, Stages, Lower
<1>2. CASE /\ tables \in {TableNames, {"User", "RefreshToken"}}
           /\ \E us \in SUBSET Users, case \in {"upper", "lower"} :
                 us # {} /\ userRows = us \X {case}
           /\ tokenRows \in SUBSET userRows
           /\ prefRows \in SUBSET userRows
  <2>1. PICK us \in SUBSET Users, case \in {"upper", "lower"} :
           us # {} /\ userRows = us \X {case}
    BY <1>2
  <2>2. userRows \in SUBSET Keys /\ userRows # {}
    <3>1. \A k \in us \X {case} : k \in Keys
      BY DEF Keys
    <3>2. \A u \in us : <<u, case>> \in userRows
      BY <2>1
    <3> QED
      BY <2>1, <3>1, <3>2
  <2>3. tokenRows \in SUBSET Keys /\ prefRows \in SUBSET Keys
    BY <1>2, <2>2
  <2>4. "User" \in TableNames /\ "RefreshToken" \in TableNames
    BY DEF TableNames, Tables
  <2>5. Owned
    BY <1>2, <2>2, <2>3, LowerFacts DEF Owned
  <2> QED
    BY <1>2, <2>2, <2>3, <2>4, <2>5
    DEF StartInit, StartInv, StartTypeOK, KeysDone, Seeded, Stages
<1> QED
  BY <1>1, <1>2 DEF StartInit

LEMMA NextStartInv == StartInv /\ [StartNext]_startVars => StartInv'
<1> SUFFICES ASSUME StartInv, [StartNext]_startVars PROVE StartInv'
  OBVIOUS
<1> USE DEF StartInv, StartTypeOK, KeysDone, Owned, Seeded, Stages
<1>1. CASE Check
  BY <1>1 DEF Check, Goes, rows
<1>2. CASE CreateTable
  BY <1>2 DEF CreateTable, rows, TableNames
<1>3. CASE TablesDone
  BY <1>3 DEF TablesDone, Goes, rows
<1>4. CASE NormalizeUsers
  <2>1. Lower(userRows) \in SUBSET Keys /\ Lower(Lower(userRows)) = Lower(userRows)
    BY LowerFacts
  <2>2. userRows # {} => Lower(userRows) # {}
    BY LowerFacts
  <2> QED
    BY <1>4, <2>1, <2>2 DEF NormalizeUsers, Goes
<1>5. CASE NormalizeTokens
  <2>1. Lower(tokenRows) \in SUBSET Keys /\ Lower(Lower(tokenRows)) = Lower(tokenRows)
    BY LowerFacts
  <2> QED
    BY <1>5, <2>1 DEF NormalizeTokens, Goes
<1>6. CASE NormalizePrefs
  <2>1. Lower(prefRows) \in SUBSET Keys /\ Lower(Lower(prefRows)) = Lower(prefRows)
    BY LowerFacts
  <2> QED
    BY <1>6, <2>1 DEF NormalizePrefs, Goes
<1>7. CASE Seed
  <2> DEFINE new == {<<Admin, "lower">>}
  <2>1. new \in SUBSET Keys /\ Lower(new) = new
    BY DEF Keys, Lower
  <2>2. Lower(userRows \cup new) = Lower(userRows) \cup new
    BY <2>1, LowerFacts
  <2> QED
    BY <1>7, <2>1, <2>2 DEF Seed, Goes
<1>8. CASE SignIn
  <2>1. PICK k \in userRows : tokenRows' = tokenRows \cup {<<k[1], "lower">>}
    BY <1>8 DEF SignIn
  <2>2. /\ userRows \in SUBSET Keys /\ userRows = Lower(userRows)
        /\ tokenRows \in SUBSET Keys /\ tokenRows = Lower(tokenRows)
        /\ Lower(tokenRows) \subseteq Lower(userRows)
    BY <1>8 DEF SignIn
  <2>3. /\ tokenRows' \in SUBSET Keys /\ tokenRows' = Lower(tokenRows')
        /\ Lower(tokenRows') \subseteq Lower(userRows)
    <3> HIDE DEF StartInv, StartTypeOK, KeysDone, Owned, Seeded, Stages
    <3> QED
      BY <2>1, <2>2, AddedRow
  <2> QED
    BY <1>8, <2>3 DEF SignIn
<1>9. CASE SavePreferences
  <2>1. PICK k \in userRows : prefRows' = prefRows \cup {<<k[1], "lower">>}
    BY <1>9 DEF SavePreferences
  <2>2. /\ userRows \in SUBSET Keys /\ userRows = Lower(userRows)
        /\ prefRows \in SUBSET Keys /\ prefRows = Lower(prefRows)
        /\ Lower(prefRows) \subseteq Lower(userRows)
    BY <1>9 DEF SavePreferences
  <2>3. /\ prefRows' \in SUBSET Keys /\ prefRows' = Lower(prefRows')
        /\ Lower(prefRows') \subseteq Lower(userRows)
    <3> HIDE DEF StartInv, StartTypeOK, KeysDone, Owned, Seeded, Stages
    <3> QED
      BY <2>1, <2>2, AddedRow
  <2> QED
    BY <1>9, <2>3 DEF SavePreferences
<1>10. CASE Ends
  BY <1>10 DEF Ends, rows
<1>11. CASE UNCHANGED startVars
  BY <1>11 DEF startVars, rows
<1> QED
  BY <1>1, <1>2, <1>3, <1>4, <1>5, <1>6, <1>7, <1>8, <1>9, <1>10, <1>11
  DEF StartNext

LEMMA StartInvariant == StartSpec => []StartInv
BY InitStartInv, NextStartInv, PTL DEF StartSpec

-----------------------------------------------------------------------------
\* When the server serves, CreateTable has left every user with the key that
\* the statements bind, and no token or preference without its user, however
\* many starts were cut short before.
THEOREM KeysAgreeAlways == StartSpec => []KeysAgree
<1>1. StartInv => KeysAgree
  BY DEF StartInv, KeysDone, Owned, KeysAgree
<1> QED
  BY <1>1, StartInvariant, PTL

\* The server never serves a database without users, unless the start that made
\* table User ended before CreateTable inserted the administrator.
THEOREM SomebodyCanSignInAlways == StartSpec => []SomebodyCanSignIn
<1>1. StartInv => SomebodyCanSignIn
  BY DEF StartInv, Seeded, SomebodyCanSignIn
<1> QED
  BY <1>1, StartInvariant, PTL
=============================================================================
