---------------------------- MODULE DatabaseStart ----------------------------
(***************************************************************************)
(* DatabaseInitializer.CreateTable, which runs before the server serves:   *)
(* it makes the tables, brings the ids that an older data layer stored in  *)
(* upper case to lower case and seeds the administrator.  Every statement  *)
(* commits by itself, and the process may end between any two of them.     *)
(***************************************************************************)
EXTENDS Naturals, Sequences

CONSTANTS
    Users,          \* the users of an older database
    Admin           \* the user that is seeded

ASSUME AdminAssumption == Admin \notin Users

\* In the order of the CREATE TABLE statements.
Tables == <<"User", "RefreshToken", "UserPreference", "SystemSetting">>
TableNames == {Tables[k] : k \in 1..Len(Tables)}

Keys == (Users \cup {Admin}) \X {"upper", "lower"}

VARIABLES
    tables,         \* the tables there are
    userRows,       \* the keys in table User
    tokenRows,      \* the UserIds in RefreshToken
    prefRows,       \* the UserIds in UserPreference
    stage,          \* how far the start is
    userTableExisted,
    broken          \* history: a first start ended before the administrator
                    \* was inserted

rows == <<userRows, tokenRows, prefRows>>
startVars == <<tables, rows, stage, userTableExisted, broken>>

Stages == {"down", "creating", "users", "tokens", "prefs", "seeding", "serving"}

Lower(keys) == {<<k[1], "lower">> : k \in keys}

\* A new database, or one of the older data layer or of this one.
StartInit ==
    /\ \/ tables = {} /\ userRows = {} /\ tokenRows = {} /\ prefRows = {}
       \/ /\ tables \in {TableNames, {"User", "RefreshToken"}}
          /\ \E us \in SUBSET Users, case \in {"upper", "lower"} :
                us # {} /\ userRows = us \X {case}
          /\ tokenRows \in SUBSET userRows
          /\ prefRows \in SUBSET userRows
          /\ "UserPreference" \notin tables => prefRows = {}
    /\ stage = "down"
    /\ userTableExisted = FALSE
    /\ broken = FALSE

Goes(from, to) == stage = from /\ stage' = to

-----------------------------------------------------------------------------
\* Variant: the table is looked for when it has just been made.
Check_Late ==
    /\ Goes("down", "creating")
    /\ userTableExisted' = TRUE
    /\ UNCHANGED <<tables, rows, broken>>

\* The look into sqlite_master.
Check ==
    /\ Goes("down", "creating")
    /\ userTableExisted' = ("User" \in tables)
    /\ UNCHANGED <<tables, rows, broken>>

\* CREATE TABLE IF NOT EXISTS: the first one that is not there.
CreateTable ==
    /\ stage = "creating"
    /\ \E k \in 1..Len(Tables) :
          /\ Tables[k] \notin tables
          /\ \A i \in 1..(k - 1) : Tables[i] \in tables
          /\ tables' = tables \cup {Tables[k]}
    /\ UNCHANGED <<rows, stage, userTableExisted, broken>>

TablesDone ==
    /\ TableNames \subseteq tables
    /\ Goes("creating", "users")
    /\ UNCHANGED <<tables, rows, userTableExisted, broken>>

\* Variant: nothing is done when no user's id is in upper case.
NormalizeUsers_IfNeeded ==
    /\ Goes("users", IF userRows = Lower(userRows) THEN "seeding" ELSE "tokens")
    /\ userRows' = Lower(userRows)
    /\ UNCHANGED <<tables, tokenRows, prefRows, userTableExisted, broken>>

\* UPDATE "User"; foreign keys are off, so that the tokens keep the old id.
NormalizeUsers ==
    /\ Goes("users", "tokens")
    /\ userRows' = Lower(userRows)
    /\ UNCHANGED <<tables, tokenRows, prefRows, userTableExisted, broken>>

\* UPDATE "RefreshToken".
NormalizeTokens ==
    /\ Goes("tokens", "prefs")
    /\ tokenRows' = Lower(tokenRows)
    /\ UNCHANGED <<tables, userRows, prefRows, userTableExisted, broken>>

\* UPDATE "UserPreference".
NormalizePrefs ==
    /\ Goes("prefs", "seeding")
    /\ prefRows' = Lower(prefRows)
    /\ UNCHANGED <<tables, userRows, tokenRows, userTableExisted, broken>>

\* The administrator, when the table had not been there before.
Seed ==
    /\ Goes("seeding", "serving")
    /\ userRows' = IF userTableExisted THEN userRows
                                       ELSE userRows \cup {<<Admin, "lower">>}
    /\ UNCHANGED <<tables, tokenRows, prefRows, userTableExisted, broken>>

-----------------------------------------------------------------------------
(* The server serves: every statement binds the id in lower case.          *)

\* POST /login inserts a token, which refers to the user's key.
SignIn ==
    /\ stage = "serving"
    /\ \E k \in userRows :
          /\ <<k[1], "lower">> \in userRows
          /\ tokenRows' = tokenRows \cup {<<k[1], "lower">>}
    /\ UNCHANGED <<tables, userRows, prefRows, stage, userTableExisted, broken>>

\* UpsertJsonAsync for the user of an access token.
SavePreferences ==
    /\ stage = "serving"
    /\ \E k \in userRows : prefRows' = prefRows \cup {<<k[1], "lower">>}
    /\ UNCHANGED <<tables, userRows, tokenRows, stage, userTableExisted, broken>>

\* The process ends, by a crash or on purpose.
Ends ==
    /\ stage # "down" /\ stage' = "down"
    /\ broken' = (broken \/ (stage # "serving" /\ ~userTableExisted
                               /\ "User" \in tables))
    /\ UNCHANGED <<tables, rows, userTableExisted>>

-----------------------------------------------------------------------------
StartNext ==
    \/ Check \/ CreateTable \/ TablesDone
    \/ NormalizeUsers \/ NormalizeTokens \/ NormalizePrefs \/ Seed
    \/ SignIn \/ SavePreferences \/ Ends

StartSpec == StartInit /\ [][StartNext]_startVars

-----------------------------------------------------------------------------
StartTypeOK ==
    /\ tables \subseteq TableNames
    /\ userRows \subseteq Keys /\ tokenRows \subseteq Keys /\ prefRows \subseteq Keys
    /\ stage \in Stages
    /\ userTableExisted \in BOOLEAN /\ broken \in BOOLEAN

\* "Normalize once (idempotent) or refresh-token inserts fail": however often a
\* start was cut short, when the server serves every user has the key that its
\* statements bind, and tokens and preferences refer to users by that key.
KeysAgree ==
    stage = "serving" =>
        /\ userRows = Lower(userRows)
        /\ tokenRows \subseteq userRows /\ prefRows \subseteq userRows

\* When the server serves somebody can sign in, unless the first start ended
\* between the statement that made the table and the one that inserts.
SomebodyCanSignIn == stage = "serving" => userRows # {} \/ broken
=============================================================================
