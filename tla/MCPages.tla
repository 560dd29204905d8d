------------------------------- MODULE MCPages -------------------------------
(* Safety of the pages of the browser and of their connections, one at a     *)
(* time: a behaviour is one of a single component, the others stay in an     *)
(* initial state.  The state space is the sum of the components'.  The page  *)
(* of the settings counts as two, which share nothing: the settings of the   *)
(* monitor and the user's toggles.                                           *)
EXTENDS PodLogsPage, HubClient, DashboardHub, ClusterWidgets, LoginPages,
        PodsWidget, MCPodFigures, SettingsPage, TLC

CONSTANTS p1, p2, k1, n1, n2, u1, u2, d1, d2

MCOld == (p1 :> <<k1>>) @@ (p2 :> <<>>)
MCNodesAt == <<{n1, n2}, {n1}, {n1, n2}>>
MCNsOf == (u1 :> d1) @@ (u2 :> d2)

VARIABLE part           \* the component that acts

PagesInit ==
    /\ part \in {"page", "hub", "dash", "views", "login", "pods", "figures",
                 "settings", "toggles"}
    /\ PageInit /\ HubInit /\ DashInit /\ ViewsInit /\ LoginInit
    /\ PodsInit
    /\ part # "pods" => \A u \in Uids : cluster[u] = "none"
    /\ FiguresInit
    /\ part # "figures" =>
          /\ usage = [c \in Parts |-> CHOOSE r \in Readings : TRUE]
          /\ scheduled
    /\ SettingsInit
    /\ part # "settings" => onServer = Default
    /\ part # "toggles" => prefsOnServer = {}

PageActs ==
    /\ part = "page"
    /\ UNCHANGED <<hubVars, dashVars, viewVars, loginAll, podsVars, figuresVars,
                   settingsPageVars>>
    /\ PageNext
HubActs ==
    /\ part = "hub"
    /\ UNCHANGED <<pageVars, dashVars, viewVars, loginAll, podsVars, figuresVars,
                   settingsPageVars>>
    /\ HubNext
DashActs ==
    /\ part = "dash"
    /\ UNCHANGED <<pageVars, hubVars, viewVars, loginAll, podsVars, figuresVars,
                   settingsPageVars>>
    /\ DashNext
ViewsAct ==
    /\ part = "views"
    /\ UNCHANGED <<pageVars, hubVars, dashVars, loginAll, podsVars, figuresVars,
                   settingsPageVars>>
    /\ ViewsNext
LoginActs ==
    /\ part = "login"
    /\ UNCHANGED <<pageVars, hubVars, dashVars, viewVars, podsVars, figuresVars,
                   settingsPageVars>>
    /\ LoginNext
PodsAct ==
    /\ part = "pods"
    /\ UNCHANGED <<pageVars, hubVars, dashVars, viewVars, loginAll, figuresVars,
                   settingsPageVars>>
    /\ PodsNext
FiguresAct ==
    /\ part = "figures"
    /\ UNCHANGED <<pageVars, hubVars, dashVars, viewVars, loginAll, podsVars,
                   settingsPageVars>>
    /\ FiguresNext
SettingsAct ==
    /\ part = "settings"
    /\ UNCHANGED <<pageVars, hubVars, dashVars, viewVars, loginAll, podsVars,
                   figuresVars>>
    /\ SettingsNext
TogglesAct ==
    /\ part = "toggles"
    /\ UNCHANGED <<pageVars, hubVars, dashVars, viewVars, loginAll, podsVars,
                   figuresVars>>
    /\ TogglesNext

PagesNext ==
    /\ UNCHANGED part
    /\ \/ PageActs \/ HubActs \/ DashActs \/ ViewsAct \/ LoginActs
       \/ PodsAct \/ FiguresAct \/ SettingsAct \/ TogglesAct

PagesSpec ==
    /\ PagesInit
    /\ [][PagesNext]_<<part, pageVars, hubVars, dashVars, viewVars, loginAll, podsVars,
                       figuresVars, settingsPageVars>>

PagesTypeOK ==
    CASE part = "page" -> PageTypeOK
      [] part = "hub" -> HubTypeOK
      [] part = "dash" -> DashTypeOK
      [] part = "views" -> ViewsTypeOK
      [] part = "login" -> LoginTypeOK
      [] part = "pods" -> PodsTypeOK
      [] part = "figures" -> FiguresTypeOK
      [] part \in {"settings", "toggles"} -> SettingsTypeOK
=============================================================================
