------------------------------ MODULE MCLogTools ------------------------------
(* Safety of the browser's tools for lines of log, one at a time as in       *)
(* MCPages.  The filters count as two: with the search box in use, and with  *)
(* the dropdown of times.                                                    *)
EXTENDS VirtualScroller, LogViewport, LogFilters, LogStats, LogPreferences,
        LineTools, TLC

CONSTANTS r1, r2, r3, r4, r5, Err, Inf

MCHeightOf == (r1 :> 60) @@ (r2 :> 120) @@ (r3 :> 60) @@ (r4 :> 120) @@ (r5 :> 60)
MCFirstRows == <<r1, r2, r3, r4>>
MCLists == {<<>>, <<r5, r1, r2, r3, r4>>, <<r1, r2, r3, r4, r5>>, <<r3, r4>>}
MCLevelOf == <<Err, Err, Inf, Inf, Err>>
MCTriStates == {[inc |-> {}, exc |-> {}], [inc |-> {Err}, exc |-> {}],
                [inc |-> {}, exc |-> {Err}]}
One(level, n) == [l \in {level} |-> n]
MCAnswers == {<<One("Error", 1), [l \in {"Debug", "Warning"} |-> 2]>>,
              <<One("Debug", 1), One("Error", 2), One("Debug", 3)>>}
MCAges == {-5, 1, 59, 60, 3599, 3600, 86399, 86400, 2592000}
MCWindows == {[width |-> 4, height |-> 5], [width |-> 2, height |-> 6]}
MCPoints == {[x |-> 1, y |-> 4], [x |-> 4, y |-> 5]}

VARIABLE part           \* the component that acts

ToolInits ==
    /\ ScrollerInit
    /\ part # "scroller" => ~unequal /\ height = CHOOSE h \in Heights : TRUE
    /\ ViewportInit
    /\ part # "viewport" =>
          stored = 0 /\ tri = (CHOOSE t \in TriStates : TRUE) /\ ~isGroupingEnabled
    /\ FiltersInit
    /\ StatsInit
    /\ part # "stats" => filter = CHOOSE f \in Filters : TRUE
    /\ PreferencesInit
    /\ part # "preferences" =>
          /\ storage = [n \in Preferences |-> Absent]
          /\ logCount = 0 /\ zone = 0
    /\ ToolsInit
    /\ part # "tools" => hasClipboard /\ window = CHOOSE w \in Windows : TRUE

LogToolsInit ==
    /\ part \in {"scroller", "viewport", "searches", "times", "stats",
                 "preferences", "tools"}
    /\ ToolInits

ScrollerActs ==
    /\ part = "scroller"
    /\ UNCHANGED <<viewportVars, filterVars, statsVars, preferenceVars, toolsVars>>
    /\ ScrollerNext
ViewportActs ==
    /\ part = "viewport"
    /\ UNCHANGED <<scrollerVars, filterVars, statsVars, preferenceVars, toolsVars>>
    /\ ViewportNext
FiltersAct ==
    /\ part \in {"searches", "times"}
    /\ UNCHANGED <<scrollerVars, viewportVars, statsVars, preferenceVars,
                   toolsVars>>
    /\ FiltersNext
    /\ part = "searches" => ~isOpen'
    /\ part = "times" => box' = ""
StatsAct ==
    /\ part = "stats"
    /\ UNCHANGED <<scrollerVars, viewportVars, filterVars, preferenceVars,
                   toolsVars>>
    /\ StatsNext
PreferencesAct ==
    /\ part = "preferences"
    /\ UNCHANGED <<scrollerVars, viewportVars, filterVars, statsVars, toolsVars>>
    /\ PreferencesNext
ToolsAct ==
    /\ part = "tools"
    /\ UNCHANGED <<scrollerVars, viewportVars, filterVars, statsVars,
                   preferenceVars>>
    /\ ToolsNext

LogToolsNext ==
    /\ UNCHANGED part
    /\ \/ ScrollerActs \/ ViewportActs \/ FiltersAct
       \/ StatsAct \/ PreferencesAct \/ ToolsAct

LogToolsSpec ==
    /\ LogToolsInit
    /\ [][LogToolsNext]_<<part, scrollerVars, viewportVars, filterVars,
                          statsVars, preferenceVars, toolsVars>>

LogToolsTypeOK ==
    CASE part = "scroller" -> ScrollerTypeOK
      [] part = "viewport" -> ViewportTypeOK
      [] part \in {"searches", "times"} -> FiltersTypeOK
      [] part = "stats" -> StatsTypeOK
      [] part = "preferences" -> LogPreferencesTypeOK
      [] part = "tools" -> ToolsTypeOK
=============================================================================
