---------------------------- MODULE LogPreferences -----------------------------
(***************************************************************************)
(* How the log page is shown: the preferences that its actions menu        *)
(* changes, each kept by a service of its own in the browser's storage     *)
(* (TimestampService, ViewModeService, LogGroupingService,                 *)
(* LineNumbersService, LiveUpdatesService, AudioService,                   *)
(* ChartVisibilityService, ChartTypeService, MemoryManagementService), and *)
(* the times it shows (TimestampService).                                  *)
(***************************************************************************)
EXTENDS Naturals, Integers, FiniteSets

CONSTANTS
    Preferences,    \* the preferences considered, which do not depend on each other
    MaxLogs,        \* numbers one may enter for the logs kept in memory
    MinLogs, TopLogs,   \* the range that is taken
    LogCounts,      \* logs in memory
    Ages,           \* ages of a time, in seconds
    Offsets         \* time zones: minutes east of UTC

ASSUME PreferencesAssumption ==
    /\ Preferences \subseteq {"format", "view", "grouping", "lines", "live", "sound",
                              "chart", "type"}
    /\ MaxLogs \subseteq Nat /\ LogCounts \subseteq Nat /\ Ages \subseteq Int
    /\ {MinLogs, TopLogs} \subseteq MaxLogs \ {0} /\ MinLogs <= TopLogs
    /\ Offsets \subseteq Int

Switch == {"on", "off"}

\* The values of each preference, and its default.
ValuesOf ==
    [format |-> {"relative", "absolute"}, view |-> {"compact", "expanded"},
     grouping |-> Switch, lines |-> Switch, live |-> Switch, sound |-> Switch,
     chart |-> Switch, type |-> {"bar", "line", "area"}]
DefaultOf ==
    [format |-> "absolute", view |-> "expanded", grouping |-> "off", lines |-> "off",
     live |-> "on", sound |-> "off", chart |-> "on", type |-> "area"]

\* The menu's categories.
CategoryOf ==
    [format |-> "Display", view |-> "Display", grouping |-> "Display",
     lines |-> "Display", live |-> "Live", sound |-> "Live", chart |-> "Chart",
     type |-> "ChartType", memory |-> "Memory"]
Categories == {CategoryOf[c] : c \in Preferences \cup {"memory"}}

\* What another version of the program may have left in the storage.
Unknown == "unknown"
Absent == "absent"

VARIABLES
    shown,          \* shown[n]: the value of a preference
    storage,        \* storage[n]: what the browser's storage has of it
    maxInMemory, maxStored,     \* maxLogsInMemory
    logCount,       \* currentLogCount
    menuOpen,       \* showActionsMenu
    unfolded,       \* the categories that are shown
    zone,           \* the browser's time zone
    chosen          \* history: preferences changed, the last one saved

preferenceVars == <<shown, storage, maxInMemory, maxStored, logCount, menuOpen,
                    unfolded, zone, chosen>>
memoryVars == <<maxInMemory, maxStored, logCount>>

\* loadPreference, loadViewMode, loadChartType, getStored...: the default when
\* the storage has nothing or what it has is no value of the preference.
Read(n, found) == IF found \in {Absent, Unknown} THEN DefaultOf[n] ELSE found

PreferencesInit ==
    /\ \E n \in Preferences, v \in {Absent, Unknown} :
          storage = [m \in Preferences |-> IF m = n THEN v ELSE Absent]
    /\ shown = [n \in Preferences |-> Read(n, storage[n])]
    /\ maxInMemory = TopLogs /\ maxStored = TopLogs /\ logCount \in LogCounts
    /\ menuOpen = FALSE /\ unfolded = Categories /\ zone \in Offsets
    /\ chosen = {}

-----------------------------------------------------------------------------
(* The menu                                                                *)

ToggleActionsMenu ==
    /\ menuOpen' = ~menuOpen
    /\ UNCHANGED <<shown, storage, memoryVars, unfolded, zone, chosen>>

ClickOutside ==
    /\ menuOpen
    /\ menuOpen' = FALSE
    /\ UNCHANGED <<shown, storage, memoryVars, unfolded, zone, chosen>>

ToggleCategory(c) ==
    /\ menuOpen
    /\ unfolded' = IF c \in unfolded THEN unfolded \ {c} ELSE unfolded \cup {c}
    /\ UNCHANGED <<shown, storage, memoryVars, menuOpen, zone, chosen>>

Offered(n) == menuOpen /\ CategoryOf[n] \in unfolded

\* A failure to write to the storage is ignored.
SetPreference(n, v, saved) ==
    /\ shown' = [shown EXCEPT ![n] = v]
    /\ storage' = IF saved THEN [storage EXCEPT ![n] = v] ELSE storage
    /\ chosen' = IF saved THEN chosen \cup {n} ELSE chosen \ {n}

\* toggleFormat, toggleViewMode, toggleGrouping, toggleLineNumbers,
\* toggleLiveUpdates, toggleEnabled, toggleVisibility, setChartType
Choose(n, v, saved) ==
    /\ Offered(n)
    /\ v \in ValuesOf[n]
    /\ n # "type" => v # shown[n]
    /\ SetPreference(n, v, saved)
    /\ menuOpen' = FALSE
    /\ UNCHANGED <<memoryVars, unfolded, zone>>

-----------------------------------------------------------------------------
(* The memory                                                              *)

\* updateMaxLogs, setMaxLogsInMemory; an effect stores it.
SetMaxLogs(k) ==
    /\ Offered("memory")
    /\ k >= MinLogs /\ k <= TopLogs
    /\ maxInMemory' = k /\ maxStored' = k
    /\ UNCHANGED <<shown, storage, logCount, menuOpen, unfolded, zone, chosen>>

UpdateLogCount(k) ==
    /\ logCount' = k
    /\ UNCHANGED <<shown, storage, maxInMemory, maxStored, menuOpen, unfolded, zone, chosen>>

\* Math.round of the percentage, at most 100.
MemoryUsage ==
    LET percentage == IF maxInMemory > 0
                      THEN (200 * logCount + maxInMemory) \div (2 * maxInMemory) ELSE 0
    IN  IF percentage > 100 THEN 100 ELSE percentage

UsageLevel == IF MemoryUsage > 90 THEN "critical"
              ELSE IF MemoryUsage > 75 THEN "warning" ELSE "normal"

LoadLogPage ==
    /\ shown' = [n \in Preferences |-> Read(n, storage[n])]
    /\ maxInMemory' = maxStored /\ logCount' = 0
    /\ menuOpen' = FALSE /\ unfolded' = Categories
    /\ UNCHANGED <<storage, maxStored, zone, chosen>>

PreferencesNext ==
    \/ ToggleActionsMenu
    \/ ClickOutside
    \/ \E c \in Categories : ToggleCategory(c)
    \/ \E n \in Preferences, saved \in BOOLEAN :
          \E v \in ValuesOf[n] : Choose(n, v, saved)
    \/ \E k \in MaxLogs : SetMaxLogs(k)
    \/ \E k \in LogCounts : UpdateLogCount(k)
    \/ LoadLogPage

PreferencesSpec == PreferencesInit /\ [][PreferencesNext]_preferenceVars

-----------------------------------------------------------------------------
(* Times                                                                   *)

\* Variant: a time without a zone is the browser's.
ParseServerDate_Local(stamp, browser) ==
    stamp.wall - (IF stamp.zone = "none" THEN browser ELSE stamp.offset)

\* parseServerDate: a time without a zone is in UTC.
ParseServerDate(stamp, browser) ==
    stamp.wall - (IF stamp.zone = "none" THEN 0 ELSE stamp.offset)

\* How the server may write an instant: its zone, or UTC without saying so.
StampsOf(instant) ==
    {[wall |-> instant, zone |-> z, offset |-> 0] : z \in {"Z", "none"}}
        \cup {[wall |-> instant + o, zone |-> "offset", offset |-> o] : o \in Offsets}

\* formatRelative: the unit and how many of it; "now" for no number, "date" for
\* the absolute format.
FormatRelative(age) ==
    LET seconds == age
        minutes == seconds \div 60
        hours == minutes \div 60
        days == hours \div 24
    IN  IF seconds <= 1 THEN [unit |-> "now", count |-> 0]
        ELSE IF seconds < 60 THEN [unit |-> "s", count |-> seconds]
        ELSE IF minutes < 60 THEN [unit |-> "m", count |-> minutes]
        ELSE IF hours < 24 THEN [unit |-> "h", count |-> hours]
        ELSE IF days < 30 THEN [unit |-> "d", count |-> days]
        ELSE [unit |-> "date", count |-> 0]

-----------------------------------------------------------------------------
(* Properties                                                              *)

\* Types.
LogPreferencesTypeOK ==
    /\ DOMAIN shown = Preferences /\ DOMAIN storage = Preferences
    /\ maxInMemory \in MaxLogs /\ logCount \in LogCounts \cup {0}
    /\ menuOpen \in BOOLEAN /\ zone \in Offsets /\ unfolded \subseteq Categories
    /\ chosen \subseteq Preferences

\* A preference has one of its values, whatever the storage had of it.
ShownIsKnown == \A n \in Preferences : shown[n] \in ValuesOf[n]

\* A preference that was changed is found again when the page is loaded, if its
\* last value could be stored.
ChosenIsFoundAgain == \A n \in chosen : Read(n, storage[n]) = shown[n]

\* The logs that may be kept in memory are within the limits, and so is their
\* number over reloads (setMaxLogsInMemory).
MaxLogsWithinLimits ==
    /\ MinLogs <= maxInMemory /\ maxInMemory <= TopLogs
    /\ maxStored = maxInMemory
    /\ UsageLevel = "critical" <=> 200 * logCount >= 181 * maxInMemory

\* A time is the same instant in every browser, however the server writes it
\* (parseServerDate), and its age is shown in whole units, rounded down
\* (formatRelative).
TimesAreRight ==
    LET size == [s |-> 1, m |-> 60, h |-> 3600, d |-> 86400]
    IN  \A age \in Ages :
            /\ \A stamp \in StampsOf(age) : ParseServerDate(stamp, zone) = age
            /\ LET r == FormatRelative(age)
               IN  r.unit \in DOMAIN size =>
                       /\ r.count > 0 /\ r.count * size[r.unit] <= age
                       /\ age < (r.count + 1) * size[r.unit]

\* What is stored, kept and shown of preferences, limits and times.
PreferencesPromise ==
    /\ ShownIsKnown
    /\ ChosenIsFoundAgain
    /\ MaxLogsWithinLimits
    /\ TimesAreRight
=============================================================================
