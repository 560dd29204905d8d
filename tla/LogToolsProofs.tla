----------------------------- MODULE LogToolsProofs -----------------------------
(***************************************************************************)
(* Proofs about the tools the browser has for lines of log, each for any   *)
(* number of lines, texts, presets, periods, rows and preferences: the     *)
(* menu, the copying and the alerts, the filters, the chart of the         *)
(* statistics, the preferences, the log list with its pages and pushes,    *)
(* and the scroller.  A section takes one component at a time; the last    *)
(* one has the types of all of them as MCLogTools puts them together.      *)
(***************************************************************************)
EXTENDS MCLogTools, DataLemmas

-----------------------------------------------------------------------------
(* The menu of a line, copying, the badge of errors, the sounds.            *)

\* A test sound that waits while the alerts are off was asked for before they
\* were switched off.
TestIsUndone == testTimers > 0 => sound.enabled \/ undone

ToolsInv == ToolsTypeOK /\ ToolsPromise /\ TestIsUndone

\* The menu stays where it was shown.
MenuInv ==
    /\ window \in Windows
    /\ menu \in [visible : BOOLEAN, line : ToolLines \cup {NoLine}, x : Int, y : Int]
    /\ MenuFits

CopyInv ==
    /\ hasClipboard \in BOOLEAN
    /\ writing \subseteq ToolLines /\ copiedLogId \in ToolLines \cup {NoLine}
    /\ copiedTimers \in 0..MaxTimers
    /\ copiedLogId # NoLine => copiedTimers > 0

BadgeInv ==
    /\ pulseTimers \in 0..MaxTimers /\ errorCount \in ErrorCounts \cup {0}
    /\ hasNewErrors \in BOOLEAN
    /\ hasNewErrors => pulseTimers > 0

SoundInv ==
    /\ testTimers \in 0..MaxTimers
    /\ sound \in [enabled : BOOLEAN, errorSound : BOOLEAN, warningSound : BOOLEAN]
    /\ played \in [why : {"nothing", "alert", "test"}, on : BOOLEAN, undone : BOOLEAN]
    /\ undone \in BOOLEAN
    /\ SilentWhenOff /\ TestIsUndone

LEMMA ToolsInvIsItsParts == ToolsInv <=> MenuInv /\ CopyInv /\ BadgeInv /\ SoundInv
BY DEF ToolsInv, ToolsTypeOK, ToolsPromise, MarksEnd, MenuInv, CopyInv, BadgeInv, SoundInv

LEMMA TimersMayRun == MaxTimers \in Nat /\ MaxTimers > 0 /\ ErrorCounts \subseteq Nat
BY ToolsAssumption

LEMMA ToolsStart == ASSUME ToolsInit PROVE ToolsInv
<1>1. MenuInv
    BY ToolsAssumption DEF ToolsInit, MenuInv, MenuFits
<1>2. CopyInv /\ BadgeInv
  <2>1. 0 \in 0..MaxTimers
      BY TimersMayRun
  <2>. QED
      BY <2>1, Zenon DEF ToolsInit, CopyInv, BadgeInv
<1>3. SoundInv
  <2>1. sound \in [enabled : BOOLEAN, errorSound : BOOLEAN, warningSound : BOOLEAN]
      BY DEF ToolsInit
  <2>2. played \in [why : {"nothing", "alert", "test"}, on : BOOLEAN, undone : BOOLEAN]
          /\ SilentWhenOff
      BY DEF ToolsInit, SilentWhenOff
  <2>3. testTimers \in 0..MaxTimers /\ TestIsUndone
      BY TimersMayRun DEF ToolsInit, TestIsUndone
  <2>4. undone \in BOOLEAN
      BY DEF ToolsInit
  <2>. QED
      BY <2>1, <2>2, <2>3, <2>4 DEF SoundInv
<1>. QED
    BY <1>1, <1>2, <1>3, ToolsInvIsItsParts

\* A menu that is shown is within the window, one that is hidden stays in place.
LEMMA ShowFits ==
    ASSUME MenuInv, NEW line \in ToolLines, NEW p \in Points, Show(line, p.x, p.y)
    PROVE  MenuInv'
<1>1. p.x \in Nat /\ p.y \in Nat /\ window.width \in Nat /\ window.height \in Nat
        /\ MenuWidth \in Nat /\ MenuHeight \in Nat /\ Gap \in Nat /\ line # NoLine
    BY ToolsAssumption DEF MenuInv
<1>2. menu' = [visible |-> TRUE, line |-> line,
                  x |-> Placed(p.x, p.y).x, y |-> Placed(p.x, p.y).y]
        /\ window' = window /\ p.x <= window.width /\ p.y <= window.height
    BY DEF Show
<1>3. /\ Placed(p.x, p.y).x \in Int
      /\ window.width >= MenuWidth + Gap =>
            /\ Placed(p.x, p.y).x \in 0..window.width
            /\ Placed(p.x, p.y).x + MenuWidth <= window.width
    BY <1>1, <1>2 DEF Placed
<1>4. /\ Placed(p.x, p.y).y \in Int
      /\ window.height >= MenuHeight + Gap =>
            /\ Placed(p.x, p.y).y \in 0..window.height
            /\ Placed(p.x, p.y).y + MenuHeight <= window.height
    BY <1>1, <1>2 DEF Placed
<1>. QED
    BY <1>1, <1>2, <1>3, <1>4 DEF MenuInv, MenuFits

LEMMA HidingFits ==
    ASSUME MenuInv, menu' = [menu EXCEPT !.visible = FALSE], window' = window
    PROVE  MenuInv'
BY DEF MenuInv, MenuFits

LEMMA MarkingEnds ==
    ASSUME CopyInv, NEW line \in ToolLines, MarkedAtOnce(line),
           hasClipboard' = hasClipboard, writing' \subseteq ToolLines
    PROVE  CopyInv'
BY TimersMayRun DEF CopyInv, MarkedAtOnce

LEMMA CopyingEnds ==
    ASSUME CopyInv, NEW line \in ToolLines, CopyLog(line), hasClipboard' = hasClipboard
    PROVE  CopyInv'
BY MarkingEnds DEF CopyInv, CopyLog

LEMMA PushKeepsBadge ==
    ASSUME BadgeInv, NEW n \in ErrorCounts, pulseTimers < MaxTimers, UpdateErrorCount(n)
    PROVE  BadgeInv'
BY TimersMayRun DEF BadgeInv, UpdateErrorCount

LEMMA AlertIsOn ==
    ASSUME SoundInv, NEW errors \in BOOLEAN, NEW warnings \in BOOLEAN,
           PlayAlert(errors, warnings), UNCHANGED <<sound, testTimers, undone>>
    PROVE  SoundInv'
<1>1. CASE UNCHANGED played
    BY <1>1 DEF SoundInv, SilentWhenOff, TestIsUndone
<1>2. CASE /\ sound.enabled
           /\ played' = [why |-> "alert", on |-> sound.enabled, undone |-> FALSE]
  <2>1. sound.enabled = TRUE
      BY <1>2 DEF SoundInv
  <2>2. played' \in [why : {"nothing", "alert", "test"}, on : BOOLEAN, undone : BOOLEAN]
          /\ SilentWhenOff'
      BY <1>2, <2>1 DEF SilentWhenOff
  <2>. QED
      BY <2>2 DEF SoundInv, TestIsUndone
<1>. QED
    BY <1>1, <1>2 DEF PlayAlert

LEMMA ToggleKeepsSound ==
    ASSUME SoundInv, ToggleSoundAlerts
    PROVE  SoundInv'
<1>1. sound' \in [enabled : BOOLEAN, errorSound : BOOLEAN, warningSound : BOOLEAN]
        /\ sound'.enabled = ~sound.enabled
    BY DEF SoundInv, ToggleSoundAlerts, UpdateSettings
<1>2. testTimers' \in 0..MaxTimers /\ undone' \in BOOLEAN
    BY TimersMayRun DEF SoundInv, ToggleSoundAlerts
<1>3. TestIsUndone'
    BY <1>1 DEF SoundInv, ToggleSoundAlerts, TestIsUndone
<1>. QED
    BY <1>1, <1>2, <1>3 DEF SoundInv, ToggleSoundAlerts, SilentWhenOff

LEMMA TestKeepsSound ==
    ASSUME SoundInv, PlayTestSound
    PROVE  SoundInv'
<1>1. /\ testTimers' \in 0..MaxTimers /\ undone' \in BOOLEAN
      /\ (testTimers' > 0) <=> (testTimers > 1)
    BY TimersMayRun DEF SoundInv, PlayTestSound
<1>2. TestIsUndone'
    BY <1>1 DEF SoundInv, PlayTestSound, TestIsUndone
<1>3. /\ SilentWhenOff'
      /\ played' \in [why : {"nothing", "alert", "test"}, on : BOOLEAN, undone : BOOLEAN]
    BY DEF SoundInv, PlayTestSound, SilentWhenOff, TestIsUndone
<1>. QED
    BY <1>1, <1>2, <1>3 DEF SoundInv, PlayTestSound

LEMMA UnchangedParts ==
    /\ MenuInv /\ UNCHANGED menuVars => MenuInv'
    /\ CopyInv /\ UNCHANGED copyVars => CopyInv'
    /\ BadgeInv /\ UNCHANGED badgeVars => BadgeInv'
    /\ SoundInv /\ UNCHANGED soundVars => SoundInv'
BY DEF menuVars, copyVars, badgeVars, soundVars, MenuInv, MenuFits, CopyInv,
       BadgeInv, SoundInv, SilentWhenOff, TestIsUndone

LEMMA ToolsStep == ASSUME ToolsInv, [ToolsNext]_toolsVars PROVE ToolsInv'
<1>. MenuInv /\ CopyInv /\ BadgeInv /\ SoundInv
    BY ToolsInvIsItsParts
<1>. SUFFICES MenuInv' /\ CopyInv' /\ BadgeInv' /\ SoundInv'
  <2>1. (ToolsInv <=> MenuInv /\ CopyInv /\ BadgeInv /\ SoundInv)'
      BY ToolsInvIsItsParts, PTL
  <2>. QED
      BY <2>1
<1>1. ASSUME NEW line \in ToolLines, NEW p \in Points, Show(line, p.x, p.y)
      PROVE  MenuInv' /\ CopyInv' /\ BadgeInv' /\ SoundInv'
    BY <1>1, ShowFits, UnchangedParts DEF Show
<1>2. CASE Hide
    BY <1>2, HidingFits, UnchangedParts DEF Hide
<1>3. CASE OnContextMenuCopy
  <2>1. menu.line \in ToolLines
      BY <1>3 DEF OnContextMenuCopy, MenuInv, MenuFits
  <2>. QED
      BY <1>3, <2>1, HidingFits, CopyingEnds, UnchangedParts DEF OnContextMenuCopy
<1>4. ASSUME NEW line \in ToolLines, CopyWritten(line)
      PROVE  MenuInv' /\ CopyInv' /\ BadgeInv' /\ SoundInv'
    BY <1>4, MarkingEnds, UnchangedParts DEF CopyWritten, CopyInv
<1>5. ASSUME NEW line \in ToolLines, CopyFails(line)
      PROVE  MenuInv' /\ CopyInv' /\ BadgeInv' /\ SoundInv'
  <2>1. CopyInv'
      BY <1>5 DEF CopyFails, CopyInv
  <2>. QED
      BY <1>5, <2>1, UnchangedParts DEF CopyFails
<1>6. CASE CopiedTimer
  <2>1. CopyInv'
      BY <1>6, TimersMayRun DEF CopiedTimer, CopyInv
  <2>. QED
      BY <1>6, <2>1, UnchangedParts DEF CopiedTimer
<1>7. CASE PulseTimer
  <2>1. BadgeInv'
    <3>1. pulseTimers' \in 0..MaxTimers
        BY <1>7, TimersMayRun DEF PulseTimer, BadgeInv
    <3>2. hasNewErrors' = FALSE /\ errorCount' = errorCount
        BY <1>7 DEF PulseTimer
    <3>. QED
        BY <3>1, <3>2 DEF BadgeInv
  <2>. QED
      BY <1>7, <2>1, UnchangedParts DEF PulseTimer
<1>8. CASE ToggleSoundAlerts
    BY <1>8, ToggleKeepsSound, UnchangedParts DEF ToggleSoundAlerts
<1>9. CASE PlayTestSound
    BY <1>9, TestKeepsSound, UnchangedParts DEF PlayTestSound
<1>10. ASSUME NEW n \in ErrorCounts, NEW warnings \in BOOLEAN, NEW live \in BOOLEAN,
              LogsPushed(n, warnings, live)
       PROVE  MenuInv' /\ CopyInv' /\ BadgeInv' /\ SoundInv'
  <2>1. BadgeInv'
      BY <1>10, PushKeepsBadge DEF LogsPushed
  <2>2. SoundInv'
    <3>1. CASE live
      <4>. (n > 0) \in BOOLEAN
          OBVIOUS
      <4>. QED
          BY <1>10, <3>1, AlertIsOn DEF LogsPushed
    <3>2. CASE ~live
        BY <1>10, <3>2, UnchangedParts DEF LogsPushed, soundVars
    <3>. QED
        BY <3>1, <3>2
  <2>. QED
      BY <1>10, <2>1, <2>2, UnchangedParts DEF LogsPushed
<1>11. CASE UNCHANGED toolsVars
    BY <1>11, UnchangedParts DEF toolsVars, menuVars, copyVars, badgeVars, soundVars
<1>. QED
    BY <1>1, <1>2, <1>3, <1>4, <1>5, <1>6, <1>7, <1>8, <1>9, <1>10, <1>11 DEF ToolsNext

\* ContextMenuComponent, LogViewportComponent, ErrorCountBadgeComponent, AudioService:
\* the menu stays within the window, a mark of a copied line or of new errors has a
\* timer that ends it, and a sound is heard only while the alerts are on or when its
\* test was asked for before they were switched off.
THEOREM ToolsPromiseHolds == ToolsSpec => []ToolsPromise
<1>1. ToolsInit => ToolsInv
    BY ToolsStart
<1>2. ToolsInv /\ [ToolsNext]_toolsVars => ToolsInv'
    BY ToolsStep
<1>3. ToolsInv => ToolsPromise
    BY DEF ToolsInv
<1>. QED
    BY <1>1, <1>2, <1>3, PTL DEF ToolsSpec

-----------------------------------------------------------------------------
(* The filters.                                                             *)

\* A custom range, if one is set, ends no earlier than it starts.
RunsForward(custom) == custom = NoRange \/ (custom \in Nat \X Nat /\ custom[1] <= custom[2])

FilterStates ==
    [levels : Shortcuts \cup {"null", "none"}, tri : {"null", "some"}, search : Searches,
     time : {NoTime, "6h", "Day"}, custom : {NoRange} \cup (Nat \X Nat)]

PresetRecords ==
    [id : Nat, levels : Shortcuts \cup {"null", "none"}, search : Searches,
     time : {NoTime, "6h", "Day"}, custom : {NoRange} \cup (Nat \X Nat)]

\* What is asked for in the box reaches the search when the debounce is over,
\* unless a preset came between.
BoxIsWanted == debouncing /\ ~mixed => box = wanted

SearchInv ==
    /\ box \in Searches /\ wanted \in Searches
    /\ debouncing \in BOOLEAN /\ mixed \in BOOLEAN
    /\ BoxIsWanted /\ SearchIsKept

\* Cleared filters have nothing in the box that the debounce could bring back.
ClearedInv == cleared => flt = NothingSet /\ box = NoText

\* The time filter of the dropdown is in force even behind a custom range: it
\* comes back with the range's end.
TimeInv ==
    /\ pick \in TimeFilters \cup {"null"}
    /\ ~past /\ pick # "null" => flt.time = ValueOf(pick)

PresetsInv ==
    /\ lastPreset \in Nat
    /\ storedPresets = presets
    /\ \A q \in presets : q \in PresetRecords /\ RunsForward(q.custom) /\ q.id <= lastPreset
    /\ PresetsAreKept

FiltersInv ==
    /\ flt \in FilterStates /\ RunsForward(flt.custom)
    /\ SearchInv
    /\ ClearedInv
    /\ TimeInv
    /\ PresetsInv

LEMMA FiltersConstants ==
    NoText \in Searches /\ Moments \subseteq Nat /\ MaxPresets \in Nat
BY FiltersAssumption

LEMMA ValuesOfFilters ==
    ASSUME NEW f \in TimeFilters \cup {"null"}
    PROVE  ValueOf(f) \in {NoTime, "6h", "Day"}
BY DEF ValueOf, TimeFilters, NoTime

LEMMA FiltersStart == ASSUME FiltersInit PROVE FiltersInv
<1>1. flt \in FilterStates /\ RunsForward(flt.custom)
    BY FiltersConstants DEF FiltersInit, FilterStates, RunsForward
<1>2. SearchInv
    BY FiltersConstants, Zenon DEF FiltersInit, SearchInv, BoxIsWanted, SearchIsKept
<1>3. ClearedInv
    BY DEF FiltersInit, ClearedInv
<1>4. TimeInv
    BY DEF FiltersInit, TimeInv, ValueOf, TimeFilters
<1>5. PresetsInv
    BY DEF FiltersInit, PresetsInv, PresetsAreKept
<1>. QED
    BY <1>1, <1>2, <1>3, <1>4, <1>5 DEF FiltersInv

\* Which part of the state each part of the invariant is about.
LEMMA UnchangedFilters ==
    /\ SearchInv /\ UNCHANGED <<searchVars, flt>> => SearchInv'
    /\ ClearedInv /\ UNCHANGED <<cleared, flt, box>> => ClearedInv'
    /\ TimeInv /\ UNCHANGED <<pick, past, flt>> => TimeInv'
    /\ PresetsInv /\ UNCHANGED presetVars => PresetsInv'
    /\ cleared' = FALSE => ClearedInv'
<1>1. SearchInv /\ UNCHANGED <<searchVars, flt>> => SearchInv'
    BY DEF SearchInv, BoxIsWanted, SearchIsKept, searchVars
<1>2. ClearedInv /\ UNCHANGED <<cleared, flt, box>> => ClearedInv'
    BY DEF ClearedInv
<1>3. TimeInv /\ UNCHANGED <<pick, past, flt>> => TimeInv'
    BY DEF TimeInv
<1>4. PresetsInv /\ UNCHANGED presetVars => PresetsInv'
    BY DEF PresetsInv, PresetsAreKept, presetVars
<1>5. cleared' = FALSE => ClearedInv'
    BY DEF ClearedInv
<1>. QED
    BY <1>1, <1>2, <1>3, <1>4, <1>5

\* The search of the state is all that the box's part of the invariant needs.
LEMMA SameSearch ==
    ASSUME SearchInv, UNCHANGED searchVars, flt'.search = flt.search
    PROVE  SearchInv'
BY DEF SearchInv, BoxIsWanted, SearchIsKept, searchVars

LEMMA TypingIsKept ==
    ASSUME FiltersInv, NEW s \in Searches, Type(s)
    PROVE  FiltersInv'
<1>1. SearchInv'
    BY DEF FiltersInv, SearchInv, BoxIsWanted, SearchIsKept, Type
<1>. QED
    BY <1>1, UnchangedFilters DEF FiltersInv, Type

LEMMA DebouncedIsKept ==
    ASSUME FiltersInv, Debounced
    PROVE  FiltersInv'
<1>1. /\ flt' = [flt EXCEPT !.search = box]
      /\ UNCHANGED <<box, wanted, mixed, pick, presetVars, past, cleared>>
      /\ debouncing /\ debouncing' = FALSE
    BY DEF Debounced
<1>2. flt' \in FilterStates /\ flt'.custom = flt.custom /\ flt'.time = flt.time
        /\ flt'.search = box
    BY <1>1 DEF FiltersInv, SearchInv, FilterStates
<1>3. SearchInv'
    BY <1>1, <1>2 DEF FiltersInv, SearchInv, BoxIsWanted, SearchIsKept
<1>4. ClearedInv'
  <2>1. SUFFICES ASSUME cleared PROVE flt' = NothingSet /\ box' = NoText
      BY <1>1 DEF ClearedInv
  <2>2. flt = NothingSet /\ box = NoText
      BY <2>1 DEF FiltersInv, ClearedInv
  <2>. QED
      BY <1>1, <2>2 DEF NothingSet
<1>5. TimeInv'
    BY <1>1, <1>2 DEF FiltersInv, TimeInv
<1>. QED
    BY <1>1, <1>2, <1>3, <1>4, <1>5, UnchangedFilters DEF FiltersInv, RunsForward

LEMMA LevelsAreKept ==
    ASSUME FiltersInv,
           \/ \E t \in {"null", "some"} : ChooseTri(t)
           \/ \E l \in Shortcuts : ShowOnly(l)
    PROVE  FiltersInv'
<1>1. /\ flt' \in FilterStates /\ flt'.custom = flt.custom /\ flt'.time = flt.time
      /\ flt'.search = flt.search
      /\ UNCHANGED <<searchVars, pick, presetVars, past>> /\ cleared' = FALSE
    BY DEF FiltersInv, FilterStates, ChooseTri, ShowOnly
<1>2. SearchInv'
    BY <1>1, SameSearch DEF FiltersInv
<1>3. TimeInv'
    BY <1>1 DEF FiltersInv, TimeInv
<1>. QED
    BY <1>1, <1>2, <1>3, UnchangedFilters DEF FiltersInv, RunsForward

\* The dropdown's filter is in force after each of its changes; a change to no
\* filter leaves the range to decide.
LEMMA ChangingTheFilter ==
    ASSUME FiltersInv, NEW f \in TimeFilters \cup {"null"}, NEW custom, RunsForward(custom),
           NEW time \in {NoTime, "6h", "Day"}, f = "null" \/ time = flt.time,
           FilterChange(f, custom, time), UNCHANGED <<searchVars, presetVars>>
    PROVE  FiltersInv'
<1>1. custom \in {NoRange} \cup (Nat \X Nat)
    BY DEF RunsForward
<1>2. DEFINE value == IF f # pick THEN ValueOf(f) ELSE time
<1>3. value \in {NoTime, "6h", "Day"}
    BY ValuesOfFilters
<1>4. flt' = [flt EXCEPT !.custom = custom, !.time = value]
    BY DEF FilterChange
<1>. HIDE DEF value
<1>5. /\ flt' \in FilterStates /\ flt'.custom = custom /\ flt'.time = value
      /\ flt'.search = flt.search
    BY <1>1, <1>3, <1>4 DEF FiltersInv, FilterStates
<1>6. SearchInv'
    BY <1>5, SameSearch DEF FiltersInv
<1>7. pick' = f /\ past' = (past /\ f = pick) /\ cleared' = FALSE
    BY DEF FilterChange
<1>8. TimeInv'
    BY <1>5, <1>7 DEF FiltersInv, TimeInv, value
<1>. QED
    BY <1>5, <1>6, <1>7, <1>8, UnchangedFilters DEF FiltersInv

LEMMA TimesAreKept ==
    ASSUME FiltersInv,
           \/ \E f \in TimeFilters : SelectFilter(f)
           \/ SelectCustomRange
           \/ \E r \in Ranges : ApplyRange(r)
    PROVE  FiltersInv'
<1>1. flt.time \in {NoTime, "6h", "Day"} /\ RunsForward(flt.custom)
    BY DEF FiltersInv, FilterStates
<1>2. ASSUME NEW f \in TimeFilters, SelectFilter(f) PROVE FiltersInv'
    BY <1>1, <1>2, ChangingTheFilter DEF SelectFilter, RunsForward
<1>3. CASE SelectCustomRange
    BY <1>1, <1>3, ChangingTheFilter DEF SelectCustomRange
<1>4. ASSUME NEW r \in Ranges, ApplyRange(r) PROVE FiltersInv'
  <2>1. r \in Nat \X Nat
      BY FiltersConstants DEF Ranges
  <2>2. RunsForward(InPicker(r))
      BY <1>1, <1>4, <2>1 DEF ApplyRange, CanApply, InPicker, RunsForward
  <2>. QED
      BY <1>4, <2>2, ChangingTheFilter DEF ApplyRange
<1>. QED
    BY <1>2, <1>3, <1>4

LEMMA DropdownIsKept ==
    ASSUME FiltersInv, ToggleDropdown \/ ClickElsewhere \/ CancelRange
    PROVE  FiltersInv'
<1>1. UNCHANGED <<searchVars, flt, pick, presetVars, past, cleared>>
    BY DEF ToggleDropdown, ClickElsewhere, CancelRange
<1>. QED
    BY <1>1, UnchangedFilters DEF FiltersInv, searchVars

LEMMA ChartIsKept ==
    ASSUME FiltersInv, NEW m \in Moments, ChartRange(m)
    PROVE  FiltersInv'
<1>1. <<m, m + 1>> \in Nat \X Nat /\ m <= m + 1
    BY FiltersConstants
<1>2. /\ flt' \in FilterStates /\ flt'.custom = <<m, m + 1>> /\ flt'.search = flt.search
    BY <1>1 DEF FiltersInv, FilterStates, ChartRange
<1>3. RunsForward(flt'.custom)
    BY <1>1, <1>2 DEF RunsForward
<1>4. SearchInv'
    BY <1>2, SameSearch DEF FiltersInv, ChartRange
<1>5. TimeInv'
    BY DEF FiltersInv, TimeInv, ChartRange
<1>. QED
    BY <1>2, <1>3, <1>4, <1>5, UnchangedFilters DEF FiltersInv, ChartRange

LEMMA ClearingIsKept ==
    ASSUME FiltersInv, ClearAllFilters
    PROVE  FiltersInv'
<1>1. /\ NothingSet \in FilterStates /\ RunsForward(NothingSet.custom)
      /\ NothingSet.search = NoText /\ NothingSet.time = NoTime
    BY FiltersConstants DEF NothingSet, FilterStates, RunsForward
<1>2. SearchInv'
  <2>1. /\ box' = NoText /\ wanted' = NoText /\ mixed' = FALSE /\ flt'.search = NoText
        /\ debouncing' \in BOOLEAN
      BY <1>1 DEF ClearAllFilters, FiltersInv, SearchInv
  <2>. QED
      BY <2>1, FiltersConstants DEF SearchInv, BoxIsWanted, SearchIsKept
<1>3. ClearedInv'
    BY DEF ClearAllFilters, ClearedInv
<1>4. TimeInv'
    BY <1>1 DEF ClearAllFilters, TimeInv, TimeFilters, ValueOf
<1>. QED
    BY <1>1, <1>2, <1>3, <1>4, UnchangedFilters DEF FiltersInv, ClearAllFilters

LEMMA SavingIsKept ==
    ASSUME FiltersInv, SavePreset
    PROVE  FiltersInv'
<1>. DEFINE new == [id |-> lastPreset + 1, levels |-> flt.levels, search |-> flt.search,
                    time |-> flt.time, custom |-> flt.custom]
<1>1. presets' = presets \cup {new} /\ storedPresets' = presets'
        /\ kept' = kept \cup {lastPreset + 1} /\ lastPreset' = lastPreset + 1
    BY DEF SavePreset
<1>2. new \in PresetRecords /\ new.id = lastPreset + 1 /\ new.custom = flt.custom
    BY DEF FiltersInv, PresetsInv, FilterStates, PresetRecords
<1>. HIDE DEF new
<1>3. PresetsAreKept'
    BY <1>1, <1>2 DEF FiltersInv, PresetsInv, PresetsAreKept
<1>4. lastPreset' \in Nat /\ \A q \in presets : q.id <= lastPreset'
    BY <1>1 DEF FiltersInv, PresetsInv, PresetRecords
<1>5. lastPreset + 1 <= lastPreset'
    BY <1>1, <1>4 DEF FiltersInv, PresetsInv
<1>6. PresetsInv'
    BY <1>1, <1>2, <1>3, <1>4, <1>5 DEF FiltersInv, PresetsInv
<1>. QED
    BY <1>6, UnchangedFilters DEF FiltersInv, SavePreset, searchVars

LEMMA DeletingIsKept ==
    ASSUME FiltersInv, NEW id \in 1..MaxPresets, DeletePreset(id)
    PROVE  FiltersInv'
<1>1. PresetsInv'
    BY DEF FiltersInv, PresetsInv, PresetsAreKept, DeletePreset
<1>. QED
    BY <1>1, UnchangedFilters DEF FiltersInv, DeletePreset, searchVars

LEMMA ApplyingIsKept ==
    ASSUME FiltersInv, NEW q \in presets, ApplyPreset(q)
    PROVE  FiltersInv'
<1>1. q \in PresetRecords /\ RunsForward(q.custom)
    BY DEF FiltersInv, PresetsInv
<1>2. flt' \in FilterStates /\ flt'.custom = q.custom /\ flt'.search = q.search
    BY <1>1 DEF FiltersInv, FilterStates, PresetRecords, ApplyPreset
<1>3. SearchInv'
  <2>1. wanted' = q.search /\ q.search \in Searches /\ mixed' = debouncing
          /\ box' = box /\ debouncing' = debouncing
      BY <1>1 DEF ApplyPreset, PresetRecords
  <2>. QED
      BY <1>2, <2>1 DEF FiltersInv, SearchInv, BoxIsWanted, SearchIsKept
<1>4. TimeInv'
    BY DEF FiltersInv, TimeInv, ApplyPreset
<1>. QED
    BY <1>1, <1>2, <1>3, <1>4, UnchangedFilters DEF FiltersInv, ApplyPreset

LEMMA ReloadingIsKept ==
    ASSUME FiltersInv, NEW today \in BOOLEAN, Reload(today)
    PROVE  FiltersInv'
<1>1. pick' \in TimeFilters
    BY DEF FiltersInv, FilterStates, Reload, SavedFilter, TimeFilters, NoTime
<1>2. ValueOf(pick') \in {NoTime, "6h", "Day"}
    BY <1>1, ValuesOfFilters
<1>3. /\ flt' \in FilterStates /\ flt'.custom = flt.custom /\ flt'.search = flt.search
      /\ flt'.time = ValueOf(pick')
    BY <1>2 DEF FiltersInv, FilterStates, Reload
<1>4. SearchInv'
  <2>1. /\ box' = flt.search /\ wanted' = flt.search /\ flt.search \in Searches
        /\ debouncing' = TRUE /\ mixed' = FALSE
      BY DEF FiltersInv, FilterStates, Reload
  <2>. QED
      BY <2>1 DEF SearchInv, BoxIsWanted, SearchIsKept
<1>5. TimeInv'
    BY <1>1, <1>3 DEF TimeInv
<1>6. PresetsInv'
    BY DEF FiltersInv, PresetsInv, PresetsAreKept, Reload
<1>7. cleared' = FALSE
    BY DEF Reload
<1>. QED
    BY <1>3, <1>4, <1>5, <1>6, <1>7, UnchangedFilters DEF FiltersInv

LEMMA FiltersStep == ASSUME FiltersInv, [FiltersNext]_filterVars PROVE FiltersInv'
<1>1. CASE UNCHANGED filterVars
  <2>1. UNCHANGED <<searchVars, flt, pick, presetVars, past, cleared>>
      BY <1>1 DEF filterVars, searchVars, presetVars
  <2>. QED
      BY <2>1, UnchangedFilters DEF FiltersInv, searchVars
<1>2. CASE FiltersNext
    BY <1>2, TypingIsKept, DebouncedIsKept, LevelsAreKept, DropdownIsKept, TimesAreKept,
       ChartIsKept, ClearingIsKept, SavingIsKept, DeletingIsKept, ApplyingIsKept,
       ReloadingIsKept DEF FiltersNext
<1>. QED
    BY <1>1, <1>2

LEMMA FiltersInvIsEnough == FiltersInv => FiltersPromise
<1>. SUFFICES ASSUME FiltersInv PROVE FiltersPromise
    OBVIOUS
<1>1. ClearedStays
    BY DEF FiltersInv, ClearedInv, ClearedStays
<1>2. SearchIsKept /\ PresetsAreKept
    BY DEF FiltersInv, SearchInv, PresetsInv
<1>3. ShownTimeIsEffective
    BY DEF FiltersInv, TimeInv, ShownTimeIsEffective
<1>4. RangeIsOrdered
    BY DEF FiltersInv, RunsForward, RangeIsOrdered
<1>. QED
    BY <1>1, <1>2, <1>3, <1>4 DEF FiltersPromise

\* LogFilterControlsComponent, TimeFilterDropdownComponent and FilterPresetsService:
\* cleared filters stay cleared, what is typed is searched for, the time shown is the
\* time asked for, a range runs forward, and the presets are those saved and not
\* deleted, whatever the order of typing, timers, presets and reloads.
THEOREM FiltersPromiseHolds == FiltersSpec => []FiltersPromise
<1>1. FiltersInit => FiltersInv
    BY FiltersStart
<1>2. FiltersInv /\ [FiltersNext]_filterVars => FiltersInv'
    BY FiltersStep
<1>. QED
    BY <1>1, <1>2, FiltersInvIsEnough, PTL DEF FiltersSpec

-----------------------------------------------------------------------------
(* The chart of the statistics.                                             *)

\* The only request under way is the one for the filters that are set.
AskingInv ==
    /\ stats \in Answers \cup {NoStats}
    /\ streamOn => asking \subseteq {<<filter, timeRange>>}
    /\ ~streamOn => asking = {}
    /\ StatsAreCurrent

MouseInv ==
    /\ selectionStart \in Pixels /\ selectionEnd \in Pixels /\ downAt \in Pixels
    /\ resets \in Nat
    /\ OverlayIsTheDrag

StatsInv == AskingInv /\ MouseInv /\ DragIsCovered

LEMMA ChartConstants ==
    /\ PlotLeft \in Nat /\ PlotRight \in Nat /\ ContainerWidth \in Nat
    /\ MinSelectionWidth \in Nat /\ MaxDrags \in Nat
    /\ PlotLeft < PlotRight /\ PlotRight <= ContainerWidth
BY StatsAssumption

\* The quotient of a number that k divisors exceed is below k.
LEMMA QuotientBelow ==
    ASSUME NEW a \in Int, NEW b \in Nat, b > 0, NEW k \in Int, a < k * b
    PROVE  a \div b < k
<1>1. PICK q \in Int : q = a \div b /\ q * b <= a
    BY Quotient
<1>2. ASSUME q >= k PROVE FALSE
  <2>1. q * b >= k * b
      BY <1>2
  <2>. QED
      BY <1>1, <2>1
<1>. QED
    BY <1>1, <1>2

\* Rounded up, the quotient of a number above k divisors is above k.
LEMMA CeilingAbove ==
    ASSUME NEW a \in Int, NEW b \in Nat, b > 0, NEW k \in Int, k * b < a
    PROVE  CeilDiv(a, b) > k
<1>1. (-a) < (-k) * b
    OBVIOUS
<1>2. (-a) \div b < -k /\ (-a) \div b \in Int
    BY <1>1, QuotientBelow, Quotient
<1>. QED
    BY <1>2 DEF CeilDiv

LEMMA CeilingOfWhole ==
    ASSUME NEW n \in Nat, NEW b \in Nat, b > 0
    PROVE  CeilDiv(b * n, b) >= n
<1>1. PICK q \in Int : q = (-(b * n)) \div b /\ q * b <= -(b * n)
    BY Quotient
<1>2. ASSUME q > -n PROVE FALSE
  <2>1. q >= (-n) + 1
      BY <1>2
  <2>2. q * b >= ((-n) + 1) * b
      BY <2>1
  <2>3. ((-n) + 1) * b = -(b * n) + b
      OBVIOUS
  <2>. QED
      BY <1>1, <2>2, <2>3
<1>. QED
    BY <1>1, <1>2 DEF CeilDiv

\* processTimeRangeSelection: the periods set are of those drawn, and a period
\* that the selection overlaps is one of them.
LEMMA SelectionCovers ==
    ASSUME NEW n \in Nat, n > 0, NEW i \in 0..(n - 1),
           selectionStart \in Pixels, selectionEnd \in Pixels
    PROVE  /\ SelectedRange(n)[1] < SelectedRange(n)[2] /\ SelectedRange(n)[2] <= n
           /\ /\ PlotLeft * n + i * (PlotRight - PlotLeft)
                     < n * Most(selectionStart, selectionEnd)
              /\ n * Least(selectionStart, selectionEnd)
                    < PlotLeft * n + (i + 1) * (PlotRight - PlotLeft)
              => SelectedRange(n)[1] <= i /\ i < SelectedRange(n)[2]
<1>. DEFINE width == PlotRight - PlotLeft
            low == Least(selectionStart, selectionEnd)
            high == Most(selectionStart, selectionEnd)
            startX == Most(0, low - PlotLeft)
            endX == Least(width, high - PlotLeft)
            start == (startX * n) \div width
            end == CeilDiv(endX * n, width)
            first == Most(0, Least(start, n - 1))
            last == Most(first, Least(end, n - 1))
<1>1. SelectedRange(n) = <<first, last + 1>>
    BY DEF SelectedRange
<1>2. width \in Nat /\ width > 0 /\ low \in Nat /\ high \in Nat
    BY ChartConstants DEF Pixels, Least, Most
<1>3. startX \in Nat /\ endX \in Int
    BY <1>2, ChartConstants DEF Least, Most
<1>4. start \in Int /\ end \in Int
  <2>1. startX * n \in Int /\ endX * n \in Int /\ -(endX * n) \in Int
      BY <1>3
  <2>. HIDE DEF startX, endX, width
  <2>. QED
      BY <1>2, <2>1, Quotient DEF CeilDiv
<1>5. first \in 0..(n - 1) /\ last \in first..(n - 1)
  <2>. HIDE DEF start, end
  <2>. QED
      BY <1>4 DEF Least, Most
<1>6. ASSUME n * low < PlotLeft * n + (i + 1) * width
      PROVE  first <= i
  <2>1. CASE startX = 0
    <3>1. start < 1
      <4>1. startX * n < 1 * width
          BY <1>2, <2>1
      <4>. QED
          BY <1>2, <1>3, <4>1, QuotientBelow
    <3>. QED
        BY <1>4, <3>1 DEF Least, Most
  <2>2. CASE startX = low - PlotLeft
    <3>1. startX * n = n * low - PlotLeft * n
        BY <1>2, <2>2, ChartConstants
    <3>2. startX * n < (i + 1) * width
        BY <1>2, <1>3, <1>6, <3>1, ChartConstants
    <3>3. start < i + 1
        BY <1>2, <1>3, <3>2, QuotientBelow
    <3>. HIDE DEF start
    <3>. QED
        BY <1>4, <3>3 DEF Least, Most
  <2>. QED
      BY <1>2, <2>1, <2>2, ChartConstants DEF Most
<1>7. ASSUME PlotLeft * n + i * width < n * high
      PROVE  i <= last
  <2>1. end > i \/ end >= n
    <3>1. CASE endX = width
        BY <1>2, <3>1, CeilingOfWhole
    <3>2. CASE endX = high - PlotLeft
      <4>1. endX * n = n * high - PlotLeft * n
          BY <1>2, <3>2, ChartConstants
      <4>2. i * width < endX * n
          BY <1>2, <1>3, <1>7, <4>1, ChartConstants
      <4>. QED
          BY <1>2, <1>3, <4>2, CeilingAbove
    <3>. QED
        BY <3>1, <3>2 DEF Least
  <2>. HIDE DEF end, start
  <2>. QED
      BY <1>4, <1>5, <2>1 DEF Least, Most
<1>. HIDE DEF first, last
<1>. QED
    BY <1>1, <1>5, <1>6, <1>7

LEMMA StatsStart == ASSUME StatsInit PROVE StatsInv
<1>1. AskingInv
    BY DEF StatsInit, AskingInv, StatsAreCurrent
<1>2. MouseInv
    BY ChartConstants DEF StatsInit, MouseInv, OverlayIsTheDrag, Pixels
<1>3. DragIsCovered
    BY DEF StatsInit, DragIsCovered, NoDrag
<1>. QED
    BY <1>1, <1>2, <1>3 DEF StatsInv

LEMMA UnchangedChart ==
    /\ AskingInv /\ UNCHANGED dataVars => AskingInv'
    /\ MouseInv /\ UNCHANGED mouseVars => MouseInv'
    /\ DragIsCovered /\ UNCHANGED <<dragged, reset>> => DragIsCovered'
<1>1. AskingInv /\ UNCHANGED dataVars => AskingInv'
    BY DEF AskingInv, StatsAreCurrent, dataVars
<1>2. MouseInv /\ UNCHANGED mouseVars => MouseInv'
    BY DEF MouseInv, OverlayIsTheDrag, mouseVars
<1>3. DragIsCovered /\ UNCHANGED <<dragged, reset>> => DragIsCovered'
    BY DEF DragIsCovered
<1>. QED
    BY <1>1, <1>2, <1>3

\* switchMap: what is asked for now replaces what was asked for before.
LEMMA AskingIsCurrent ==
    ASSUME AskingInv, Ask, UNCHANGED <<stats, streamOn>>
    PROVE  AskingInv'
BY DEF AskingInv, Ask, StatsAreCurrent

LEMMA SettingIsCurrent ==
    ASSUME AskingInv, NEW range, SetRange(range)
    PROVE  AskingInv'
<1>1. CASE range # timeRange
    BY <1>1, AskingIsCurrent DEF SetRange
<1>2. CASE range = timeRange
    BY <1>2, UnchangedChart DEF SetRange, dataVars
<1>. QED
    BY <1>1, <1>2

LEMMA ArrivingIsCurrent ==
    ASSUME AskingInv, NEW request \in asking, NEW a \in Answers, StatsArrive(request, a)
    PROVE  AskingInv'
BY DEF AskingInv, StatsArrive, StatsAreCurrent

LEMMA NoDragIsCovered ==
    ASSUME dragged' = NoDrag
    PROVE  DragIsCovered'
BY DEF DragIsCovered, NoDrag

LEMMA DraggingIsCovered ==
    ASSUME StatsInv, MouseUp
    PROVE  StatsInv'
<1>1. MouseInv'
    BY DEF StatsInv, MouseInv, OverlayIsTheDrag, MouseUp
<1>2. CASE SelectionWidth >= MinSelectionWidth /\ stats # NoStats
  <2>. DEFINE n == Len(stats)
  <2>1. n \in Nat /\ n > 0
      BY <1>2, StatsAssumption DEF StatsInv, AskingInv
  <2>2. AskingInv'
      BY <1>2, SettingIsCurrent DEF StatsInv, MouseUp
  <2>3. /\ dragged' = [from |-> downAt, to |-> selectionEnd, points |-> n,
                       set |-> SelectedRange(n)]
        /\ reset' = reset
      BY <1>2 DEF MouseUp
  <2>4. ~reset => selectionStart = downAt
      BY DEF StatsInv, MouseInv, OverlayIsTheDrag, MouseUp
  <2>5. \A i \in 0..(n - 1) :
            /\ SelectedRange(n)[1] < SelectedRange(n)[2] /\ SelectedRange(n)[2] <= n
            /\ /\ PlotLeft * n + i * (PlotRight - PlotLeft)
                     < n * Most(selectionStart, selectionEnd)
               /\ n * Least(selectionStart, selectionEnd)
                     < PlotLeft * n + (i + 1) * (PlotRight - PlotLeft)
               => SelectedRange(n)[1] <= i /\ i < SelectedRange(n)[2]
      BY <2>1, SelectionCovers DEF StatsInv, MouseInv
  <2>. HIDE DEF n
  <2>6. DragIsCovered'
      BY <2>3, <2>4, <2>5 DEF DragIsCovered
  <2>. QED
      BY <1>1, <2>2, <2>6 DEF StatsInv
<1>3. CASE ~(SelectionWidth >= MinSelectionWidth /\ stats # NoStats)
    BY <1>1, <1>3, UnchangedChart DEF StatsInv, MouseUp
<1>. QED
    BY <1>2, <1>3

LEMMA WithinTheContainer ==
    ASSUME NEW x \in (-1)..(ContainerWidth + 1)
    PROVE  Most(0, Least(x, ContainerWidth)) \in Pixels
BY ChartConstants DEF Most, Least, Pixels

LEMMA StatsStep == ASSUME StatsInv, [StatsNext]_statsVars PROVE StatsInv'
<1>. AskingInv /\ MouseInv /\ DragIsCovered
    BY DEF StatsInv
<1>1. ASSUME NEW f \in Filters, FilterSet(f) PROVE StatsInv'
    BY <1>1, AskingIsCurrent, UnchangedChart DEF FilterSet, StatsInv, mouseVars
<1>2. ASSUME NEW r \in asking, NEW a \in Answers, StatsArrive(r, a) PROVE StatsInv'
    BY <1>2, ArrivingIsCurrent, UnchangedChart DEF StatsArrive, StatsInv, mouseVars
<1>3. CASE StatsFail
  <2>1. AskingInv'
      BY <1>3 DEF StatsFail, AskingInv, StatsAreCurrent
  <2>. QED
      BY <1>3, <2>1, UnchangedChart DEF StatsFail, StatsInv, mouseVars
<1>4. ASSUME NEW x \in Pixels, MouseDown(x) PROVE StatsInv'
  <2>1. MouseInv'
      BY <1>4 DEF MouseDown, MouseInv, OverlayIsTheDrag
  <2>. QED
      BY <1>4, <2>1, NoDragIsCovered, UnchangedChart DEF MouseDown, StatsInv
<1>5. ASSUME NEW x \in (-1)..(ContainerWidth + 1), MouseMove(x) PROVE StatsInv'
  <2>1. MouseInv'
      BY <1>5, WithinTheContainer DEF MouseMove, MouseInv, OverlayIsTheDrag
  <2>. QED
      BY <1>5, <2>1, UnchangedChart DEF MouseMove, StatsInv
<1>6. CASE MouseUp
    BY <1>6, DraggingIsCovered
<1>7. CASE ResetFires
  <2>1. MouseInv'
    <3>1. 0 \in Pixels
        BY ChartConstants DEF Pixels
    <3>2. resets' \in Nat
        BY <1>7 DEF ResetFires, MouseInv
    <3>3. OverlayIsTheDrag'
        BY <1>7, Zenon DEF ResetFires, ClearSelection, OverlayIsTheDrag
    <3>. QED
        BY <1>7, <3>1, <3>2, <3>3 DEF ResetFires, ClearSelection, MouseInv
  <2>2. DragIsCovered'
      BY <1>7 DEF ResetFires, DragIsCovered
  <2>. QED
      BY <1>7, <2>1, <2>2, UnchangedChart DEF ResetFires, StatsInv
<1>8. CASE MouseLeave
  <2>1. MouseInv'
      BY <1>8, ChartConstants DEF MouseLeave, ClearSelection, MouseInv,
                                  OverlayIsTheDrag, Pixels
  <2>. QED
      BY <1>8, <2>1, UnchangedChart DEF MouseLeave, StatsInv
<1>9. ASSUME NEW i \in 0..(Len(stats) - 1), ChartClick(i) PROVE StatsInv'
  <2>1. AskingInv'
      BY <1>9, SettingIsCurrent DEF ChartClick
  <2>2. MouseInv'
      BY <1>9 DEF ChartClick, MouseInv, OverlayIsTheDrag
  <2>. QED
      BY <1>9, <2>1, <2>2, UnchangedChart DEF ChartClick, StatsInv
<1>10. CASE UNCHANGED statsVars
    BY <1>10, UnchangedChart DEF statsVars, dataVars, mouseVars, StatsInv
<1>. QED
    BY <1>1, <1>2, <1>3, <1>4, <1>5, <1>6, <1>7, <1>8, <1>9, <1>10 DEF StatsNext

\* A level that a period's counts do not have adds nothing to what is drawn of it.
LEMMA SeriesAlwaysAddUp == ASSUME stats \in Answers \cup {NoStats} PROVE SeriesAddUp
<1>1. Len(stats) \in Nat /\ \A i \in 1..Len(stats) :
                                \A level \in DOMAIN stats[i] : stats[i][level] \in Nat
    BY StatsAssumption DEF NoStats
<1> SUFFICES ASSUME NEW i \in 1..Len(stats)
             PROVE  /\ \A level \in Series : Len(GetData(stats)[level]) = Len(stats)
                    /\ SumFunction([level \in Series |-> GetData(stats)[level][i]])
                         = SumFunctionOnSet(stats[i], DOMAIN stats[i] \cap Series)
    BY DEF SeriesAddUp
<1> DEFINE drawn == [level \in Series |-> GetData(stats)[level][i]]
           known == Series \cap DOMAIN stats[i]
<1>2. /\ \A level \in Series \cap DOMAIN stats[i] : drawn[level] = stats[i][level]
      /\ \A level \in Series \ DOMAIN stats[i] : drawn[level] = 0
    BY <1>1 DEF GetData, DataSet
<1>3. /\ \A level \in Series : drawn[level] \in Int
      /\ \A level \in known : drawn[level] \in Int
    BY <1>1, <1>2
<1>4. IsFiniteSet(Series) /\ IsFiniteSet(known)
  <2>1. \A T : IsFiniteSet(T) => \A level : IsFiniteSet(T \cup {level})
      BY FS_AddElement
  <2>2. Series = {} \cup {"Debug"} \cup {"Information"} \cup {"Warning"} \cup {"Error"}
      BY DEF Series
  <2>3. IsFiniteSet(Series)
      BY <2>1, <2>2, FS_EmptySet
  <2>. QED
      BY <2>3, FS_Subset
<1>5. \A level \in Series : Len(GetData(stats)[level]) = Len(stats)
    BY <1>1 DEF GetData, DataSet
<1>. HIDE DEF drawn
<1>6. SumFunctionOnSet(drawn, Series) = SumFunctionOnSet(drawn, known)
    BY <1>2, <1>3, <1>4, SumLeavesOutZeros DEF known
<1>7. SumFunctionOnSet(drawn, known) = SumFunctionOnSet(stats[i], known)
    BY <1>2, <1>3, <1>4, SumsAgree DEF known
<1>8. SumFunction(drawn) = SumFunctionOnSet(drawn, Series)
    BY DEF SumFunction, drawn
<1>9. known = DOMAIN stats[i] \cap Series
    BY DEF known
<1>. QED
    BY <1>5, <1>6, <1>7, <1>8, <1>9 DEF drawn

\* LogStatsComponent and its chart: the figures are those of the filters set last
\* and the series add up to them, the overlay is what the mouse has drawn, and the
\* range a drag sets covers the periods under it, whatever requests and timers come
\* between.
THEOREM StatsPromiseHolds == StatsSpec => []StatsPromise
<1>1. StatsInit => StatsInv
    BY StatsStart
<1>2. StatsInv /\ [StatsNext]_statsVars => StatsInv'
    BY StatsStep
<1>3. StatsInv => StatsPromise
    BY SeriesAlwaysAddUp DEF StatsInv, AskingInv, MouseInv, StatsPromise
<1>. QED
    BY <1>1, <1>2, <1>3, PTL DEF StatsSpec

-----------------------------------------------------------------------------
(* The preferences, the memory and the times.                               *)

PreferencesAreRead ==
    /\ shown \in [Preferences -> UNION {ValuesOf[n] : n \in Preferences}]
    /\ storage \in [Preferences -> (UNION {ValuesOf[n] : n \in Preferences})
                                      \cup {Absent, Unknown}]
    /\ ShownIsKnown
    /\ \A n \in Preferences : storage[n] \in ValuesOf[n] \cup {Absent, Unknown}
    /\ chosen \subseteq Preferences
    /\ ChosenIsFoundAgain

LimitsInv ==
    /\ maxInMemory \in Nat /\ logCount \in Nat
    /\ MinLogs <= maxInMemory /\ maxInMemory <= TopLogs
    /\ maxStored = maxInMemory

LogPreferencesInv == PreferencesAreRead /\ LimitsInv

LEMMA DefaultIsAValue ==
    ASSUME NEW n \in Preferences
    PROVE  DefaultOf[n] \in ValuesOf[n]
BY PreferencesAssumption DEF DefaultOf, ValuesOf, Switch

LEMMA ValueIsKnown ==
    ASSUME NEW n \in Preferences, NEW v \in ValuesOf[n]
    PROVE  v # Absent /\ v # Unknown
BY PreferencesAssumption DEF ValuesOf, Switch, Absent, Unknown

LEMMA ReadIsAValue ==
    ASSUME NEW n \in Preferences, NEW found \in ValuesOf[n] \cup {Absent, Unknown}
    PROVE  Read(n, found) \in ValuesOf[n]
BY DefaultIsAValue DEF Read

LEMMA LimitConstants ==
    /\ MinLogs \in Nat \ {0} /\ TopLogs \in Nat \ {0} /\ MinLogs <= TopLogs
    /\ MaxLogs \subseteq Nat /\ LogCounts \subseteq Nat
    /\ Ages \subseteq Int /\ Offsets \subseteq Int
BY PreferencesAssumption

\* Whole multiples: a quotient reaches k when the dividend reaches k divisors.
LEMMA QuotientReaches ==
    ASSUME NEW a \in Nat, NEW b \in Nat, b > 0
    PROVE  (a \div b) > 90 <=> a >= 91 * b
<1>1. PICK q \in Nat : q = a \div b
    OBVIOUS
<1>2. q * b <= a /\ a < (q + 1) * b
    BY <1>1
<1>3. ASSUME q >= 91 PROVE a >= 91 * b
  <2>1. q * b >= 91 * b
      BY <1>3
  <2>. QED
      BY <1>2, <2>1
<1>4. ASSUME q <= 90 PROVE a < 91 * b
  <2>1. (q + 1) * b <= 91 * b
      BY <1>4
  <2>. QED
      BY <1>2, <2>1
<1>. QED
    BY <1>1, <1>3, <1>4

LEMMA UsageIsTold ==
    ASSUME NEW k \in Nat, NEW m \in Nat \ {0}, logCount = k, maxInMemory = m
    PROVE  UsageLevel = "critical" <=> 200 * logCount >= 181 * maxInMemory
<1>. DEFINE percentage == (200 * k + m) \div (2 * m)
<1>1. percentage > 90 <=> 200 * k + m >= 91 * (2 * m)
  <2>1. 200 * k + m \in Nat /\ 2 * m \in Nat /\ 2 * m > 0
      OBVIOUS
  <2>. QED
      BY <2>1, QuotientReaches
<1>2. percentage \in Int
    OBVIOUS
<1>3. MemoryUsage = IF percentage > 100 THEN 100 ELSE percentage
    BY DEF MemoryUsage
<1>. HIDE DEF percentage
<1>4. MemoryUsage > 90 <=> percentage > 90
    BY <1>2, <1>3
<1>5. UsageLevel = "critical" <=> MemoryUsage > 90
    BY DEF UsageLevel
<1>. QED
    BY <1>1, <1>4, <1>5

LEMMA StampsAgree ==
    ASSUME NEW age \in Int, NEW stamp \in StampsOf(age), Offsets \subseteq Int
    PROVE  ParseServerDate(stamp, zone) = age
BY DEF StampsOf, ParseServerDate

Sizes == [s |-> 1, m |-> 60, h |-> 3600, d |-> 86400]

\* What is shown of an age tells it to the unit.
Tells(r, age) ==
    r.unit \in DOMAIN Sizes =>
        /\ r.count > 0 /\ r.count * Sizes[r.unit] <= age
        /\ age < (r.count + 1) * Sizes[r.unit]

LEMMA SizesAre ==
    Sizes["s"] = 1 /\ Sizes["m"] = 60 /\ Sizes["h"] = 3600 /\ Sizes["d"] = 86400
BY DEF Sizes

LEMMA AgesAreWhole ==
    ASSUME NEW age \in Int
    PROVE  Tells(FormatRelative(age), age)
<1>. DEFINE minutes == age \div 60
            hours == minutes \div 60
            days == hours \div 24
<1>1. /\ minutes \in Int /\ 60 * minutes <= age /\ age < 60 * (minutes + 1)
      /\ hours \in Int /\ 60 * hours <= minutes /\ minutes < 60 * (hours + 1)
      /\ days \in Int /\ 24 * days <= hours /\ hours < 24 * (days + 1)
    OBVIOUS
<1>2. FormatRelative(age) =
          IF age <= 1 THEN [unit |-> "now", count |-> 0]
          ELSE IF age < 60 THEN [unit |-> "s", count |-> age]
          ELSE IF minutes < 60 THEN [unit |-> "m", count |-> minutes]
          ELSE IF hours < 24 THEN [unit |-> "h", count |-> hours]
          ELSE IF days < 30 THEN [unit |-> "d", count |-> days]
          ELSE [unit |-> "date", count |-> 0]
    BY DEF FormatRelative
<1>. HIDE DEF minutes, hours, days
<1>3. ASSUME age > 1 PROVE Tells([unit |-> "s", count |-> age], age)
  <2>1. age * 1 = age /\ (age + 1) * 1 = age + 1
      OBVIOUS
  <2>. QED
      BY <1>3, <2>1, SizesAre DEF Tells
<1>4. ASSUME age >= 60 PROVE Tells([unit |-> "m", count |-> minutes], age)
  <2>1. minutes > 0 /\ minutes * 60 <= age /\ age < (minutes + 1) * 60
      BY <1>1, <1>4
  <2>. QED
      BY <1>1, <2>1, SizesAre DEF Tells
<1>5. ASSUME minutes >= 60 PROVE Tells([unit |-> "h", count |-> hours], age)
  <2>1. hours > 0 /\ hours * 3600 <= age /\ age < (hours + 1) * 3600
      BY <1>1, <1>5
  <2>. QED
      BY <1>1, <2>1, SizesAre DEF Tells
<1>6. ASSUME hours >= 24 PROVE Tells([unit |-> "d", count |-> days], age)
  <2>1. days > 0 /\ days * 86400 <= age /\ age < (days + 1) * 86400
      BY <1>1, <1>6
  <2>. QED
      BY <1>1, <2>1, SizesAre DEF Tells
<1>7. /\ Tells([unit |-> "now", count |-> 0], age)
      /\ Tells([unit |-> "date", count |-> 0], age)
    BY DEF Tells, Sizes
<1>. QED
    BY <1>1, <1>2, <1>3, <1>4, <1>5, <1>6, <1>7

LEMMA TimesAreAlwaysRight == TimesAreRight
BY LimitConstants, StampsAgree, AgesAreWhole DEF TimesAreRight, Tells, Sizes

LEMMA PreferencesStart == ASSUME PreferencesInit PROVE LogPreferencesInv
<1>1. \A n \in Preferences : storage[n] \in {Absent, Unknown}
    BY DEF PreferencesInit
<1>2. storage \in [Preferences -> {Absent, Unknown}]
    BY DEF PreferencesInit
<1>3. shown = [n \in Preferences |-> Read(n, storage[n])] /\ chosen = {}
    BY DEF PreferencesInit
<1>4. \A n \in Preferences : shown[n] \in ValuesOf[n]
    BY <1>1, <1>3, ReadIsAValue
<1>5. PreferencesAreRead
    BY <1>1, <1>2, <1>3, <1>4 DEF PreferencesAreRead, ShownIsKnown, ChosenIsFoundAgain
<1>6. LimitsInv
    BY LimitConstants DEF PreferencesInit, LimitsInv
<1>. QED
    BY <1>5, <1>6 DEF LogPreferencesInv

LEMMA UnchangedPreferences ==
    /\ PreferencesAreRead /\ UNCHANGED <<shown, storage, chosen>> => PreferencesAreRead'
    /\ LimitsInv /\ UNCHANGED memoryVars => LimitsInv'
<1>1. PreferencesAreRead /\ UNCHANGED <<shown, storage, chosen>> => PreferencesAreRead'
    BY DEF PreferencesAreRead, ShownIsKnown, ChosenIsFoundAgain
<1>2. LimitsInv /\ UNCHANGED memoryVars => LimitsInv'
    BY DEF LimitsInv, memoryVars
<1>. QED
    BY <1>1, <1>2

LEMMA ChoosingIsKept ==
    ASSUME PreferencesAreRead, NEW n \in Preferences, NEW saved \in BOOLEAN,
           NEW v \in ValuesOf[n], SetPreference(n, v, saved)
    PROVE  PreferencesAreRead'
<1>. DEFINE Values == UNION {ValuesOf[m] : m \in Preferences}
<1>1. v \in Values
    OBVIOUS
<1>2. /\ shown' \in [Preferences -> Values]
      /\ storage' \in [Preferences -> Values \cup {Absent, Unknown}]
    BY <1>1 DEF PreferencesAreRead, SetPreference
<1>3. ASSUME NEW m \in Preferences
      PROVE  /\ shown'[m] = IF m = n THEN v ELSE shown[m]
             /\ storage'[m] = IF m = n /\ saved THEN v ELSE storage[m]
    BY DEF PreferencesAreRead, SetPreference
<1>4. /\ ShownIsKnown'
      /\ \A m \in Preferences : storage'[m] \in ValuesOf[m] \cup {Absent, Unknown}
    BY <1>3 DEF PreferencesAreRead, ShownIsKnown
<1>5. ChosenIsFoundAgain' /\ chosen' \subseteq Preferences
  <2>1. chosen' = IF saved THEN chosen \cup {n} ELSE chosen \ {n}
      BY DEF SetPreference
  <2>2. Read(n, v) = v
      BY ValueIsKnown DEF Read
  <2>. QED
      BY <1>3, <2>1, <2>2 DEF PreferencesAreRead, ChosenIsFoundAgain
<1>. QED
    BY <1>2, <1>4, <1>5 DEF PreferencesAreRead

LEMMA LoadingIsKept ==
    ASSUME LogPreferencesInv, LoadLogPage
    PROVE  LogPreferencesInv'
<1>1. \A n \in Preferences : Read(n, storage[n]) \in ValuesOf[n]
    BY ReadIsAValue DEF LogPreferencesInv, PreferencesAreRead
<1>2. /\ shown' = [n \in Preferences |-> Read(n, storage[n])]
      /\ UNCHANGED <<storage, chosen>>
    BY DEF LoadLogPage
<1>3. shown' \in [Preferences -> UNION {ValuesOf[n] : n \in Preferences}]
    BY <1>1, <1>2
<1>4. ShownIsKnown' /\ ChosenIsFoundAgain'
    BY <1>1, <1>2
       DEF LogPreferencesInv, PreferencesAreRead, ShownIsKnown, ChosenIsFoundAgain
<1>5. LimitsInv'
    BY DEF LogPreferencesInv, LimitsInv, LoadLogPage
<1>. QED
    BY <1>2, <1>3, <1>4, <1>5 DEF LogPreferencesInv, PreferencesAreRead

LEMMA PreferencesStep ==
    ASSUME LogPreferencesInv, [PreferencesNext]_preferenceVars
    PROVE  LogPreferencesInv'
<1>1. ASSUME NEW n \in Preferences, NEW saved \in BOOLEAN, NEW v \in ValuesOf[n],
             Choose(n, v, saved)
      PROVE  LogPreferencesInv'
    BY <1>1, ChoosingIsKept, UnchangedPreferences DEF LogPreferencesInv, Choose
<1>2. ASSUME NEW k \in MaxLogs, SetMaxLogs(k)
      PROVE  LogPreferencesInv'
  <2>1. LimitsInv'
      BY <1>2, LimitConstants DEF LogPreferencesInv, LimitsInv, SetMaxLogs
  <2>. QED
      BY <1>2, <2>1, UnchangedPreferences DEF LogPreferencesInv, SetMaxLogs
<1>3. ASSUME NEW k \in LogCounts, UpdateLogCount(k)
      PROVE  LogPreferencesInv'
  <2>1. LimitsInv'
      BY <1>3, LimitConstants DEF LogPreferencesInv, LimitsInv, UpdateLogCount
  <2>. QED
      BY <1>3, <2>1, UnchangedPreferences DEF LogPreferencesInv, UpdateLogCount
<1>4. ASSUME UNCHANGED <<shown, storage, chosen, memoryVars>>
      PROVE  LogPreferencesInv'
    BY <1>4, UnchangedPreferences DEF LogPreferencesInv
<1>. QED
    BY <1>1, <1>2, <1>3, <1>4, LoadingIsKept
       DEF PreferencesNext, preferenceVars, memoryVars, ToggleActionsMenu,
           ClickOutside, ToggleCategory

LEMMA LogPreferencesInvIsEnough == LogPreferencesInv => PreferencesPromise
<1>. SUFFICES ASSUME LogPreferencesInv PROVE PreferencesPromise
    OBVIOUS
<1>1. MaxLogsWithinLimits
  <2>1. maxInMemory \in Nat \ {0} /\ logCount \in Nat
      BY LimitConstants DEF LogPreferencesInv, LimitsInv
  <2>. QED
      BY <2>1, UsageIsTold DEF LogPreferencesInv, LimitsInv, MaxLogsWithinLimits
<1>. QED
    BY <1>1, TimesAreAlwaysRight
       DEF LogPreferencesInv, PreferencesAreRead, PreferencesPromise

\* The services behind the actions menu, and TimestampService: a value shown is one
\* the page knows, a choice that was saved is found again, the limits are kept and
\* the usage of the memory tells the truth, and so do the ages.
THEOREM PreferencesPromiseHolds == PreferencesSpec => []PreferencesPromise
<1>1. PreferencesInit => LogPreferencesInv
    BY PreferencesStart
<1>2. LogPreferencesInv /\ [PreferencesNext]_preferenceVars => LogPreferencesInv'
    BY PreferencesStep
<1>. QED
    BY <1>1, <1>2, LogPreferencesInvIsEnough, PTL DEF PreferencesSpec

-----------------------------------------------------------------------------
(* The log list: what a pause holds back and which groups are open.         *)

QueueInv == isLiveUpdatesEnabled \in BOOLEAN /\ QueueEndsWithPause

LEMMA QueueStep ==
    ASSUME QueueInv, [ViewportNext]_viewportVars PROVE QueueInv'
<1>. USE DEF QueueInv, QueueEndsWithPause
<1>1. CASE UNCHANGED <<isLiveUpdatesEnabled, queuedLogs>>
    BY <1>1
<1>2. CASE \E k \in 1..MaxBatch : PushArrives(k)
  <2>1. isLiveUpdatesEnabled' = isLiveUpdatesEnabled
      BY <1>2 DEF PushArrives
  <2>2. isLiveUpdatesEnabled => queuedLogs' = queuedLogs \/ queuedLogs' = <<>>
      BY <1>2 DEF PushArrives
  <2>. QED
      BY <2>1, <2>2
<1>3. CASE ToggleLiveUpdates
    BY <1>3 DEF ToggleLiveUpdates, ClearQueue
<1>4. ASSUME WriteLog \/ ReadFirstPage \/ ReadNextPage \/ FirstPageArrives \/ FirstPageFails
              \/ NextPageArrives \/ NextPageFails \/ LoadMore \/ UNCHANGED viewportVars
      PROVE UNCHANGED <<isLiveUpdatesEnabled, queuedLogs>>
    BY <1>4 DEF WriteLog, ReadFirstPage, ReadNextPage, FirstPageArrives, FirstPageFails,
                NextPageArrives, NextPageFails, LoadMore, viewportVars, options
<1>5. ASSUME \/ \E t \in TriStates : ChooseFilter(t)
             \/ ToggleGrouping
             \/ \E l \in LogLevels : OnlyLevel(l) \/ HideLevel(l)
             \/ \E i \in Logs : ToggleGroupExpansion(i)
      PROVE UNCHANGED <<isLiveUpdatesEnabled, queuedLogs>>
    BY <1>5 DEF ChooseFilter, ToggleGrouping, OnlyLevel, HideLevel, Select,
                ToggleGroupExpansion, options
<1>. QED
    BY <1>1, <1>2, <1>3, <1>4, <1>5 DEF ViewportNext

\* Lines that were held back while the list was paused never come in after it went on.
THEOREM QueueEndsWithPauseHolds == ViewportSpec => []QueueEndsWithPause
<1>1. ViewportInit => QueueInv
    BY DEF ViewportInit, QueueInv, QueueEndsWithPause
<1>2. QueueInv /\ [ViewportNext]_viewportVars => QueueInv'
    BY QueueStep
<1>3. QueueInv => QueueEndsWithPause
    BY DEF QueueInv
<1>. QED
    BY <1>1, <1>2, <1>3, PTL DEF ViewportSpec

\* A step leaves the list and its grouping as they are, or closes every group, or opens
\* or closes one that the list has.
LEMMA GroupsStep ==
    ASSUME OpenGroupsExist, [ViewportNext]_viewportVars PROVE OpenGroupsExist'
<1>. USE DEF OpenGroupsExist
<1>1. ASSUME UNCHANGED <<logs, isGroupingEnabled>> PROVE Groups(logs)' = Groups(logs)
    BY <1>1 DEF Groups
<1>2. CASE expanded' = {}
    BY <1>2
<1>3. CASE UNCHANGED <<logs, isGroupingEnabled, expanded>>
    BY <1>1, <1>3
<1>4. CASE \E i \in Logs : ToggleGroupExpansion(i)
  <2>1. PICK i \in Logs : ToggleGroupExpansion(i)
      BY <1>4
  <2>2. UNCHANGED <<logs, isGroupingEnabled>>
      BY <2>1 DEF ToggleGroupExpansion, options
  <2>3. i \in Groups(logs) /\ expanded' \subseteq expanded \cup {i}
      BY <2>1 DEF ToggleGroupExpansion
  <2>. QED
      BY <2>2, <2>3, <1>1
<1>5. ASSUME FirstPageArrives \/ NextPageArrives \/ ToggleGrouping
             \/ \E k \in 1..MaxBatch : PushArrives(k)
      PROVE expanded' = {} \/ UNCHANGED <<logs, isGroupingEnabled, expanded>>
    BY <1>5 DEF FirstPageArrives, NextPageArrives, ToggleGrouping, PushArrives, Regroup,
                options
<1>6. ASSUME WriteLog \/ ReadFirstPage \/ ReadNextPage \/ FirstPageFails \/ NextPageFails
             \/ LoadMore \/ ToggleLiveUpdates \/ UNCHANGED viewportVars
      PROVE UNCHANGED <<logs, isGroupingEnabled, expanded>>
    BY <1>6 DEF WriteLog, ReadFirstPage, ReadNextPage, FirstPageFails, NextPageFails,
                LoadMore, ToggleLiveUpdates, viewportVars, options
<1>7. ASSUME \/ \E t \in TriStates : ChooseFilter(t)
             \/ \E l \in LogLevels : OnlyLevel(l) \/ HideLevel(l)
      PROVE UNCHANGED <<logs, isGroupingEnabled, expanded>>
    BY <1>7 DEF ChooseFilter, OnlyLevel, HideLevel, Select, options
<1>. QED
    BY <1>2, <1>3, <1>4, <1>5, <1>6, <1>7 DEF ViewportNext

\* An open group is a group of the list as it is now, whatever page or line came in last.
THEOREM OpenGroupsExistHolds == ViewportSpec => []OpenGroupsExist
<1>1. ViewportInit => OpenGroupsExist
    BY DEF ViewportInit, OpenGroupsExist
<1>2. OpenGroupsExist /\ [ViewportNext]_viewportVars => OpenGroupsExist'
    BY GroupsStep
<1>. QED
    BY <1>1, <1>2, PTL DEF ViewportSpec

-----------------------------------------------------------------------------
(* The log list: how pages and pushed lines fit together.                   *)

Entries == [log : Logs, from : {"page", "push"}]
Delivered == stored - Len(pushed)
InOrder(s) == \A i, j \in 1..Len(s) : i < j => s[i].log >= s[j].log
Shows(s, n) == \E i \in 1..Len(s) : s[i].log = n
ReachesTo(s, n) == \E i \in 1..Len(s) : s[i].log <= n
Held(n) == \E i \in 1..Len(queuedLogs) : queuedLogs[i] = n

\* ns are the lines of all that come after the first lo, a page of them.
IsPage(ns, all, lo) ==
    /\ ns \in Seq(Logs)
    /\ \A i \in 1..Len(ns) : i <= PageSize /\ lo + i \in 1..Len(all) /\ ns[i] = all[lo + i]
    /\ \A k \in 1..Len(all) : lo < k /\ k <= lo + PageSize => k - lo \in 1..Len(ns)

\* What the pages in the list are pages of, while no filter is on its way.
Asked == Matching(tri, shownAt)
Settled == ~stale /\ firstPage = NoRequest /\ filtersOn

ViewportTyped ==
    /\ stored \in 0..Len(LevelOf)
    /\ pushed \in Seq(Logs) /\ Len(pushed) <= stored
    /\ \A i \in 1..Len(pushed) : pushed[i] = Delivered + i
    /\ tri \in TriStates /\ selectedLogLevel \subseteq LogLevels
    /\ page \in Nat \ {0} /\ turns \in 0..MaxTurns
    /\ logs \in Seq(Entries) /\ queuedLogs \in Seq(Logs)
    /\ maxLogsInMemory \in Nat \ {0}
    /\ {filtersOn, monitoring, isLiveUpdatesEnabled, stale, missed} \subseteq BOOLEAN

Requests == [page : Nat, tri : TriStates \cup {NoRequest.tri}, read : BOOLEAN, at : Nat,
             answer : Seq(Logs)]
RequestsTyped == firstPage \in Requests /\ nextPage \in Requests

FirstPageInv ==
    firstPage # NoRequest =>
       /\ firstPage.page = 1 /\ firstPage.tri = tri /\ filtersOn
       /\ firstPage.read => /\ firstPage.at \in 0..stored
                            /\ IsPage(firstPage.answer, Matching(tri, firstPage.at), 0)
                            /\ ~missed => Delivered <= firstPage.at

NextPageInv ==
    /\ nextPage.page \in Nat
    /\ nextPage.read =>
          /\ nextPage.page > 0 /\ nextPage.at \in 0..stored
          /\ IsPage(nextPage.answer, Matching(nextPage.tri, nextPage.at),
                    (nextPage.page - 1) * PageSize)

OrderInv == ~stale => InOrder(logs)

PagesInv ==
    Settled =>
       /\ lastPage \in Nat \ {0} /\ shownAt \in 0..stored
       /\ logs = <<>> => Len(Asked) = 0
       /\ \A i \in 1..Len(logs) : logs[i].log <= shownAt \/ logs[i].log <= Delivered
       /\ \A i \in 1..Len(logs) : logs[i].from = "page" => Admits(tri, logs[i].log)
       /\ \A i \in 1..Len(logs), k \in 1..Len(Asked) :
             k > lastPage * PageSize => logs[i].log >= Asked[k]
       /\ \/ Len(logs) >= maxLogsInMemory
          \/ \A k \in 1..Len(Asked) : k <= lastPage * PageSize => Shows(logs, Asked[k])

GapsInv ==
    Settled /\ ~missed =>
       \A n \in Logs : /\ Admits(tri, n) /\ ReachesTo(logs, n)
                       /\ (n <= shownAt \/ n <= Delivered)
                       => Shows(logs, n) \/ Held(n)

LEMMA ViewportConstants ==
    /\ Len(LevelOf) \in Nat /\ PageSize \in Nat /\ PageSize > 0
    /\ \A n \in Logs : n \in Nat /\ n > 0 /\ n <= Len(LevelOf)
    /\ \A n \in Nat : n > 0 /\ n <= Len(LevelOf) => n \in Logs
    /\ \A p \in Nat : p * PageSize \in Nat /\ (p + 1) * PageSize = p * PageSize + PageSize
<1>1. Len(LevelOf) \in Nat /\ PageSize \in Nat /\ PageSize > 0
    BY ViewportAssumption
<1>2. \A p, q \in Nat : p * q \in Nat /\ (p + 1) * q = p * q + q
    OBVIOUS
<1>. QED
    BY <1>1, <1>2 DEF Logs

\* sortLogs: the same lines, the newest first.
LEMMA SortLogsFacts ==
    ASSUME NEW ns \in Seq(Logs)
    PROVE  /\ SortLogs(ns) \in Seq(Logs) /\ Len(SortLogs(ns)) = Len(ns)
           /\ \A k \in 1..Len(ns) : \E i \in 1..Len(ns) : SortLogs(ns)[k] = ns[i]
           /\ \A i \in 1..Len(ns) : \E k \in 1..Len(ns) : SortLogs(ns)[k] = ns[i]
           /\ \A k, l \in 1..Len(ns) : k < l => SortLogs(ns)[k] >= SortLogs(ns)[l]
           /\ (\A i, j \in 1..Len(ns) : ns[i] = ns[j] => i = j) =>
                 \A k, l \in 1..Len(ns) : k < l => SortLogs(ns)[k] > SortLogs(ns)[l]
<1> DEFINE n == Len(ns)
           R == {x \in (DOMAIN ns) \X (DOMAIN ns) :
                    ns[x[1]] > ns[x[2]] \/ (ns[x[1]] = ns[x[2]] /\ x[1] < x[2])}
<1>1. n \in Nat /\ DOMAIN ns = 1..n /\ \A i \in 1..n : ns[i] \in Nat /\ i \in Nat
    BY ViewportConstants
<1>2. \A i, j \in 1..n :
         <<i, j>> \in R <=> ns[i] > ns[j] \/ (ns[i] = ns[j] /\ i < j)
    BY <1>1
<1>3. SortLogs(ns) = Arranged(ns, R)
    BY DEF SortLogs
<1>. HIDE DEF R
<1>4. StrictOrder(R, 1..Len(ns))
  <2>1. \A x \in 1..n : <<x, x>> \notin R
      BY <1>1, <1>2
  <2>2. \A x, y \in 1..n : x # y => <<x, y>> \in R \/ <<y, x>> \in R
      BY <1>1, <1>2
  <2>3. \A x, y, z \in 1..n : <<x, y>> \in R /\ <<y, z>> \in R => <<x, z>> \in R
      BY <1>1, <1>2
  <2>. QED
      BY <2>1, <2>2, <2>3 DEF StrictOrder
<1>5. SortLogs(ns) \in Seq(Logs) /\ Len(SortLogs(ns)) = n
    BY <1>3, <1>4, ArrangedFacts
<1>6. PICK at : Ordering(Len(ns), R, at)
                /\ \A k \in 1..Len(ns) : SortLogs(ns)[k] = ns[at[k]]
    BY <1>3, <1>4, ArrangedFacts
<1>. HIDE DEF n
<1>7. \A k \in 1..n : at[k] \in 1..n
    BY <1>6 DEF Ordering, n
<1>8. \A k, l \in 1..n : k < l =>
         \/ ns[at[k]] > ns[at[l]]
         \/ ns[at[k]] = ns[at[l]] /\ at[k] < at[l]
    BY <1>2, <1>6, <1>7 DEF Ordering, n
<1>9. ASSUME NEW k \in 1..n, NEW l \in 1..n, k < l
      PROVE  SortLogs(ns)[k] >= SortLogs(ns)[l]
  <2>1. ns[at[k]] \in Nat /\ ns[at[l]] \in Nat
      BY <1>1, <1>7
  <2>2. ns[at[k]] > ns[at[l]] \/ ns[at[k]] = ns[at[l]]
      BY <1>8, <1>9
  <2>3. SortLogs(ns)[k] = ns[at[k]] /\ SortLogs(ns)[l] = ns[at[l]]
      BY <1>6 DEF n
  <2>. QED
      BY <2>1, <2>2, <2>3
<1>10. ASSUME \A i, j \in 1..n : ns[i] = ns[j] => i = j,
              NEW k \in 1..n, NEW l \in 1..n, k < l
       PROVE  SortLogs(ns)[k] > SortLogs(ns)[l]
  <2>0. at[k] \in 1..n /\ at[l] \in 1..n
      BY <1>7
  <2>1. at[k] < at[l] => at[k] # at[l]
      BY <1>1, <2>0
  <2>2. ns[at[k]] > ns[at[l]]
      BY <1>8, <1>10, <2>0, <2>1
  <2>3. SortLogs(ns)[k] = ns[at[k]] /\ SortLogs(ns)[l] = ns[at[l]]
      BY <1>6 DEF n
  <2>. QED
      BY <2>2, <2>3
<1>11. \A k \in 1..n : \E i \in 1..n : SortLogs(ns)[k] = ns[i]
    BY <1>6, <1>7 DEF n
<1>12. \A i \in 1..n : \E k \in 1..n : SortLogs(ns)[k] = ns[i]
  <2>1. \A i \in 1..n : \E k \in 1..n : at[k] = i
      BY <1>6, Zenon DEF Ordering, n
  <2>2. \A k \in 1..n : SortLogs(ns)[k] = ns[at[k]]
      BY <1>6, Zenon DEF n
  <2>. SUFFICES ASSUME NEW i \in 1..n PROVE \E k \in 1..n : SortLogs(ns)[k] = ns[i]
      OBVIOUS
  <2>3. PICK k \in 1..n : at[k] = i
      BY <2>1
  <2>. QED
      BY <2>2, <2>3
<1>. QED
    BY <1>5, <1>9, <1>10, <1>11, <1>12 DEF n

\* The log endpoint: each line that the filter admits once, the newest first.
LEMMA MatchingFacts ==
    ASSUME NEW t, NEW a \in 0..Len(LevelOf)
    PROVE  /\ Matching(t, a) \in Seq(Logs) /\ Len(Matching(t, a)) \in Nat
           /\ \A k \in 1..Len(Matching(t, a)) :
                 /\ Matching(t, a)[k] \in Logs /\ Matching(t, a)[k] <= a
                 /\ Admits(t, Matching(t, a)[k])
           /\ \A n \in Logs : n <= a /\ Admits(t, n) =>
                 \E k \in 1..Len(Matching(t, a)) : Matching(t, a)[k] = n
           /\ \A k, l \in 1..Len(Matching(t, a)) :
                 k < l => Matching(t, a)[k] > Matching(t, a)[l]
<1> DEFINE S == {n \in 1..a : Admits(t, n)}
           c == Cardinality(S)
           ns == SetToSeq(S)
<1>0. a \in Nat /\ a <= Len(LevelOf)
    BY ViewportConstants
<1>1. S \in SUBSET (1..a) /\ S \in SUBSET Logs /\ IsFiniteSet(1..a)
  <2>1. IsFiniteSet(1..a)
      BY <1>0, FS_Interval
  <2>. QED
      BY <1>0, <2>1, ViewportConstants DEF Logs
<1>2. \A n : n \in S <=> n \in Logs /\ n <= a /\ Admits(t, n)
    BY <1>0, ViewportConstants DEF Logs
<1>3. Matching(t, a) = SortLogs(ns)
    BY DEF Matching
<1>. HIDE DEF S
<1>4. IsFiniteSet(S)
    BY <1>1, FS_Subset
<1>5. /\ c \in Nat /\ ns \in [1..c -> S]
      /\ \A i, j \in 1..c : ns[i] = ns[j] => i = j
      /\ \A x \in S : \E i \in 1..c : ns[i] = x
    BY <1>4, SetToSeqFacts
<1>. HIDE DEF c, ns
<1>6. ns \in Seq(Logs) /\ Len(ns) = c /\ \A i \in 1..c : ns[i] \in S
  <2>1. \A i \in 1..c : ns[i] \in S /\ ns[i] \in Logs
      BY <1>1, <1>5
  <2>2. ns = [i \in 1..c |-> ns[i]]
      BY <1>5
  <2>. QED
      BY <1>5, <2>1, <2>2
<1>7. /\ SortLogs(ns) \in Seq(Logs) /\ Len(SortLogs(ns)) = c
      /\ \A k \in 1..c : \E i \in 1..c : SortLogs(ns)[k] = ns[i]
      /\ \A i \in 1..c : \E k \in 1..c : SortLogs(ns)[k] = ns[i]
      /\ \A k, l \in 1..c : k < l => SortLogs(ns)[k] > SortLogs(ns)[l]
    BY <1>5, <1>6, SortLogsFacts
<1>8. \A k \in 1..c : SortLogs(ns)[k] \in S
    BY <1>6, <1>7
<1>9. \A n \in S : \E k \in 1..c : SortLogs(ns)[k] = n
    BY <1>5, <1>7
<1>10. \A k \in 1..c : SortLogs(ns)[k] \in Logs /\ SortLogs(ns)[k] <= a
                        /\ Admits(t, SortLogs(ns)[k])
    BY <1>2, <1>8
<1>11. \A n \in Logs : n <= a /\ Admits(t, n) => \E k \in 1..c : SortLogs(ns)[k] = n
    BY <1>2, <1>9
<1>. QED
    BY <1>3, <1>5, <1>7, <1>10, <1>11

LEMMA PageFacts ==
    ASSUME NEW t, stored \in 0..Len(LevelOf), NEW p \in Nat, p > 0
    PROVE  IsPage(PageOf(t, p), Matching(t, stored), (p - 1) * PageSize)
<1> DEFINE all == Matching(t, stored)
           m == Len(all)
           lo == (p - 1) * PageSize
           hi == Min({p * PageSize, m})
<1>1. all \in Seq(Logs) /\ m \in Nat
    BY MatchingFacts
<1>2. lo \in Nat /\ p * PageSize = lo + PageSize /\ PageSize \in Nat
  <2>1. p - 1 \in Nat /\ (p - 1) + 1 = p
      OBVIOUS
  <2>. QED
      BY <2>1, ViewportConstants
<1>3. PageOf(t, p) = SubSeq(all, lo + 1, hi)
    BY DEF PageOf
<1>4. hi \in {lo + PageSize, m} /\ hi <= lo + PageSize /\ hi <= m
  <2>1. {p * PageSize, m} \in SUBSET Nat /\ {p * PageSize, m} # {}
      BY <1>1, <1>2
  <2>2. hi \in {p * PageSize, m} /\ \A x \in {p * PageSize, m} : hi <= x
      BY <2>1, MinIsLeast
  <2>. QED
      BY <1>2, <2>2
<1>. HIDE DEF all, m, lo, hi
<1>5. hi \in Nat
    BY <1>1, <1>2, <1>4
<1>6. /\ SubSeq(all, lo + 1, hi) \in Seq(Logs)
      /\ Len(SubSeq(all, lo + 1, hi)) = IF lo + 1 <= hi THEN hi - lo ELSE 0
      /\ \A i \in 1..(hi - lo) : SubSeq(all, lo + 1, hi)[i] = all[lo + i]
  <2>1. CASE lo + 1 <= hi
    <3>1. \A i \in (lo + 1)..hi : all[i] \in Logs
        BY <1>1, <1>2, <1>4, <1>5 DEF m
    <3>2. SubSeq(all, lo + 1, hi) = [i \in 1..(hi - lo) |-> all[lo + i]]
        BY <1>1, <1>2, <1>5, <2>1
    <3>3. \A i \in 1..(hi - lo) : all[lo + i] \in Logs
      <4>1. \A i \in 1..(hi - lo) : lo + i \in (lo + 1)..hi
          BY <1>2, <1>5
      <4>. QED
          BY <3>1, <4>1
    <3>4. hi - lo \in Nat
        BY <1>2, <1>5, <2>1
    <3>5. \A m1 \in Nat : \A g \in [1..m1 -> Logs] : g \in Seq(Logs) /\ Len(g) = m1
        OBVIOUS
    <3>6. SubSeq(all, lo + 1, hi) \in [1..(hi - lo) -> Logs]
        BY <3>2, <3>3
    <3>7. SubSeq(all, lo + 1, hi) \in Seq(Logs) /\ Len(SubSeq(all, lo + 1, hi)) = hi - lo
        BY <3>4, <3>5, <3>6, Zenon
    <3>. QED
        BY <2>1, <3>2, <3>7
  <2>2. CASE ~(lo + 1 <= hi)
    <3>1. SubSeq(all, lo + 1, hi) = <<>>
        BY <1>1, <1>2, <1>5, <2>2
    <3>2. \A i \in 1..(hi - lo) : FALSE
        BY <1>2, <1>5, <2>2
    <3>3. <<>> \in Seq(Logs) /\ Len(<<>>) = 0
        OBVIOUS
    <3>4. SubSeq(all, lo + 1, hi) \in Seq(Logs) /\ Len(SubSeq(all, lo + 1, hi)) = 0
        BY <3>1, <3>3, Zenon
    <3>. QED
        BY <2>2, <3>2, <3>4
  <2>. QED
      BY <2>1, <2>2
<1>7. ASSUME NEW i \in 1..Len(PageOf(t, p))
      PROVE  i <= PageSize /\ lo + i \in 1..m /\ PageOf(t, p)[i] = all[lo + i]
    BY <1>1, <1>2, <1>3, <1>4, <1>5, <1>6
<1>8. ASSUME NEW k \in 1..m, lo < k, k <= lo + PageSize PROVE k - lo \in 1..Len(PageOf(t, p))
  <2>1. k <= hi /\ lo + 1 <= hi
      BY <1>1, <1>2, <1>4, <1>5, <1>8
  <2>2. Len(PageOf(t, p)) = hi - lo
      BY <1>3, <1>6, <2>1
  <2>. QED
      BY <1>1, <1>2, <1>5, <1>8, <2>1, <2>2
<1>. QED
    BY <1>3, <1>6, <1>7, <1>8 DEF IsPage, all, m, lo

-----------------------------------------------------------------------------
(* What keeps a list in order: a batch before it, a page behind it, a limit.*)

LEMMA MatchingIsFixed ==
    ASSUME UNCHANGED <<tri, shownAt>> PROVE Asked' = Asked /\ \A n : Admits(tri', n) <=> Admits(tri, n)
BY DEF Asked, Matching, Admits, SortLogs

LEMMA LimitFacts ==
    ASSUME maxLogsInMemory \in Nat \ {0}, NEW s \in Seq(Entries)
    PROVE  /\ ApplyMemoryLimit(s) \in Seq(Entries)
           /\ Len(ApplyMemoryLimit(s)) \in Nat /\ Len(ApplyMemoryLimit(s)) <= Len(s)
           /\ \A i \in 1..Len(ApplyMemoryLimit(s)) : ApplyMemoryLimit(s)[i] = s[i]
           /\ \/ Len(ApplyMemoryLimit(s)) = maxLogsInMemory
              \/ Len(ApplyMemoryLimit(s)) = Len(s) /\ Len(s) < maxLogsInMemory
<1> DEFINE m == Len(s)
           c == Min({m, maxLogsInMemory})
<1>1. m \in Nat /\ \A i \in 1..m : s[i] \in Entries
    OBVIOUS
<1>2. /\ c \in Nat /\ c <= m
      /\ c = maxLogsInMemory \/ (c = m /\ m < maxLogsInMemory)
  <2>1. {m, maxLogsInMemory} \in SUBSET Nat /\ {m, maxLogsInMemory} # {}
      BY <1>1
  <2>2. c \in {m, maxLogsInMemory} /\ \A x \in {m, maxLogsInMemory} : c <= x
      BY <2>1, MinIsLeast
  <2>. QED
      BY <1>1, <2>2
<1>3. ApplyMemoryLimit(s) = SubSeq(s, 1, c)
    BY DEF ApplyMemoryLimit
<1>. HIDE DEF c
<1>4. SubSeq(s, 1, c) \in Seq(Entries) /\ Len(SubSeq(s, 1, c)) = c
      /\ \A i \in 1..c : SubSeq(s, 1, c)[i] = s[i]
    BY <1>1, <1>2
<1>. QED
    BY <1>2, <1>3, <1>4

\* The limit leaves out only what is older than what stays.
LEMMA LimitKeeps ==
    ASSUME maxLogsInMemory \in Nat \ {0}, NEW s \in Seq(Entries), InOrder(s), NEW n \in Logs,
           Shows(s, n), ReachesTo(ApplyMemoryLimit(s), n)
    PROVE  Shows(ApplyMemoryLimit(s), n)
<1> DEFINE r == ApplyMemoryLimit(s)
<1>1. /\ Len(r) \in Nat /\ Len(r) <= Len(s) /\ \A i \in 1..Len(r) : r[i] = s[i]
    BY LimitFacts
<1>. HIDE DEF r
<1>2. PICK i \in 1..Len(r) : r[i].log <= n
    BY DEF ReachesTo, r
<1>3. PICK j \in 1..Len(s) : s[j].log = n
    BY DEF Shows
<1>4. s[i].log \in Nat /\ r[i] = s[i] /\ i \in 1..Len(s)
  <2>1. i \in 1..Len(s) /\ r[i] = s[i]
      BY <1>1
  <2>2. s[i] \in Entries
      BY <2>1
  <2>. QED
      BY <2>1, <2>2, ViewportConstants DEF Entries
<1>5. CASE j \in 1..Len(r)
    BY <1>1, <1>3, <1>5 DEF Shows, r
<1>6. CASE j \notin 1..Len(r)
  <2>1. i < j
      BY <1>1, <1>6
  <2>2. s[i].log >= n
      BY <1>3, <1>4, <2>1 DEF InOrder
  <2>3. r[i].log = n
      BY <1>2, <1>4, <2>2, ViewportConstants
  <2>. QED
      BY <2>3 DEF Shows, r
<1>. QED
    BY <1>5, <1>6

\* deduplicateLogs keeps what is newer than the list, in order.
LEMMA KeptFacts ==
    ASSUME NEW ns \in Seq(Logs), NEW old \in Seq(Entries)
    PROVE  LET fresh == DeduplicateLogs(SortLogs(ns), old) IN
           /\ fresh \in Seq(Logs) /\ Len(fresh) \in Nat
           /\ \A i, j \in 1..Len(fresh) : i < j => fresh[i] >= fresh[j]
           /\ \A i \in 1..Len(fresh) : \E j \in 1..Len(ns) : fresh[i] = ns[j]
           /\ old # <<>> => \A i \in 1..Len(fresh) : fresh[i] >= old[1].log
           /\ \A j \in 1..Len(ns) :
                 old = <<>> \/ ns[j] > old[1].log => \E i \in 1..Len(fresh) : fresh[i] = ns[j]
<1> DEFINE fresh == DeduplicateLogs(SortLogs(ns), old)
           sorted == SortLogs(ns)
           K == {i \in DOMAIN sorted : \/ sorted[i] > old[1].log
                                       \/ sorted[i] = old[1].log /\ old[1].from = "page"}
<1>1. /\ sorted \in Seq(Logs) /\ Len(sorted) = Len(ns)
      /\ \A k \in 1..Len(ns) : \E i \in 1..Len(ns) : sorted[k] = ns[i]
      /\ \A i \in 1..Len(ns) : \E k \in 1..Len(ns) : sorted[k] = ns[i]
      /\ \A k, l \in 1..Len(ns) : k < l => sorted[k] >= sorted[l]
    BY SortLogsFacts
<1>2. CASE old = <<>>
  <2>1. fresh = sorted
      BY <1>2 DEF DeduplicateLogs
  <2>. HIDE DEF fresh, sorted
  <2>. QED
      BY <1>1, <1>2, <2>1 DEF fresh
<1>3. CASE old # <<>>
  <2>1. fresh = Picked(sorted, K)
      BY <1>3 DEF DeduplicateLogs
  <2>. HIDE DEF fresh, sorted
  <2>2. DOMAIN sorted = 1..Len(ns) /\ Len(ns) \in Nat /\ \A i \in 1..Len(ns) : sorted[i] \in Nat
      BY <1>1, ViewportConstants, SMTT(30)
  <2>3. old[1].log \in Nat
    <3>1. old[1] \in Entries
        BY <1>3
    <3>. QED
        BY <3>1, ViewportConstants DEF Entries
  <2>4. K \in SUBSET (1..Len(ns)) /\ \A i \in K : sorted[i] >= old[1].log
      BY <2>2, <2>3
  <2>5. \A i \in 1..Len(ns) : sorted[i] > old[1].log => i \in K
      BY <2>2
  <2>. HIDE DEF K
  <2>6. IsFiniteSet(K) /\ K \in SUBSET Int /\ \A i \in K : sorted[i] \in Logs
    <3>1. IsFiniteSet(1..Len(ns))
        BY <2>2, FS_Interval
    <3>2. IsFiniteSet(K)
        BY <2>4, <3>1, FS_Subset
    <3>. QED
        BY <1>1, <2>4, <3>2
  <2>7. /\ fresh \in Seq(Logs) /\ Len(fresh) = Cardinality(K)
        /\ \A k \in 1..Cardinality(K) : fresh[k] = sorted[Nth(K, k)]
      BY <2>1, <2>6, PickedFacts
  <2>8. /\ \A k \in 1..Cardinality(K) : Nth(K, k) \in K
        /\ \A k, l \in 1..Cardinality(K) : k < l => Nth(K, k) < Nth(K, l)
        /\ \A i \in K : /\ RankIn(K, i) \in 1..Cardinality(K)
                         /\ Nth(K, RankIn(K, i)) = i
        /\ Cardinality(K) \in Nat
      BY <2>6, NthFacts
  <2>9. ASSUME NEW i \in 1..Len(fresh), NEW j \in 1..Len(fresh), i < j
        PROVE  fresh[i] >= fresh[j]
    <3>1. Nth(K, i) \in 1..Len(ns) /\ Nth(K, j) \in 1..Len(ns) /\ Nth(K, i) < Nth(K, j)
        BY <2>4, <2>7, <2>8, <2>9
    <3>2. fresh[i] = sorted[Nth(K, i)] /\ fresh[j] = sorted[Nth(K, j)]
        BY <2>7
    <3>. QED
        BY <1>1, <3>1, <3>2
  <2>10. ASSUME NEW i \in 1..Len(fresh)
         PROVE  fresh[i] >= old[1].log /\ \E j \in 1..Len(ns) : fresh[i] = ns[j]
    <3>1. Nth(K, i) \in K /\ Nth(K, i) \in 1..Len(ns) /\ fresh[i] = sorted[Nth(K, i)]
        BY <2>4, <2>7, <2>8
    <3>. QED
        BY <1>1, <2>4, <3>1
  <2>11. ASSUME NEW j \in 1..Len(ns), ns[j] > old[1].log
         PROVE  \E i \in 1..Len(fresh) : fresh[i] = ns[j]
    <3>1. PICK k \in 1..Len(ns) : sorted[k] = ns[j]
        BY <1>1
    <3>2. k \in K
        BY <2>5, <2>11, <3>1
    <3>3. RankIn(K, k) \in 1..Len(fresh) /\ fresh[RankIn(K, k)] = ns[j]
        BY <2>7, <2>8, <3>1, <3>2
    <3>. QED
        BY <3>3
  <2>. QED
      BY <1>3, <2>7, <2>8, <2>9, <2>10, <2>11 DEF fresh
<1>. QED
    BY <1>2, <1>3

LEMMA EntriesAre ==
    ASSUME NEW ns \in Seq(Logs)
    PROVE  /\ Paged(ns) \in Seq(Entries) /\ Len(Paged(ns)) = Len(ns)
           /\ \A i \in 1..Len(ns) : Paged(ns)[i].log = ns[i] /\ Paged(ns)[i].from = "page"
           /\ Pushed(ns) \in Seq(Entries) /\ Len(Pushed(ns)) = Len(ns)
           /\ \A i \in 1..Len(ns) : Pushed(ns)[i].log = ns[i] /\ Pushed(ns)[i].from = "push"
<1>1. Len(ns) \in Nat /\ \A i \in 1..Len(ns) : ns[i] \in Logs
    OBVIOUS
<1>2. \A m \in Nat : \A g \in [1..m -> Entries] : g \in Seq(Entries) /\ Len(g) = m
    OBVIOUS
<1>3. Paged(ns) \in [1..Len(ns) -> Entries] /\ Pushed(ns) \in [1..Len(ns) -> Entries]
    BY <1>1 DEF Paged, Pushed, Entries
<1>4. /\ Paged(ns) \in Seq(Entries) /\ Len(Paged(ns)) = Len(ns)
      /\ Pushed(ns) \in Seq(Entries) /\ Len(Pushed(ns)) = Len(ns)
    BY <1>1, <1>2, <1>3, Zenon
<1>5. \A i \in 1..Len(ns) : /\ Paged(ns)[i] = [log |-> ns[i], from |-> "page"]
                            /\ Pushed(ns)[i] = [log |-> ns[i], from |-> "push"]
    BY DEF Paged, Pushed
<1>6. ASSUME NEW i \in 1..Len(ns)
      PROVE  /\ Paged(ns)[i].log = ns[i] /\ Paged(ns)[i].from = "page"
             /\ Pushed(ns)[i].log = ns[i] /\ Pushed(ns)[i].from = "push"
  <2>1. Paged(ns)[i] = [log |-> ns[i], from |-> "page"]
      BY <1>5
  <2>2. Pushed(ns)[i] = [log |-> ns[i], from |-> "push"]
      BY <1>5
  <2>. QED
      BY <2>1, <2>2
<1>. QED
    BY <1>4, <1>6

-----------------------------------------------------------------------------
(* The steps of the log list.                                               *)

LinesOf(k) == SubSeq(pushed, 1, k)
BatchOf(k) == Picked(LinesOf(k), {i \in DOMAIN LinesOf(k) : Selected(LinesOf(k)[i])})

LEMMA PickedLogs ==
    ASSUME NEW s, NEW K \in SUBSET Int, IsFiniteSet(K), \A i \in K : s[i] \in Logs
    PROVE  /\ Picked(s, K) \in Seq(Logs)
           /\ Len(Picked(s, K)) = Cardinality(K)
           /\ \A k \in 1..Cardinality(K) : Picked(s, K)[k] = s[Nth(K, k)]
<1> DEFINE n == Cardinality(K)
<1>1. n \in Nat /\ \A k \in 1..n : Nth(K, k) \in K
    BY NthFacts
<1>2. Picked(s, K) = [k \in 1..n |-> s[Nth(K, k)]]
    BY DEF Picked
<1>. HIDE DEF n
<1>3. [k \in 1..n |-> s[Nth(K, k)]] \in [1..n -> Logs]
    BY <1>1
<1>4. \A m \in Nat : \A g \in [1..m -> Logs] : g \in Seq(Logs) /\ Len(g) = m
    OBVIOUS
<1>5. Picked(s, K) \in Seq(Logs) /\ Len(Picked(s, K)) = n
    BY <1>1, <1>2, <1>3, <1>4, Zenon
<1>6. \A k \in 1..n : Picked(s, K)[k] = s[Nth(K, k)]
    BY <1>2
<1>. QED
    BY <1>5, <1>6 DEF n

\* Lines are pushed in the order in which they were written, none left out.
LEMMA PushFacts ==
    ASSUME ViewportTyped, NEW k \in 1..MaxBatch, PushArrives(k)
    PROVE  /\ LinesOf(k) \in Seq(Logs) /\ Len(LinesOf(k)) = k
           /\ \A i \in 1..k : LinesOf(k)[i] = Delivered + i
           /\ Last(LinesOf(k)) = Delivered + k
           /\ BatchOf(k) \in Seq(Logs)
           /\ \A i \in 1..Len(BatchOf(k)) : \E j \in 1..k : BatchOf(k)[i] = Delivered + j
           /\ pushed' \in Seq(Logs) /\ Len(pushed') = Len(pushed) - k /\ k <= Len(pushed)
           /\ \A i \in 1..Len(pushed') : pushed'[i] = pushed[i + k]
           /\ Delivered' = Delivered + k /\ Delivered \in Nat
<1> DEFINE K == {i \in DOMAIN LinesOf(k) : Selected(LinesOf(k)[i])}
<1>1. /\ pushed \in Seq(Logs) /\ Len(pushed) \in Nat /\ k \in Nat /\ k > 0 /\ k <= Len(pushed)
      /\ pushed' = SubSeq(pushed, k + 1, Len(pushed)) /\ stored' = stored
      /\ stored \in Nat /\ Len(pushed) <= stored
  <2>1. stored \in Nat /\ MaxBatch \in Nat
      BY ViewportAssumption, ViewportConstants DEF ViewportTyped
  <2>. QED
      BY <2>1 DEF ViewportTyped, PushArrives
<1>2. /\ LinesOf(k) \in Seq(Logs) /\ Len(LinesOf(k)) = k
      /\ \A i \in 1..k : LinesOf(k)[i] = pushed[i]
    BY <1>1 DEF LinesOf
<1>3. \A i \in 1..k : LinesOf(k)[i] = Delivered + i
  <2>1. \A i \in 1..k : i \in 1..Len(pushed)
      BY <1>1
  <2>2. \A i \in 1..Len(pushed) : pushed[i] = Delivered + i
      BY DEF ViewportTyped
  <2>. QED
      BY <1>2, <2>1, <2>2
<1>4. Last(LinesOf(k)) = Delivered + k
    BY <1>1, <1>2, <1>3 DEF Last
<1>5. /\ pushed' \in Seq(Logs) /\ Len(pushed') = Len(pushed) - k
      /\ \A i \in 1..Len(pushed') : pushed'[i] = pushed[i + k]
  <2>1. \A i \in 1..(Len(pushed) - k) : pushed[k + i] \in Logs /\ k + i = i + k
      BY <1>1
  <2>2. CASE k = Len(pushed)
    <3>1. pushed' = <<>>
        BY <1>1, <2>2
    <3>2. <<>> \in Seq(Logs) /\ Len(<<>>) = 0 /\ \A i \in 1..0 : FALSE
        OBVIOUS
    <3>3. Len(pushed) - k = 0
        BY <1>1, <2>2
    <3>. QED
        BY <3>1, <3>2, <3>3
  <2>3. CASE k < Len(pushed)
    <3>1. pushed' = [i \in 1..(Len(pushed) - k) |-> pushed[k + i]]
        BY <1>1, <2>3
    <3>2. \A m \in Nat : \A g \in [1..m -> Logs] : g \in Seq(Logs) /\ Len(g) = m
        OBVIOUS
    <3>3. pushed' \in [1..(Len(pushed) - k) -> Logs] /\ Len(pushed) - k \in Nat
      <4>1. [i \in 1..(Len(pushed) - k) |-> pushed[k + i]]
               \in [1..(Len(pushed) - k) -> Logs]
          BY <2>1
      <4>2. pushed' \in [1..(Len(pushed) - k) -> Logs]
          BY <3>1, <4>1, Zenon
      <4>. QED
          BY <1>1, <4>2
    <3>4. pushed' \in Seq(Logs) /\ Len(pushed') = Len(pushed) - k
        BY <3>2, <3>3, Zenon
    <3>. QED
        BY <2>1, <3>1, <3>4
  <2>. QED
      BY <1>1, <2>2, <2>3
<1>6. Delivered' = Delivered + k /\ Delivered \in Nat
  <2>1. /\ stored \in Nat /\ Len(pushed) \in Nat /\ k \in Nat /\ Len(pushed) <= stored
        /\ stored' = stored /\ Len(pushed') = Len(pushed) - k
      BY <1>1, <1>5
  <2>. QED
      BY <2>1 DEF Delivered
<1>7. K \in SUBSET (1..k) /\ IsFiniteSet(1..k)
  <2>1. IsFiniteSet(1..k)
      BY <1>1, FS_Interval
  <2>. QED
      BY <1>2, <2>1
<1>. HIDE DEF K
<1>8. IsFiniteSet(K) /\ K \in SUBSET Int /\ \A i \in K : LinesOf(k)[i] \in Logs
  <2>1. IsFiniteSet(K)
      BY <1>7, FS_Subset
  <2>. QED
      BY <1>2, <1>7, <2>1
<1>9. /\ Picked(LinesOf(k), K) \in Seq(Logs) /\ Len(Picked(LinesOf(k), K)) = Cardinality(K)
      /\ \A i \in 1..Cardinality(K) : /\ Picked(LinesOf(k), K)[i] = LinesOf(k)[Nth(K, i)]
                                      /\ Nth(K, i) \in K
  <2>1. \A i \in 1..Cardinality(K) : Nth(K, i) \in K
      BY <1>8, NthFacts
  <2>2. /\ Picked(LinesOf(k), K) \in Seq(Logs)
        /\ Len(Picked(LinesOf(k), K)) = Cardinality(K)
        /\ \A i \in 1..Cardinality(K) : Picked(LinesOf(k), K)[i] = LinesOf(k)[Nth(K, i)]
      BY <1>8, PickedLogs
  <2>. QED
      BY <2>1, <2>2
<1>10. /\ Picked(LinesOf(k), K) \in Seq(Logs)
       /\ \A i \in 1..Len(Picked(LinesOf(k), K)) :
             \E j \in 1..k : Picked(LinesOf(k), K)[i] = Delivered + j
    BY <1>3, <1>7, <1>9
<1>11. BatchOf(k) = Picked(LinesOf(k), K)
    BY DEF BatchOf, K
<1>. QED
    BY <1>1, <1>2, <1>3, <1>4, <1>5, <1>6, <1>10, <1>11

LEMMA ListFrame ==
    ASSUME OrderInv, PagesInv, GapsInv, UNCHANGED <<logs, stale, maxLogsInMemory>>,
           Delivered' = Delivered,
           Settled' => /\ Settled /\ UNCHANGED <<tri, shownAt, lastPage>>
                       /\ shownAt \in 0..stored'
                       /\ ~missed' => ~missed /\ queuedLogs' = queuedLogs
    PROVE  OrderInv' /\ PagesInv' /\ GapsInv'
<1>1. OrderInv'
    BY DEF OrderInv, InOrder
<1>2. CASE ~Settled'
    BY <1>1, <1>2 DEF PagesInv, GapsInv
<1>3. CASE Settled'
  <2>1. /\ Asked' = Asked /\ Settled /\ UNCHANGED <<tri, shownAt, lastPage>>
        /\ shownAt \in 0..stored' /\ ~missed' => ~missed /\ queuedLogs' = queuedLogs
        /\ \A n : Admits(tri', n) <=> Admits(tri, n)
      BY <1>3, MatchingIsFixed
  <2>2. PagesInv'
      BY <2>1 DEF PagesInv, Shows
  <2>3. GapsInv'
      BY <2>1 DEF GapsInv, Shows, ReachesTo, Held
  <2>. QED
      BY <1>1, <2>2, <2>3
<1>. QED
    BY <1>2, <1>3

\* One list behind another.
LEMMA TwoInARow ==
    ASSUME NEW T, NEW a \in Seq(T), NEW b \in Seq(T)
    PROVE  /\ a \o b \in Seq(T) /\ Len(a \o b) = Len(a) + Len(b) /\ Len(b) \in Nat
           /\ \A i \in 1..Len(a) : (a \o b)[i] = a[i]
           /\ \A i \in 1..Len(b) : (a \o b)[Len(a) + i] = b[i]
OBVIOUS

\* The list that a batch makes: what is newer is put before it.
LEMMA PushedList ==
    ASSUME ViewportTyped, NEW k \in 1..MaxBatch, PushArrives(k), QueueInv,
           monitoring, isLiveUpdatesEnabled,
           NEW full, full = Pushed(DeduplicateLogs(SortLogs(BatchOf(k)), logs)) \o logs
    PROVE  /\ queuedLogs = <<>> /\ queuedLogs' = <<>>
           /\ full \in Seq(Entries) /\ logs' = ApplyMemoryLimit(full)
           /\ Len(full) >= Len(logs)
           /\ OrderInv /\ ~stale => InOrder(full)
           /\ \A i \in 1..Len(full) :
                 \/ \E j \in 1..Len(logs) : full[i] = logs[j]
                 \/ /\ full[i].from = "push"
                    /\ \E j \in 1..k : full[i].log = Delivered + j
                    /\ logs # <<>> => full[i].log >= logs[1].log
           /\ \A n \in Logs : Shows(logs, n) => Shows(full, n)
           /\ \A j \in 1..Len(BatchOf(k)) :
                 logs = <<>> \/ BatchOf(k)[j] > logs[1].log => Shows(full, BatchOf(k)[j])
<1> DEFINE batch == BatchOf(k)
           fresh == DeduplicateLogs(SortLogs(batch), logs)
<1>1. queuedLogs' = <<>> /\ logs' = ProcessNewLogs(queuedLogs \o batch)
    BY DEF PushArrives, BatchOf, LinesOf
<1>2. queuedLogs = <<>>
    BY DEF QueueInv, QueueEndsWithPause
<1>3. /\ batch \in Seq(Logs)
      /\ \A i \in 1..Len(batch) : \E j \in 1..k : batch[i] = Delivered + j
    BY PushFacts
<1>. HIDE DEF batch
<1>4. queuedLogs \o batch = batch
    BY <1>2, <1>3
<1>5. logs' = ApplyMemoryLimit(full)
    BY <1>1, <1>4 DEF ProcessNewLogs, batch
<1>6. logs \in Seq(Entries)
    BY DEF ViewportTyped
<1>7. /\ fresh \in Seq(Logs) /\ Len(fresh) \in Nat
      /\ \A i, j \in 1..Len(fresh) : i < j => fresh[i] >= fresh[j]
      /\ \A i \in 1..Len(fresh) : \E j \in 1..Len(batch) : fresh[i] = batch[j]
      /\ logs # <<>> => \A i \in 1..Len(fresh) : fresh[i] >= logs[1].log
      /\ \A j \in 1..Len(batch) :
            logs = <<>> \/ batch[j] > logs[1].log => \E i \in 1..Len(fresh) : fresh[i] = batch[j]
    BY <1>3, <1>6, KeptFacts
<1>8. full = Pushed(fresh) \o logs
    BY DEF batch
<1>. HIDE DEF fresh
<1>9. /\ Pushed(fresh) \in Seq(Entries) /\ Len(Pushed(fresh)) = Len(fresh)
      /\ \A i \in 1..Len(fresh) : Pushed(fresh)[i].log = fresh[i] /\ Pushed(fresh)[i].from = "push"
    BY <1>7, EntriesAre
<1> DEFINE f == Len(fresh)
           m == Len(logs)
<1>10. /\ full \in Seq(Entries) /\ Len(full) = f + m /\ f \in Nat /\ m \in Nat
       /\ \A i \in 1..f : full[i] = Pushed(fresh)[i]
       /\ \A i \in 1..m : full[f + i] = logs[i]
  <2>1. Pushed(fresh) \in Seq(Entries) /\ Len(Pushed(fresh)) = f /\ f \in Nat
      BY <1>7, <1>9
  <2>. HIDE DEF f
  <2>2. full = Pushed(fresh) \o logs /\ logs \in Seq(Entries)
      BY <1>6, <1>8
  <2> DEFINE new == Pushed(fresh)
  <2>0. new \in Seq(Entries) /\ Len(new) = f
      BY <2>1
  <2>. HIDE DEF new
  <2>3. /\ new \o logs \in Seq(Entries) /\ Len(new \o logs) = Len(new) + m /\ m \in Nat
        /\ \A i \in 1..Len(new) : (new \o logs)[i] = new[i]
        /\ \A i \in 1..m : (new \o logs)[Len(new) + i] = logs[i]
    <3>1. new \in Seq(Entries) /\ logs \in Seq(Entries)
        BY <2>0, <2>2
    <3>. HIDE DEF f, m
    <3>2. new \o logs \in Seq(Entries)
        BY <3>1, TwoInARow
    <3>3. Len(new \o logs) = Len(new) + Len(logs) /\ Len(logs) \in Nat
        BY <3>1, TwoInARow
    <3>4. \A i \in 1..Len(new) : (new \o logs)[i] = new[i]
        BY <3>1, TwoInARow
    <3>5. \A i \in 1..Len(logs) : (new \o logs)[Len(new) + i] = logs[i]
        BY <3>1, TwoInARow
    <3>. QED
        BY <3>2, <3>3, <3>4, <3>5, Zenon DEF m
  <2>4. full = new \o logs /\ Len(new) = f
      BY <2>1, <2>2 DEF new
  <2>5. /\ full \in Seq(Entries) /\ Len(full) = f + m
        /\ \A i \in 1..f : full[i] = new[i]
        /\ \A i \in 1..m : full[f + i] = logs[i]
      BY <2>3, <2>4, Zenon
  <2>. QED
      BY <2>1, <2>3, <2>5, Zenon DEF new
<1>11. /\ \A i \in 1..f : full[i].log = fresh[i] /\ full[i].from = "push"
       /\ \A i \in 1..m : f + i \in 1..Len(full)
       /\ \A i \in 1..f : i \in 1..Len(full)
       /\ \A i \in 1..Len(full) : i \notin 1..f => i - f \in 1..m /\ full[i] = logs[i - f]
  <2>1. \A i \in 1..f : full[i].log = fresh[i] /\ full[i].from = "push"
      BY <1>9, <1>10
  <2>2. \A i \in 1..m : f + i \in 1..Len(full)
      BY <1>10
  <2>3. \A i \in 1..f : i \in 1..Len(full)
      BY <1>10
  <2>4. ASSUME NEW i \in 1..Len(full), i \notin 1..f
        PROVE  i - f \in 1..m /\ full[i] = logs[i - f]
    <3>1. i - f \in 1..m /\ f + (i - f) = i
        BY <1>10, <2>4
    <3>. QED
        BY <1>10, <3>1
  <2>. QED
      BY <2>1, <2>2, <2>3, <2>4
<1>12. m # 0 => logs # <<>> /\ 1 \in 1..m
    BY <1>10, <1>6
<1>. HIDE DEF f, m
<1>13. \A i \in 1..m : logs[i].log \in Nat /\ logs[i] \in Entries
  <2>1. \A i \in 1..m : logs[i] \in Entries
      BY <1>6 DEF m
  <2>. QED
      BY <2>1, ViewportConstants DEF Entries
<1>14. \A i \in 1..f : fresh[i] \in Nat
  <2>1. \A i \in 1..f : fresh[i] \in Logs
      BY <1>7 DEF f
  <2>. QED
      BY <2>1, ViewportConstants
<1>15. ASSUME OrderInv, ~stale PROVE InOrder(full)
  <2> SUFFICES ASSUME NEW i \in 1..Len(full), NEW j \in 1..Len(full), i < j
               PROVE  full[i].log >= full[j].log
      BY DEF InOrder
  <2>0. \A a, b \in 1..m : a < b => logs[a].log >= logs[b].log
      BY <1>15 DEF OrderInv, InOrder, m
  <2>1. CASE j \in 1..f
    <3>1. i \in 1..f
        BY <1>10, <2>1
    <3>. QED
        BY <1>7, <1>11, <2>1, <3>1 DEF f
  <2>2. CASE i \in 1..f /\ j \notin 1..f
    <3>1. j - f \in 1..m /\ full[j] = logs[j - f] /\ full[i].log = fresh[i]
        BY <1>11, <2>2
    <3>2. m # 0
        BY <1>10, <3>1
    <3>3. fresh[i] >= logs[1].log /\ 1 \in 1..m
        BY <1>7, <1>12, <2>2, <3>2 DEF f
    <3>4. logs[1].log >= logs[j - f].log
        BY <1>10, <1>13, <2>0, <3>1, <3>3
    <3>5. fresh[i] \in Nat /\ logs[1].log \in Nat /\ logs[j - f].log \in Nat
        BY <1>13, <1>14, <2>2, <3>1, <3>3
    <3>. QED
        BY <3>1, <3>3, <3>4, <3>5, SMTT(30)
  <2>3. CASE i \notin 1..f
    <3>1. j \notin 1..f
        BY <1>10, <2>3
    <3>2. i - f \in 1..m /\ j - f \in 1..m /\ i - f < j - f
        BY <1>10, <1>11, <2>3, <3>1
    <3>3. full[i] = logs[i - f] /\ full[j] = logs[j - f]
        BY <1>11, <2>3, <3>1
    <3>. QED
        BY <2>0, <3>2, <3>3
  <2>. QED
      BY <2>1, <2>2, <2>3
<1>16. ASSUME NEW i \in 1..Len(full)
       PROVE  \/ \E j \in 1..m : full[i] = logs[j]
              \/ /\ full[i].from = "push"
                 /\ \E j \in 1..k : full[i].log = Delivered + j
                 /\ logs # <<>> => full[i].log >= logs[1].log
  <2>1. CASE i \in 1..f
    <3>1. full[i].log = fresh[i] /\ full[i].from = "push"
        BY <1>11, <2>1
    <3>2. \E j \in 1..k : fresh[i] = Delivered + j
        BY <1>3, <1>7, <2>1 DEF f
    <3>3. logs # <<>> => fresh[i] >= logs[1].log
        BY <1>7, <2>1 DEF f
    <3>. QED
        BY <3>1, <3>2, <3>3
  <2>2. CASE i \notin 1..f
      BY <1>11, <2>2
  <2>. QED
      BY <2>1, <2>2
<1>17. ASSUME NEW n \in Logs, Shows(logs, n) PROVE Shows(full, n)
  <2>1. PICK i \in 1..m : logs[i].log = n
      BY <1>17 DEF Shows, m
  <2>. QED
      BY <1>10, <1>11, <2>1 DEF Shows
<1>18. ASSUME NEW j \in 1..Len(batch), logs = <<>> \/ batch[j] > logs[1].log
       PROVE  Shows(full, batch[j])
  <2>1. PICK i \in 1..f : fresh[i] = batch[j]
      BY <1>7, <1>18 DEF f
  <2>. QED
      BY <1>11, <2>1 DEF Shows
<1>. QED
    BY <1>1, <1>2, <1>5, <1>10, <1>15, <1>16, <1>17, <1>18 DEF batch, m

\* What a batch leaves as it is, and what it means that none of its lines is missed.
LEMMA PushLeaves ==
    ASSUME ViewportTyped, NEW k \in 1..MaxBatch, PushArrives(k)
    PROVE  /\ UNCHANGED <<stored, tri, firstPage, filtersOn, stale, shownAt, lastPage,
                          maxLogsInMemory>>
           /\ Settled' = Settled
           /\ ~missed' => /\ ~missed /\ BatchOf(k) = LinesOf(k)
                          /\ firstPage.read => ~(Last(LinesOf(k)) > firstPage.at)
                          /\ firstPage = NoRequest => monitoring
           /\ ~(monitoring /\ isLiveUpdatesEnabled) => logs' = logs
           /\ ~monitoring => queuedLogs' = queuedLogs
           /\ monitoring /\ ~isLiveUpdatesEnabled => queuedLogs' = queuedLogs \o BatchOf(k)
<1>1. UNCHANGED <<stored, tri, firstPage, filtersOn, stale, shownAt, lastPage,
                  maxLogsInMemory>>
    BY DEF PushArrives, requests, history
<1>2. missed' = \/ missed \/ BatchOf(k) # LinesOf(k)
                \/ firstPage.read /\ Last(LinesOf(k)) > firstPage.at
                \/ firstPage = NoRequest /\ ~monitoring
    BY DEF PushArrives, BatchOf, LinesOf
<1>3. ~missed' => /\ ~missed /\ BatchOf(k) = LinesOf(k)
                  /\ firstPage.read => ~(Last(LinesOf(k)) > firstPage.at)
                  /\ firstPage = NoRequest => monitoring
    BY <1>2
<1>4. /\ ~(monitoring /\ isLiveUpdatesEnabled) => logs' = logs
      /\ ~monitoring => queuedLogs' = queuedLogs
      /\ monitoring /\ ~isLiveUpdatesEnabled => queuedLogs' = queuedLogs \o BatchOf(k)
    BY DEF PushArrives, BatchOf, LinesOf
<1>. QED
    BY <1>1, <1>3, <1>4 DEF Settled

LEMMA PushHeldBack ==
    ASSUME ViewportTyped, OrderInv, PagesInv, GapsInv, NEW k \in 1..MaxBatch, PushArrives(k),
           ~(monitoring /\ isLiveUpdatesEnabled)
    PROVE  OrderInv' /\ PagesInv' /\ GapsInv'
<1>1. /\ UNCHANGED <<logs, stored, tri, firstPage, filtersOn, stale, shownAt, lastPage,
                     maxLogsInMemory>>
      /\ Settled' = Settled
    BY PushLeaves
<1>2. Asked' = Asked /\ \A n : Admits(tri', n) <=> Admits(tri, n)
    BY <1>1, MatchingIsFixed
<1>3. /\ Delivered' = Delivered + k /\ Delivered \in Nat /\ k \in Nat
      /\ LinesOf(k) \in Seq(Logs) /\ Len(LinesOf(k)) = k
      /\ \A i \in 1..k : LinesOf(k)[i] = Delivered + i
  <2>1. k \in Nat
      BY ViewportAssumption
  <2>. QED
      BY <2>1, PushFacts
<1>4. OrderInv'
    BY <1>1 DEF OrderInv, InOrder
<1>5. logs \in Seq(Entries) /\ \A i \in 1..Len(logs) : logs[i].log \in Nat
  <2>1. \A i \in 1..Len(logs) : logs[i] \in Entries
      BY DEF ViewportTyped
  <2>. QED
      BY <2>1, ViewportConstants DEF Entries, ViewportTyped
<1>6. \A x \in Nat : x <= Delivered => x <= Delivered'
    BY <1>3
<1>7. PagesInv'
    BY <1>1, <1>2, <1>5, <1>6 DEF PagesInv, Shows
<1>8. ASSUME Settled, ~missed', NEW n \in Logs, Admits(tri, n), ReachesTo(logs, n),
             n <= shownAt \/ n <= Delivered'
      PROVE  Shows(logs, n) \/ Held(n)'
  <2>1. /\ ~missed /\ BatchOf(k) = LinesOf(k) /\ monitoring
        /\ queuedLogs' = queuedLogs \o LinesOf(k)
      BY <1>8, PushLeaves DEF Settled
  <2>2. /\ queuedLogs \in Seq(Logs) /\ Len(queuedLogs) \in Nat
        /\ Len(queuedLogs') = Len(queuedLogs) + k
        /\ \A i \in 1..Len(queuedLogs) : queuedLogs'[i] = queuedLogs[i]
        /\ \A i \in 1..k : queuedLogs'[Len(queuedLogs) + i] = LinesOf(k)[i]
    <3>1. \A a, b \in Seq(Logs) :
             /\ Len(a \o b) = Len(a) + Len(b) /\ Len(a) \in Nat
             /\ \A i \in 1..Len(a) : (a \o b)[i] = a[i]
             /\ \A i \in 1..Len(b) : (a \o b)[Len(a) + i] = b[i]
        OBVIOUS
    <3>2. queuedLogs \in Seq(Logs)
        BY DEF ViewportTyped
    <3>. QED
        BY <1>3, <2>1, <3>1, <3>2
  <2>3. CASE n <= shownAt \/ n <= Delivered
    <3>1. Shows(logs, n) \/ Held(n)
        BY <1>8, <2>1, <2>3 DEF GapsInv
    <3>2. \A i \in 1..Len(queuedLogs) : i \in 1..Len(queuedLogs')
        BY <1>3, <2>2
    <3>. QED
        BY <2>2, <3>1, <3>2 DEF Held
  <2>4. CASE ~(n <= shownAt \/ n <= Delivered)
    <3>1. n \in Nat /\ n > Delivered /\ n <= Delivered + k
        BY <1>3, <1>8, <2>4, ViewportConstants
    <3>2. n - Delivered \in 1..k /\ Delivered + (n - Delivered) = n
        BY <1>3, <3>1
    <3>3. queuedLogs'[Len(queuedLogs) + (n - Delivered)] = n
        BY <1>3, <2>2, <3>2
    <3>4. Len(queuedLogs) + (n - Delivered) \in 1..Len(queuedLogs')
        BY <1>3, <2>2, <3>2
    <3>. QED
        BY <3>3, <3>4 DEF Held
  <2>. QED
      BY <2>3, <2>4
<1>9. GapsInv'
    BY <1>1, <1>2, <1>8 DEF GapsInv, Shows, ReachesTo
<1>. QED
    BY <1>4, <1>7, <1>9

LEMMA PushShown ==
    ASSUME ViewportTyped, OrderInv, PagesInv, GapsInv, QueueInv,
           NEW k \in 1..MaxBatch, PushArrives(k), monitoring, isLiveUpdatesEnabled
    PROVE  logs' \in Seq(Entries) /\ OrderInv' /\ PagesInv' /\ GapsInv'
<1>1. /\ UNCHANGED <<stored, tri, firstPage, filtersOn, stale, shownAt, lastPage,
                     maxLogsInMemory>>
      /\ Settled' = Settled
    BY PushLeaves
<1>2. Asked' = Asked /\ \A n : Admits(tri', n) <=> Admits(tri, n)
    BY <1>1, MatchingIsFixed
<1>3. /\ Delivered' = Delivered + k /\ Delivered \in Nat /\ k \in Nat
      /\ LinesOf(k) \in Seq(Logs) /\ Len(LinesOf(k)) = k
      /\ \A i \in 1..k : LinesOf(k)[i] = Delivered + i
  <2>1. k \in Nat
      BY ViewportAssumption
  <2>. QED
      BY <2>1, PushFacts
<1> DEFINE full == Pushed(DeduplicateLogs(SortLogs(BatchOf(k)), logs)) \o logs
<1>5. /\ queuedLogs = <<>> /\ queuedLogs' = <<>>
      /\ full \in Seq(Entries) /\ logs' = ApplyMemoryLimit(full)
      /\ Len(full) >= Len(logs)
      /\ OrderInv /\ ~stale => InOrder(full)
      /\ \A i \in 1..Len(full) :
            \/ \E j \in 1..Len(logs) : full[i] = logs[j]
            \/ /\ full[i].from = "push"
               /\ \E j \in 1..k : full[i].log = Delivered + j
               /\ logs # <<>> => full[i].log >= logs[1].log
      /\ \A n \in Logs : Shows(logs, n) => Shows(full, n)
      /\ \A j \in 1..Len(BatchOf(k)) :
            logs = <<>> \/ BatchOf(k)[j] > logs[1].log => Shows(full, BatchOf(k)[j])
    BY PushedList
<1>. HIDE DEF full
<1>6. /\ logs' \in Seq(Entries) /\ Len(logs') \in Nat /\ Len(logs') <= Len(full)
      /\ \A i \in 1..Len(logs') : logs'[i] = full[i]
      /\ \/ Len(logs') = maxLogsInMemory
         \/ Len(logs') = Len(full) /\ Len(full) < maxLogsInMemory
    BY <1>5, LimitFacts DEF ViewportTyped
<1>7. OrderInv'
  <2> SUFFICES ASSUME ~stale PROVE InOrder(logs')
      BY <1>1 DEF OrderInv, InOrder
  <2>1. InOrder(full) /\ \A i \in 1..Len(logs') : i \in 1..Len(full)
      BY <1>5, <1>6
  <2>. QED
      BY <1>6, <2>1 DEF InOrder
<1>8. \A i \in 1..Len(logs) : logs[i] \in Entries /\ logs[i].log \in Nat
  <2>1. \A i \in 1..Len(logs) : logs[i] \in Entries
      BY DEF ViewportTyped
  <2>. QED
      BY <2>1, ViewportConstants DEF Entries
<1>9. \A i \in 1..Len(full) : full[i].log \in Nat
  <2>1. \A i \in 1..Len(full) : full[i] \in Entries
      BY <1>5
  <2>. QED
      BY <2>1, ViewportConstants DEF Entries
<1>10. \A i \in 1..Len(logs') : i \in 1..Len(full)
    BY <1>5, <1>6
<1>11. ASSUME Settled PROVE InOrder(full) /\ PagesInv /\ ~stale
    BY <1>5, <1>11 DEF Settled
<1>12. ASSUME Settled
       PROVE  /\ Asked \in Seq(Logs) /\ Len(Asked) \in Nat
              /\ \A l \in 1..Len(Asked) : Asked[l] \in Logs /\ Asked[l] \in Nat
  <2>1. shownAt \in 0..stored /\ stored \in 0..Len(LevelOf)
      BY <1>11, <1>12 DEF PagesInv, ViewportTyped
  <2>2. shownAt \in 0..Len(LevelOf)
      BY <2>1, ViewportConstants
  <2>. QED
      BY <2>2, MatchingFacts, ViewportConstants DEF Asked
<1>13. PagesInv'
  <2> SUFFICES ASSUME Settled PROVE PagesInv'
      BY <1>1 DEF PagesInv
  <2>1. logs' = <<>> => Len(Asked) = 0
    <3>1. logs' = <<>> => logs = <<>>
        BY <1>5, <1>6, <1>1, <1>8 DEF ViewportTyped
    <3>. QED
        BY <1>11, <3>1 DEF PagesInv
  <2>2. ASSUME NEW i \in 1..Len(logs')
        PROVE  logs'[i].log <= shownAt \/ logs'[i].log <= Delivered'
    <3>1. logs'[i] = full[i] /\ i \in 1..Len(full)
        BY <1>6, <1>10
    <3>2. CASE \E j \in 1..Len(logs) : full[i] = logs[j]
      <4>1. PICK j \in 1..Len(logs) : full[i] = logs[j]
          BY <3>2
      <4>2. logs[j].log <= shownAt \/ logs[j].log <= Delivered
          BY <1>11 DEF PagesInv
      <4>. QED
          BY <1>3, <1>8, <3>1, <4>1, <4>2
    <3>3. CASE \E j \in 1..k : full[i].log = Delivered + j
        BY <1>3, <3>1, <3>3
    <3>. QED
        BY <1>5, <3>1, <3>2, <3>3
  <2>3. ASSUME NEW i \in 1..Len(logs'), logs'[i].from = "page" PROVE Admits(tri, logs'[i].log)
    <3>1. logs'[i] = full[i] /\ i \in 1..Len(full)
        BY <1>6, <1>10
    <3>2. PICK j \in 1..Len(logs) : full[i] = logs[j]
        BY <1>5, <2>3, <3>1
    <3>. QED
        BY <1>11, <2>3, <3>1, <3>2 DEF PagesInv
  <2>4. ASSUME NEW i \in 1..Len(logs'), NEW l \in 1..Len(Asked), l > lastPage * PageSize
        PROVE  logs'[i].log >= Asked[l]
    <3>1. logs'[i] = full[i] /\ i \in 1..Len(full)
        BY <1>6, <1>10
    <3>2. \A j \in 1..Len(logs) : logs[j].log >= Asked[l]
        BY <1>11, <2>4 DEF PagesInv
    <3>3. CASE \E j \in 1..Len(logs) : full[i] = logs[j]
        BY <3>1, <3>2, <3>3
    <3>4. CASE logs # <<>> => full[i].log >= logs[1].log
      <4>1. logs # <<>>
          BY <1>11, <1>12, <2>4 DEF PagesInv
      <4>2. 1 \in 1..Len(logs)
          BY <4>1 DEF ViewportTyped
      <4>3. full[i].log >= logs[1].log /\ logs[1].log >= Asked[l] /\ logs[1].log \in Nat
          BY <1>8, <3>2, <3>4, <4>1, <4>2
      <4>. QED
          BY <1>9, <1>12, <3>1, <4>3
    <3>. QED
        BY <1>5, <3>1, <3>3, <3>4
  <2>5. \/ Len(logs') >= maxLogsInMemory
        \/ \A l \in 1..Len(Asked) : l <= lastPage * PageSize => Shows(logs', Asked[l])
    <3>1. CASE Len(logs') = maxLogsInMemory
        BY <1>6, <3>1
    <3>2. CASE Len(logs') = Len(full) /\ Len(full) < maxLogsInMemory
      <4>1. ~(Len(logs) >= maxLogsInMemory)
          BY <1>5, <3>2 DEF ViewportTyped
      <4>2. ASSUME NEW l \in 1..Len(Asked), l <= lastPage * PageSize
            PROVE  Shows(logs', Asked[l])
        <5>1. Shows(logs, Asked[l]) /\ Asked[l] \in Logs
            BY <1>11, <1>12, <4>1, <4>2 DEF PagesInv
        <5>2. PICK j \in 1..Len(full) : full[j].log = Asked[l]
            BY <1>5, <5>1 DEF Shows
        <5>. QED
            BY <1>6, <3>2, <5>2 DEF Shows
      <4>. QED
          BY <4>2
    <3>. QED
        BY <1>6, <3>1, <3>2
  <2>. QED
      BY <1>1, <1>2, <1>11, <2>1, <2>2, <2>3, <2>4, <2>5 DEF PagesInv, Shows
<1>14. ASSUME Settled, ~missed', NEW n \in Logs, Admits(tri, n), ReachesTo(logs', n),
              n <= shownAt \/ n <= Delivered'
       PROVE  Shows(logs', n)
  <2>1. ~missed /\ BatchOf(k) = LinesOf(k)
      BY <1>14, PushLeaves
  <2>2. n \in Nat
      BY ViewportConstants
  <2>3. Shows(full, n) => Shows(logs', n)
    <3>1. maxLogsInMemory \in Nat \ {0} /\ InOrder(full)
        BY <1>11, <1>14 DEF ViewportTyped
    <3>. QED
        BY <1>5, <1>14, <3>1, LimitKeeps
  <2>4. PICK i \in 1..Len(logs') : logs'[i].log <= n
      BY <1>14 DEF ReachesTo
  <2>5. logs'[i] = full[i] /\ i \in 1..Len(full) /\ full[i].log <= n /\ full[i].log \in Nat
      BY <1>6, <1>9, <1>10, <2>4
  <2>6. CASE n <= shownAt \/ n <= Delivered
    <3>1. ReachesTo(logs, n)
      <4>1. CASE \E j \in 1..Len(logs) : full[i] = logs[j]
          BY <2>5, <4>1 DEF ReachesTo
      <4>2. CASE /\ \E j \in 1..k : full[i].log = Delivered + j
                 /\ logs # <<>> => full[i].log >= logs[1].log
        <5>1. CASE logs # <<>>
          <6>1. 1 \in 1..Len(logs)
              BY <5>1 DEF ViewportTyped
          <6>2. logs[1].log <= n
              BY <1>8, <2>2, <2>5, <4>2, <5>1, <6>1
          <6>. QED
              BY <6>1, <6>2 DEF ReachesTo
        <5>2. CASE logs = <<>>
          <6>1. n > Delivered
              BY <1>3, <2>2, <2>5, <4>2
          <6>2. n <= shownAt /\ Len(Asked) = 0
              BY <1>3, <1>11, <1>14, <2>2, <2>6, <5>2, <6>1 DEF PagesInv
          <6>3. shownAt \in 0..Len(LevelOf)
            <7>1. shownAt \in 0..stored /\ stored \in 0..Len(LevelOf)
                BY <1>11, <1>14 DEF PagesInv, ViewportTyped
            <7>. QED
                BY <7>1, ViewportConstants
          <6>4. \E l \in 1..Len(Asked) : Asked[l] = n
              BY <1>14, <6>2, <6>3, MatchingFacts DEF Asked
          <6>. QED
              BY <6>2, <6>4
        <5>. QED
            BY <5>1, <5>2
      <4>. QED
          BY <1>5, <2>5, <4>1, <4>2
    <3>2. Shows(logs, n) \/ Held(n)
        BY <1>14, <2>1, <2>6, <3>1 DEF GapsInv
    <3>3. ~Held(n)
        BY <1>5 DEF Held
    <3>. QED
        BY <1>5, <2>3, <3>2, <3>3
  <2>7. CASE ~(n <= shownAt \/ n <= Delivered)
    <3>1. n > Delivered /\ n <= Delivered + k /\ ~(n <= shownAt)
        BY <1>3, <1>14, <2>2, <2>7
    <3>2. n - Delivered \in 1..k /\ Delivered + (n - Delivered) = n
        BY <1>3, <2>2, <3>1
    <3>3. n - Delivered \in 1..Len(BatchOf(k)) /\ BatchOf(k)[n - Delivered] = n
        BY <1>3, <2>1, <3>2
    <3>4. logs = <<>> \/ n > logs[1].log
      <4> SUFFICES ASSUME logs # <<>> PROVE n > logs[1].log
          OBVIOUS
      <4>1. 1 \in 1..Len(logs)
          BY DEF ViewportTyped
      <4>2. logs[1].log <= shownAt \/ logs[1].log <= Delivered
          BY <1>11, <1>14, <4>1 DEF PagesInv
      <4>3. shownAt \in Nat
        <5>1. shownAt \in 0..stored /\ stored \in 0..Len(LevelOf)
            BY <1>11, <1>14 DEF PagesInv, ViewportTyped
        <5>. QED
            BY <5>1, ViewportConstants
      <4>. QED
          BY <1>3, <1>8, <2>2, <3>1, <4>1, <4>2, <4>3
    <3>5. Shows(full, n)
        BY <1>5, <3>3, <3>4
    <3>. QED
        BY <2>3, <3>5
  <2>. QED
      BY <2>6, <2>7
<1>15. GapsInv'
    BY <1>1, <1>2, <1>14 DEF GapsInv, Shows, ReachesTo
<1>. QED
    BY <1>6, <1>7, <1>13, <1>15

LEMMA FirstPageShown ==
    ASSUME ViewportTyped, FirstPageInv, FirstPageArrives
    PROVE  logs' \in Seq(Entries) /\ OrderInv' /\ PagesInv' /\ GapsInv'
<1> DEFINE ns == firstPage.answer
           all == Matching(tri, firstPage.at)
<1>1. /\ firstPage.read /\ logs' = Paged(ns) /\ shownAt' = firstPage.at /\ lastPage' = 1
      /\ UNCHANGED <<stored, pushed, tri, queuedLogs, maxLogsInMemory, filtersOn, missed>>
    BY DEF FirstPageArrives, options
<1>2. firstPage # NoRequest
    BY <1>1 DEF NoRequest
<1>3. /\ firstPage.at \in 0..stored /\ IsPage(ns, all, 0)
      /\ ~missed => Delivered <= firstPage.at
    BY <1>1, <1>2 DEF FirstPageInv
<1>4. firstPage.at \in 0..Len(LevelOf) /\ firstPage.at \in Nat
  <2>1. stored \in 0..Len(LevelOf)
      BY DEF ViewportTyped
  <2>. QED
      BY <1>3, <2>1, ViewportConstants
<1>5. /\ all \in Seq(Logs) /\ Len(all) \in Nat
      /\ \A k \in 1..Len(all) : all[k] \in Logs /\ all[k] <= firstPage.at /\ Admits(tri, all[k])
      /\ \A n \in Logs : n <= firstPage.at /\ Admits(tri, n) => \E k \in 1..Len(all) : all[k] = n
      /\ \A k, l \in 1..Len(all) : k < l => all[k] > all[l]
    BY <1>4, MatchingFacts
<1>6. Asked' = all
    BY <1>1 DEF Asked, Matching, Admits, SortLogs
<1>. HIDE DEF ns, all
<1>7. /\ ns \in Seq(Logs) /\ Len(ns) \in Nat
      /\ \A i \in 1..Len(ns) : i <= PageSize /\ i \in 1..Len(all) /\ ns[i] = all[i]
      /\ \A k \in 1..Len(all) : k <= PageSize => k \in 1..Len(ns)
  <2>1. ns \in Seq(Logs) /\ Len(ns) \in Nat
      BY <1>3 DEF IsPage
  <2>2. ASSUME NEW i \in 1..Len(ns) PROVE i <= PageSize /\ i \in 1..Len(all) /\ ns[i] = all[i]
    <3>1. 0 + i = i
        BY <2>1
    <3>2. i <= PageSize /\ 0 + i \in 1..Len(all) /\ ns[i] = all[0 + i]
        BY <1>3 DEF IsPage
    <3>. QED
        BY <3>1, <3>2
  <2>3. ASSUME NEW k \in 1..Len(all), k <= PageSize PROVE k \in 1..Len(ns)
    <3>1. 0 < k /\ k <= 0 + PageSize /\ k - 0 = k
        BY <1>5, <2>3, ViewportConstants
    <3>2. k - 0 \in 1..Len(ns)
        BY <1>3, <3>1 DEF IsPage
    <3>. QED
        BY <3>1, <3>2
  <2>. QED
      BY <2>1, <2>2, <2>3
<1>8. /\ logs' \in Seq(Entries) /\ Len(logs') = Len(ns)
      /\ \A i \in 1..Len(ns) : logs'[i].log = all[i] /\ all[i] \in Nat
  <2>1. \A i \in 1..Len(ns) : all[i] \in Nat
      BY <1>5, <1>7, ViewportConstants
  <2>. QED
      BY <1>1, <1>7, <2>1, EntriesAre
<1>9. OrderInv'
  <2>1. ASSUME NEW i \in 1..Len(ns), NEW j \in 1..Len(ns), i < j PROVE all[i] >= all[j]
    <3>1. all[i] > all[j] /\ all[i] \in Nat /\ all[j] \in Nat
        BY <1>5, <1>7, <1>8, <2>1
    <3>. QED
        BY <3>1
  <2>. QED
      BY <1>8, <2>1 DEF OrderInv, InOrder
<1>10. PagesInv'
  <2>1. lastPage' \in Nat \ {0} /\ shownAt' \in 0..stored' /\ lastPage' * PageSize = PageSize
      BY <1>1, <1>3, ViewportConstants
  <2>2. logs' = <<>> => Len(all) = 0
    <3> SUFFICES ASSUME Len(all) # 0 PROVE logs' # <<>>
        OBVIOUS
    <3>1. 1 \in 1..Len(all) /\ 1 <= PageSize
        BY <1>5, ViewportConstants
    <3>2. 1 \in 1..Len(logs')
        BY <1>7, <1>8, <3>1
    <3>. QED
        BY <3>2
  <2>3. \A i \in 1..Len(logs') : logs'[i].log <= shownAt' /\ Admits(tri', logs'[i].log)
      BY <1>1, <1>5, <1>7, <1>8
  <2>4. ASSUME NEW i \in 1..Len(logs'), NEW k \in 1..Len(all), k > PageSize
        PROVE  logs'[i].log >= all[k]
    <3>1. i < k /\ i \in 1..Len(all)
        BY <1>5, <1>7, <1>8, <2>4, ViewportConstants
    <3>2. all[i] > all[k] /\ all[i] \in Nat /\ all[k] \in Nat
        BY <1>5, <3>1, ViewportConstants
    <3>. QED
        BY <1>8, <3>2
  <2>5. \A k \in 1..Len(all) : k <= PageSize => \E i \in 1..Len(logs') : logs'[i].log = all[k]
      BY <1>7, <1>8
  <2>. QED
      BY <1>6, <2>1, <2>2, <2>3, <2>4, <2>5 DEF PagesInv, Shows
<1>11. ASSUME ~missed, NEW n \in Logs, Admits(tri, n),
              NEW i \in 1..Len(logs'), logs'[i].log <= n,
              n <= firstPage.at \/ n <= Delivered
       PROVE  \E j \in 1..Len(logs') : logs'[j].log = n
  <2>1. n <= firstPage.at /\ n \in Nat
    <3>1. n \in Nat /\ stored \in Nat /\ Len(pushed) \in Nat
        BY ViewportConstants DEF ViewportTyped
    <3>. QED
        BY <1>3, <1>4, <1>11, <3>1 DEF Delivered
  <2>2. PICK k \in 1..Len(all) : all[k] = n
      BY <1>5, <1>11, <2>1
  <2>3. all[i] <= all[k] /\ i \in 1..Len(ns) /\ i \in 1..Len(all) /\ i <= PageSize
      BY <1>7, <1>8, <1>11, <2>2
  <2>4. ~(i < k)
    <3>1. i < k => all[i] > all[k]
        BY <1>5, <2>3
    <3>2. all[i] \in Nat /\ all[k] \in Nat
        BY <1>8, <2>1, <2>2, <2>3
    <3>. QED
        BY <2>3, <3>1, <3>2
  <2>5. k \in 1..Len(ns)
      BY <1>5, <1>7, <2>3, <2>4, ViewportConstants
  <2>. QED
      BY <1>8, <2>2, <2>5
<1>12. \A n : Admits(tri', n) <=> Admits(tri, n)
    BY <1>1 DEF Admits
<1>13. Delivered' = Delivered
    BY <1>1 DEF Delivered
<1>14. GapsInv'
    BY <1>1, <1>11, <1>12, <1>13 DEF GapsInv, Shows, ReachesTo
<1>. QED
    BY <1>8, <1>9, <1>10, <1>14

LEMMA NextPageShown ==
    ASSUME ViewportTyped, NextPageInv, OrderInv, PagesInv, GapsInv, NextPageArrives
    PROVE  logs' \in Seq(Entries) /\ OrderInv' /\ PagesInv' /\ GapsInv'
<1>1. /\ nextPage.read
      /\ UNCHANGED <<stored, pushed, tri, queuedLogs, maxLogsInMemory, firstPage, filtersOn,
                     shownAt, missed>>
    BY DEF NextPageArrives, options
<1>2. Delivered' = Delivered
    BY <1>1 DEF Delivered
<1>3. CASE nextPage.answer = <<>>
  <2>1. UNCHANGED <<logs, stale, lastPage>>
      BY <1>3 DEF NextPageArrives
  <2>2. Settled' => Settled /\ shownAt \in 0..stored'
      BY <1>1, <2>1 DEF Settled, PagesInv
  <2>3. OrderInv' /\ PagesInv' /\ GapsInv'
      BY <1>1, <1>2, <2>1, <2>2, ListFrame
  <2>. QED
      BY <2>1, <2>3 DEF ViewportTyped
<1>4. CASE nextPage.answer # <<>>
  <2> DEFINE ns == nextPage.answer
             full == logs \o Paged(ns)
  <2>1. /\ logs' = ApplyMemoryLimit(full)
        /\ stale' = (stale \/ ~Follows(nextPage)) /\ lastPage' = nextPage.page
      BY <1>4 DEF NextPageArrives, ProcessAppendLogs
  <2>2. /\ nextPage.page \in Nat /\ nextPage.page > 0 /\ nextPage.at \in 0..stored
        /\ IsPage(ns, Matching(nextPage.tri, nextPage.at), (nextPage.page - 1) * PageSize)
      BY <1>1 DEF NextPageInv
  <2>3. ns \in Seq(Logs) /\ Len(ns) \in Nat /\ logs \in Seq(Entries) /\ Len(logs) \in Nat
      BY <2>2 DEF IsPage, ViewportTyped
  <2>4. /\ full \in Seq(Entries) /\ Len(full) = Len(logs) + Len(ns)
        /\ \A i \in 1..Len(logs) : full[i] = logs[i]
        /\ \A i \in 1..Len(ns) : /\ full[Len(logs) + i].log = ns[i]
                                 /\ full[Len(logs) + i].from = "page"
    <3>1. /\ Paged(ns) \in Seq(Entries) /\ Len(Paged(ns)) = Len(ns)
          /\ \A i \in 1..Len(ns) : Paged(ns)[i].log = ns[i] /\ Paged(ns)[i].from = "page"
        BY <2>3, EntriesAre
    <3>. HIDE DEF ns
    <3>2. \A a, b \in Seq(Entries) :
             /\ a \o b \in Seq(Entries) /\ Len(a \o b) = Len(a) + Len(b) /\ Len(b) \in Nat
             /\ \A i \in 1..Len(a) : (a \o b)[i] = a[i]
             /\ \A i \in 1..Len(b) : (a \o b)[Len(a) + i] = b[i]
        OBVIOUS
    <3>3. /\ full \in Seq(Entries) /\ Len(full) = Len(logs) + Len(Paged(ns))
          /\ \A i \in 1..Len(logs) : full[i] = logs[i]
          /\ \A i \in 1..Len(Paged(ns)) : full[Len(logs) + i] = Paged(ns)[i]
        BY <2>3, <3>1, <3>2, Zenon
    <3>. QED
        BY <3>1, <3>3
  <2>. HIDE DEF full
  <2>5. /\ logs' \in Seq(Entries) /\ Len(logs') \in Nat /\ Len(logs') <= Len(full)
        /\ \A i \in 1..Len(logs') : logs'[i] = full[i]
        /\ \/ Len(logs') = maxLogsInMemory
           \/ Len(logs') = Len(full) /\ Len(full) < maxLogsInMemory
      BY <2>1, <2>4, LimitFacts DEF ViewportTyped
  <2>6. CASE stale'
      BY <2>5, <2>6 DEF OrderInv, PagesInv, GapsInv, Settled
  <2>7. CASE ~stale'
    <3>1. /\ ~stale /\ Settled /\ nextPage.tri = tri /\ nextPage.at = shownAt
          /\ nextPage.page = lastPage + 1
        BY <2>1, <2>7 DEF Follows, Settled
    <3> DEFINE all == Asked
               lo == lastPage * PageSize
    <3>2. lastPage \in Nat \ {0} /\ shownAt \in 0..stored /\ PagesInv
        BY <3>1 DEF PagesInv
    <3>3. /\ (nextPage.page - 1) * PageSize = lo /\ lo \in Nat /\ lo >= PageSize
          /\ lastPage' * PageSize = lo + PageSize
      <4>1. nextPage.page - 1 = lastPage
          BY <3>1, <3>2
      <4>2. /\ lastPage * PageSize \in Nat
            /\ (lastPage + 1) * PageSize = lastPage * PageSize + PageSize
          BY <3>2, ViewportConstants
      <4>3. lastPage - 1 \in Nat /\ (lastPage - 1) + 1 = lastPage
          BY <3>2
      <4>4. (lastPage - 1) * PageSize \in Nat
            /\ lastPage * PageSize = (lastPage - 1) * PageSize + PageSize
          BY <4>3, ViewportConstants
      <4>. QED
          BY <2>1, <3>1, <4>1, <4>2, <4>4, ViewportConstants
    <3>. HIDE DEF lo
    <3>4. IsPage(ns, all, lo)
        BY <2>2, <3>1, <3>3 DEF Asked
    <3>5. shownAt \in 0..Len(LevelOf) /\ shownAt \in Nat
      <4>1. stored \in 0..Len(LevelOf)
          BY DEF ViewportTyped
      <4>. QED
          BY <3>2, <4>1, ViewportConstants
    <3>6. /\ all \in Seq(Logs) /\ Len(all) \in Nat
          /\ \A k \in 1..Len(all) : all[k] \in Logs /\ all[k] <= shownAt /\ Admits(tri, all[k])
          /\ \A n \in Logs : n <= shownAt /\ Admits(tri, n) => \E k \in 1..Len(all) : all[k] = n
          /\ \A k, l \in 1..Len(all) : k < l => all[k] > all[l]
        BY <3>5, MatchingFacts DEF Asked
    <3>. HIDE DEF all, ns
    <3>7. /\ \A i \in 1..Len(ns) : i <= PageSize /\ lo + i \in 1..Len(all) /\ ns[i] = all[lo + i]
          /\ \A k \in 1..Len(all) : lo < k /\ k <= lo + PageSize => k - lo \in 1..Len(ns)
        BY <3>4 DEF IsPage
    <3>8. /\ \A i \in 1..Len(logs), k \in 1..Len(all) : k > lo => logs[i].log >= all[k]
          /\ \A i \in 1..Len(logs) : logs[i].log <= shownAt \/ logs[i].log <= Delivered
          /\ \A i \in 1..Len(logs) : logs[i].from = "page" => Admits(tri, logs[i].log)
          /\ logs = <<>> => Len(all) = 0
          /\ \/ Len(logs) >= maxLogsInMemory
             \/ \A k \in 1..Len(all) : k <= lo => Shows(logs, all[k])
        BY <3>1 DEF PagesInv, all, lo
    <3>9. /\ \A k \in 1..Len(all) : all[k] \in Nat
          /\ \A i \in 1..Len(logs) : logs[i].log \in Nat
          /\ \A i \in 1..Len(full) : full[i].log \in Nat
      <4>1. /\ \A i \in 1..Len(logs) : logs[i] \in Entries
            /\ \A i \in 1..Len(full) : full[i] \in Entries
          BY <2>3, <2>4
      <4>. QED
          BY <3>6, <4>1, ViewportConstants DEF Entries
    <3>10. ASSUME NEW i \in 1..Len(full), i \notin 1..Len(logs)
           PROVE  /\ i - Len(logs) \in 1..Len(ns) /\ lo + (i - Len(logs)) \in 1..Len(all)
                  /\ full[i].log = all[lo + (i - Len(logs))]
      <4>1. i - Len(logs) \in 1..Len(ns) /\ Len(logs) + (i - Len(logs)) = i
          BY <2>3, <2>4, <3>10
      <4>. QED
          BY <2>4, <3>7, <4>1
    <3>11. InOrder(full)
      <4> SUFFICES ASSUME NEW i \in 1..Len(full), NEW j \in 1..Len(full), i < j
                   PROVE  full[i].log >= full[j].log
          BY DEF InOrder
      <4>0. \A a, b \in 1..Len(logs) : a < b => logs[a].log >= logs[b].log
          BY <3>1 DEF OrderInv, InOrder
      <4>1. CASE j \in 1..Len(logs)
        <5>1. i \in 1..Len(logs)
            BY <2>3, <2>4, <4>1
        <5>. QED
            BY <2>4, <4>0, <4>1, <5>1
      <4>2. CASE i \in 1..Len(logs) /\ j \notin 1..Len(logs)
        <5>1. /\ lo + (j - Len(logs)) \in 1..Len(all) /\ lo + (j - Len(logs)) > lo
              /\ full[j].log = all[lo + (j - Len(logs))]
            BY <2>3, <3>3, <3>10, <4>2
        <5>2. full[i] = logs[i]
            BY <2>4, <4>2
        <5>. QED
            BY <3>8, <4>2, <5>1, <5>2
      <4>3. CASE i \notin 1..Len(logs)
        <5>1. j \notin 1..Len(logs)
            BY <2>3, <2>4, <4>3
        <5>2. /\ lo + (i - Len(logs)) \in 1..Len(all) /\ lo + (j - Len(logs)) \in 1..Len(all)
              /\ full[i].log = all[lo + (i - Len(logs))]
              /\ full[j].log = all[lo + (j - Len(logs))]
            BY <3>10, <4>3, <5>1
        <5>3. lo + (i - Len(logs)) < lo + (j - Len(logs))
            BY <2>3, <2>4, <3>3
        <5>4. full[i].log > full[j].log
            BY <3>6, <5>2, <5>3
        <5>. QED
            BY <3>9, <5>4
      <4>. QED
          BY <4>1, <4>2, <4>3
    <3>12. \A i \in 1..Len(logs') : i \in 1..Len(full)
        BY <2>3, <2>4, <2>5
    <3>13. OrderInv'
        BY <2>5, <3>11, <3>12 DEF OrderInv, InOrder
    <3>14. Asked' = all /\ \A n : Admits(tri', n) <=> Admits(tri, n)
        BY <1>1, MatchingIsFixed DEF all
    <3>15. PagesInv'
      <4>1. lastPage' \in Nat \ {0} /\ shownAt' \in 0..stored'
          BY <1>1, <2>1, <2>2, <3>2
      <4>2. logs' = <<>> => Len(all) = 0
        <5>1. logs' = <<>> => Len(full) = 0
            BY <2>3, <2>4, <2>5 DEF ViewportTyped
        <5>2. Len(full) = 0 => logs = <<>>
            BY <2>3, <2>4
        <5>. QED
            BY <3>8, <5>1, <5>2
      <4>3. ASSUME NEW i \in 1..Len(logs')
            PROVE  /\ logs'[i].log <= shownAt' \/ logs'[i].log <= Delivered'
                   /\ logs'[i].from = "page" => Admits(tri', logs'[i].log)
        <5>0. logs'[i] = full[i] /\ i \in 1..Len(full)
            BY <2>5, <3>12
        <5>1. CASE i \in 1..Len(logs)
            BY <1>1, <1>2, <2>4, <3>8, <3>14, <5>0, <5>1
        <5>2. CASE i \notin 1..Len(logs)
            BY <1>1, <3>6, <3>10, <3>14, <5>0, <5>2
        <5>. QED
            BY <5>1, <5>2
      <4>4. ASSUME NEW i \in 1..Len(logs'), NEW k \in 1..Len(all), k > lo + PageSize
            PROVE  logs'[i].log >= all[k]
        <5>0. logs'[i] = full[i] /\ i \in 1..Len(full)
            BY <2>5, <3>12
        <5>1. CASE i \in 1..Len(logs)
          <6>1. k > lo
              BY <3>3, <3>6, <4>4, ViewportConstants
          <6>. QED
              BY <2>4, <3>8, <5>0, <5>1, <6>1
        <5>2. CASE i \notin 1..Len(logs)
          <6>1. /\ lo + (i - Len(logs)) \in 1..Len(all) /\ i - Len(logs) <= PageSize
                /\ full[i].log = all[lo + (i - Len(logs))]
              BY <3>7, <3>10, <5>0, <5>2
          <6>2. lo + (i - Len(logs)) < k
              BY <2>3, <3>3, <3>6, <4>4, <6>1, ViewportConstants
          <6>3. full[i].log > all[k]
              BY <3>6, <6>1, <6>2
          <6>. QED
              BY <3>9, <5>0, <6>3
        <5>. QED
            BY <5>1, <5>2
      <4>5. \/ Len(logs') >= maxLogsInMemory
            \/ \A k \in 1..Len(all) : k <= lo + PageSize => Shows(logs', all[k])
        <5>1. CASE Len(logs') = maxLogsInMemory
            BY <2>5, <5>1
        <5>2. CASE Len(logs') = Len(full) /\ Len(full) < maxLogsInMemory
          <6>1. ~(Len(logs) >= maxLogsInMemory)
              BY <2>3, <2>4, <5>2 DEF ViewportTyped
          <6>2. ASSUME NEW k \in 1..Len(all), k <= lo + PageSize PROVE Shows(logs', all[k])
            <7>1. CASE k <= lo
              <8>1. PICK j \in 1..Len(logs) : logs[j].log = all[k]
                  BY <3>8, <6>1, <7>1 DEF Shows
              <8>2. j \in 1..Len(logs') /\ logs'[j] = logs[j]
                  BY <2>3, <2>4, <2>5, <5>2
              <8>. QED
                  BY <8>1, <8>2 DEF Shows
            <7>2. CASE ~(k <= lo)
              <8>1. k - lo \in 1..Len(ns) /\ lo + (k - lo) = k
                  BY <3>3, <3>6, <3>7, <6>2, <7>2
              <8>2. /\ Len(logs) + (k - lo) \in 1..Len(full)
                    /\ full[Len(logs) + (k - lo)].log = all[k]
                  BY <2>3, <2>4, <3>7, <8>1
              <8>. QED
                  BY <2>5, <5>2, <8>2 DEF Shows
            <7>. QED
                BY <7>1, <7>2
          <6>. QED
              BY <6>2
        <5>. QED
            BY <2>5, <5>1, <5>2
      <4>. QED
          BY <1>1, <3>3, <3>14, <4>1, <4>2, <4>3, <4>4, <4>5 DEF PagesInv, Shows
    <3>16. ASSUME ~missed, NEW n \in Logs, Admits(tri, n), ReachesTo(logs', n),
                  n <= shownAt \/ n <= Delivered
           PROVE  Shows(logs', n) \/ Held(n)
      <4>1. Shows(full, n) => Shows(logs', n)
        <5>1. maxLogsInMemory \in Nat \ {0}
            BY DEF ViewportTyped
        <5>. QED
            BY <2>1, <2>4, <3>11, <3>16, <5>1, LimitKeeps
      <4>2. Shows(logs, n) => Shows(full, n)
        <5>1. \A i \in 1..Len(logs) : i \in 1..Len(full)
            BY <2>3, <2>4
        <5>. QED
            BY <2>4, <5>1 DEF Shows
      <4>3. CASE ReachesTo(logs, n)
          BY <3>1, <3>16, <4>1, <4>2, <4>3 DEF GapsInv
      <4>4. CASE ~ReachesTo(logs, n)
        <5>1. PICK i \in 1..Len(logs') : logs'[i].log <= n
            BY <3>16 DEF ReachesTo
        <5>2. logs'[i] = full[i] /\ i \in 1..Len(full)
            BY <2>5, <3>12
        <5>3. i \notin 1..Len(logs)
            BY <2>4, <4>4, <5>1, <5>2 DEF ReachesTo
        <5>4. /\ lo + (i - Len(logs)) \in 1..Len(all) /\ i - Len(logs) \in 1..Len(ns)
              /\ i - Len(logs) <= PageSize /\ all[lo + (i - Len(logs))] <= n
            BY <3>7, <3>10, <5>1, <5>2, <5>3
        <5>5. ~(Len(logs) >= maxLogsInMemory)
            BY <2>3, <2>4, <2>5, <5>3 DEF ViewportTyped
        <5>6. \A k \in 1..Len(all) : k <= lo => Shows(logs, all[k])
            BY <3>8, <5>5
        <5>7. n <= shownAt
          <6>1. 1 \in 1..Len(all) /\ 1 <= lo
              BY <3>3, <3>6, <5>4, ViewportConstants
          <6>2. PICK j \in 1..Len(logs) : logs[j].log = all[1]
              BY <5>6, <6>1 DEF Shows
          <6>3. ~(logs[j].log <= n) /\ all[1] <= shownAt /\ all[1] \in Nat /\ n \in Nat
              BY <3>6, <3>9, <4>4, <6>1, ViewportConstants DEF ReachesTo
          <6>. QED
              BY <3>5, <6>2, <6>3
        <5>8. PICK k \in 1..Len(all) : all[k] = n
            BY <3>6, <3>16, <5>7
        <5>9. ~(k <= lo)
          <6>1. \A j \in 1..Len(logs) : logs[j].log # n
            <7>1. n \in Nat /\ n <= n
                BY ViewportConstants
            <7>. QED
                BY <4>4, <7>1 DEF ReachesTo
          <6>. QED
              BY <5>6, <5>8, <6>1 DEF Shows
        <5>10. ~(lo + (i - Len(logs)) < k)
          <6>1. lo + (i - Len(logs)) < k => all[lo + (i - Len(logs))] > all[k]
              BY <3>6, <5>4
          <6>. QED
              BY <3>9, <5>4, <5>8, <6>1
        <5>11. k - lo \in 1..Len(ns) /\ lo + (k - lo) = k
            BY <2>3, <3>3, <3>6, <3>7, <5>4, <5>9, <5>10, ViewportConstants
        <5>12. /\ Len(logs) + (k - lo) \in 1..Len(full)
               /\ full[Len(logs) + (k - lo)].log = n
            BY <2>3, <2>4, <3>7, <5>8, <5>11
        <5>. QED
            BY <4>1, <5>12 DEF Shows
      <4>. QED
          BY <4>3, <4>4
    <3>17. GapsInv'
        BY <1>1, <1>2, <3>14, <3>16 DEF GapsInv, Shows, ReachesTo, Held
    <3>. QED
        BY <2>5, <3>13, <3>15, <3>17
  <2>. QED
      BY <2>6, <2>7
<1>. QED
    BY <1>3, <1>4

\* A step that puts nothing into the list.
Unlisted ==
    \/ WriteLog \/ ReadFirstPage \/ ReadNextPage \/ FirstPageFails \/ NextPageFails
    \/ \E t \in TriStates : ChooseFilter(t)
    \/ LoadMore \/ ToggleLiveUpdates \/ ToggleGrouping
    \/ \E l \in LogLevels : OnlyLevel(l) \/ HideLevel(l)
    \/ \E i \in Logs : ToggleGroupExpansion(i)
    \/ UNCHANGED viewportVars

ViewportInv ==
    /\ ViewportTyped
    /\ QueueInv
    /\ RequestsTyped /\ FirstPageInv /\ NextPageInv
    /\ OrderInv /\ PagesInv /\ GapsInv

\* A new request, and one that the endpoint has read the lines for.
LEMMA NoRequestFacts == NoRequest \in Requests /\ NoRequest.page = 0 /\ ~NoRequest.read
<1> DEFINE none == [inc |-> {}, exc |-> {}]
<1>1. NoRequest = [page |-> 0, tri |-> none, read |-> FALSE, at |-> 0, answer |-> <<>>]
    BY DEF NoRequest
<1>2. NoRequest.page = 0 /\ ~NoRequest.read /\ NoRequest.tri = none
    BY <1>1
<1>. HIDE DEF none
<1>3. <<>> \in Seq(Logs)
    OBVIOUS
<1>. QED
    BY <1>1, <1>2, <1>3 DEF Requests

LEMMA ViewportStart == ViewportInit => ViewportInv
<1> SUFFICES ASSUME ViewportInit PROVE ViewportInv
    OBVIOUS
<1>1. /\ <<>> \in Seq(Logs) /\ <<>> \in Seq(Entries) /\ Len(<<>>) = 0
      /\ \A i \in 1..0 : FALSE
    OBVIOUS
<1>2. stored \in 0..Len(LevelOf) /\ stored \in Nat
  <2>1. stored \in 0..InitialLogs /\ InitialLogs \in 0..Len(LevelOf)
      BY ViewportAssumption DEF ViewportInit
  <2>. QED
      BY <2>1, ViewportConstants
<1>3. /\ firstPage # NoRequest /\ ~firstPage.read /\ firstPage.page = 1 /\ firstPage.tri = tri
      /\ firstPage \in Requests /\ nextPage \in Requests
  <2>1. firstPage = [NoRequest EXCEPT !.page = 1, !.tri = tri] /\ nextPage = NoRequest
        /\ tri \in TriStates
      BY DEF ViewportInit
  <2>2. firstPage \in Requests /\ firstPage.page = 1 /\ firstPage.tri = tri /\ ~firstPage.read
      BY <2>1, NoRequestFacts DEF Requests
  <2>3. firstPage # NoRequest
      BY <2>2, NoRequestFacts
  <2>4. nextPage \in Requests
      BY <2>1, NoRequestFacts
  <2>. QED
      BY <2>2, <2>3, <2>4
<1>4. ViewportTyped
  <2>1. /\ pushed = <<>> /\ tri \in TriStates /\ selectedLogLevel = {} /\ page = 1 /\ turns = 0
        /\ logs = <<>> /\ queuedLogs = <<>> /\ maxLogsInMemory \in MemoryLimits
        /\ filtersOn = TRUE /\ monitoring = FALSE /\ isLiveUpdatesEnabled = TRUE
        /\ stale = FALSE /\ missed = FALSE
      BY DEF ViewportInit
  <2>2. 0 \in 0..MaxTurns /\ maxLogsInMemory \in Nat \ {0}
      BY <2>1, ViewportAssumption
  <2>3. /\ pushed \in Seq(Logs) /\ Len(pushed) = 0 /\ logs \in Seq(Entries)
        /\ queuedLogs \in Seq(Logs) /\ \A i \in 1..Len(pushed) : FALSE
      BY <1>1, <2>1
  <2>4. Len(pushed) <= stored /\ {} \subseteq LogLevels /\ 1 \in Nat \ {0}
      BY <1>2, <2>3
  <2>. QED
      BY <1>2, <2>1, <2>2, <2>3, <2>4 DEF ViewportTyped
<1>5. QueueInv
    BY DEF ViewportInit, QueueInv, QueueEndsWithPause
<1>6. FirstPageInv
    BY <1>3 DEF ViewportInit, FirstPageInv
<1>7. NextPageInv
    BY DEF ViewportInit, NextPageInv, NoRequest
<1>8. OrderInv
    BY <1>1 DEF ViewportInit, OrderInv, InOrder
<1>9. PagesInv /\ GapsInv
    BY <1>3 DEF PagesInv, GapsInv, Settled
<1>. QED
    BY <1>3, <1>4, <1>5, <1>6, <1>7, <1>8, <1>9 DEF ViewportInv, RequestsTyped

LEMMA UnlistedTyped == ASSUME ViewportTyped, Unlisted PROVE ViewportTyped' /\ Delivered' = Delivered
<1>1. /\ stored \in Nat /\ Len(pushed) \in Nat /\ Len(LevelOf) \in Nat /\ turns \in 0..MaxTurns
      /\ MaxTurns \in Nat /\ turns \in Nat
    BY ViewportConstants, ViewportAssumption DEF ViewportTyped
<1>2. CASE UNCHANGED <<stored, pushed, tri, selectedLogLevel, page, turns, logs, queuedLogs,
                       maxLogsInMemory, filtersOn, monitoring, isLiveUpdatesEnabled, stale,
                       missed>>
    BY <1>2 DEF ViewportTyped, Delivered
<1>3. CASE WriteLog
  <2>1. /\ stored' = stored + 1 /\ pushed' = Append(pushed, stored + 1)
        /\ stored < Len(LevelOf)
        /\ UNCHANGED <<tri, selectedLogLevel, page, turns, logs, queuedLogs, maxLogsInMemory,
                       filtersOn, monitoring, isLiveUpdatesEnabled, stale, missed>>
      BY <1>3 DEF WriteLog, options, requests
  <2>2. stored + 1 \in Logs /\ stored' \in 0..Len(LevelOf)
      BY <1>1, <2>1, ViewportConstants
  <2>3. /\ pushed' \in Seq(Logs) /\ Len(pushed') = Len(pushed) + 1
        /\ pushed'[Len(pushed) + 1] = stored + 1
        /\ \A i \in 1..Len(pushed) : pushed'[i] = pushed[i]
      BY <2>1, <2>2 DEF ViewportTyped
  <2>4. Delivered' = Delivered /\ Len(pushed') <= stored'
      BY <1>1, <2>1, <2>3 DEF Delivered, ViewportTyped
  <2>5. ASSUME NEW i \in 1..Len(pushed') PROVE pushed'[i] = Delivered + i
    <3>1. CASE i = Len(pushed) + 1
        BY <1>1, <2>3, <3>1 DEF Delivered
    <3>2. CASE i # Len(pushed) + 1
      <4>1. i \in 1..Len(pushed)
          BY <1>1, <2>3, <3>2
      <4>2. pushed[i] = Delivered + i
          BY <4>1 DEF ViewportTyped
      <4>. QED
          BY <2>3, <4>1, <4>2
    <3>. QED
        BY <3>1, <3>2
  <2>. QED
      BY <2>1, <2>2, <2>3, <2>4, <2>5 DEF ViewportTyped
<1>4. CASE ReadFirstPage
  <2>1. /\ missed' = FALSE
        /\ UNCHANGED <<stored, pushed, tri, selectedLogLevel, page, turns, logs, queuedLogs,
                       maxLogsInMemory, filtersOn, monitoring, isLiveUpdatesEnabled, stale>>
      BY <1>4 DEF ReadFirstPage, options
  <2>. QED
      BY <2>1 DEF ViewportTyped, Delivered
<1>5. CASE FirstPageFails
  <2>1. /\ filtersOn' = FALSE
        /\ UNCHANGED <<stored, pushed, tri, selectedLogLevel, page, turns, logs, queuedLogs,
                       maxLogsInMemory, monitoring, isLiveUpdatesEnabled, stale, missed>>
      BY <1>5 DEF FirstPageFails, options
  <2>. QED
      BY <2>1 DEF ViewportTyped, Delivered
<1>6. CASE ReadNextPage \/ NextPageFails \/ UNCHANGED viewportVars
    BY <1>2, <1>6 DEF ReadNextPage, NextPageFails, viewportVars, options, requests
<1>7. ASSUME NEW t \in TriStates, ChooseFilter(t) PROVE ViewportTyped' /\ Delivered' = Delivered
  <2>1. /\ tri' = t /\ page' \in {1, page} /\ turns' \in 0..MaxTurns
        /\ UNCHANGED <<stored, pushed, selectedLogLevel, logs, queuedLogs, filtersOn,
                       maxLogsInMemory, monitoring, isLiveUpdatesEnabled, stale, missed>>
      BY <1>1, <1>7 DEF ChooseFilter
  <2>. QED
      BY <2>1 DEF ViewportTyped, Delivered
<1>8. CASE LoadMore
  <2>1. /\ page' = page + 1 /\ turns' \in 0..MaxTurns
        /\ UNCHANGED <<stored, pushed, tri, selectedLogLevel, logs, queuedLogs, filtersOn,
                       maxLogsInMemory, monitoring, isLiveUpdatesEnabled, stale, missed>>
      BY <1>1, <1>8 DEF LoadMore, options
  <2>. QED
      BY <2>1 DEF ViewportTyped, Delivered
<1>9. CASE ToggleLiveUpdates
  <2>1. /\ isLiveUpdatesEnabled' \in BOOLEAN /\ queuedLogs' \in {<<>>, queuedLogs}
        /\ missed' \in BOOLEAN /\ turns' \in 0..MaxTurns
        /\ UNCHANGED <<stored, pushed, tri, selectedLogLevel, page, logs, filtersOn,
                       maxLogsInMemory, monitoring, stale>>
      BY <1>1, <1>9 DEF ToggleLiveUpdates, ClearQueue, requests, ViewportTyped
  <2>2. queuedLogs' \in Seq(Logs)
    <3>1. <<>> \in Seq(Logs)
        OBVIOUS
    <3>. QED
        BY <2>1, <3>1 DEF ViewportTyped
  <2>. QED
      BY <2>1, <2>2 DEF ViewportTyped, Delivered
<1>10. ASSUME ToggleGrouping \/ \E i \in Logs : ToggleGroupExpansion(i)
       PROVE  ViewportTyped' /\ Delivered' = Delivered
  <2>1. /\ turns' \in 0..MaxTurns
        /\ UNCHANGED <<stored, pushed, tri, selectedLogLevel, page, logs, queuedLogs, filtersOn,
                       maxLogsInMemory, monitoring, isLiveUpdatesEnabled, stale, missed>>
      BY <1>1, <1>10 DEF ToggleGrouping, ToggleGroupExpansion, options, requests
  <2>. QED
      BY <2>1 DEF ViewportTyped, Delivered
<1>11. ASSUME NEW l \in LogLevels, OnlyLevel(l) \/ HideLevel(l)
       PROVE  ViewportTyped' /\ Delivered' = Delivered
  <2>1. /\ turns' \in 0..MaxTurns /\ selectedLogLevel' \subseteq LogLevels
        /\ UNCHANGED <<stored, pushed, tri, page, logs, queuedLogs, filtersOn,
                       maxLogsInMemory, monitoring, isLiveUpdatesEnabled, stale, missed>>
      BY <1>1, <1>11 DEF OnlyLevel, HideLevel, Select, requests, ViewportTyped
  <2>. QED
      BY <2>1 DEF ViewportTyped, Delivered
<1>. QED
    BY <1>3, <1>4, <1>5, <1>6, <1>7, <1>8, <1>9, <1>10, <1>11 DEF Unlisted

\* A page that is on its way stays what it is, unless a line is pushed that it lacks.
LEMMA FirstPageWaits ==
    ASSUME FirstPageInv, UNCHANGED <<firstPage, tri, filtersOn>>,
           stored \in Nat, stored' \in Nat, stored <= stored',
           ~missed' /\ firstPage.read => ~missed /\ (Delivered <= firstPage.at
                                                     => Delivered' <= firstPage.at)
    PROVE  FirstPageInv'
<1> SUFFICES ASSUME firstPage # NoRequest PROVE FirstPageInv'
    BY DEF FirstPageInv, NoRequest
<1>1. firstPage.page = 1 /\ firstPage.tri = tri /\ filtersOn
    BY DEF FirstPageInv
<1>2. ASSUME firstPage.read
      PROVE  /\ firstPage.at \in 0..stored'
             /\ IsPage(firstPage.answer, Matching(tri, firstPage.at), 0)
             /\ ~missed' => Delivered' <= firstPage.at
  <2>1. /\ firstPage.at \in 0..stored
        /\ IsPage(firstPage.answer, Matching(tri, firstPage.at), 0)
        /\ ~missed => Delivered <= firstPage.at
      BY <1>2 DEF FirstPageInv
  <2>2. ~missed' => Delivered' <= firstPage.at
      BY <1>2, <2>1
  <2>. QED
      BY <2>1, <2>2
<1>3. IsPage(firstPage.answer, Matching(tri, firstPage.at), 0)'
         <=> IsPage(firstPage.answer, Matching(tri, firstPage.at), 0)
    BY DEF IsPage, Matching, Admits, SortLogs
<1>. QED
    BY <1>1, <1>2, <1>3 DEF FirstPageInv

LEMMA NextPageWaits ==
    ASSUME NextPageInv, UNCHANGED nextPage, stored \in Nat, stored' \in Nat, stored <= stored'
    PROVE  NextPageInv'
<1>1. nextPage.page \in Nat
    BY DEF NextPageInv
<1>2. ASSUME nextPage.read
      PROVE  /\ nextPage.page > 0 /\ nextPage.at \in 0..stored'
             /\ IsPage(nextPage.answer, Matching(nextPage.tri, nextPage.at),
                       (nextPage.page - 1) * PageSize)
    BY <1>2 DEF NextPageInv
<1>3. LET isPage == IsPage(nextPage.answer, Matching(nextPage.tri, nextPage.at),
                           (nextPage.page - 1) * PageSize)
      IN  isPage' <=> isPage
    BY DEF IsPage, Matching, Admits, SortLogs
<1>. QED
    BY <1>1, <1>2, <1>3 DEF NextPageInv

LEMMA ReadFirstPageStep ==
    ASSUME ViewportTyped, RequestsTyped, FirstPageInv, NextPageInv, ReadFirstPage
    PROVE  RequestsTyped' /\ FirstPageInv' /\ NextPageInv' /\ ~Settled'
<1>1. /\ firstPage.page > 0 /\ UNCHANGED <<stored, pushed, tri, filtersOn, nextPage>>
      /\ firstPage' = [firstPage EXCEPT !.read = TRUE, !.at = stored,
                                        !.answer = PageOf(firstPage.tri, firstPage.page)]
    BY DEF ReadFirstPage, options
<1>2. firstPage # NoRequest
    BY <1>1, NoRequestFacts
<1>3. firstPage.page = 1 /\ firstPage.tri = tri /\ filtersOn
    BY <1>2 DEF FirstPageInv
<1>4. stored \in Nat /\ stored \in 0..Len(LevelOf) /\ Len(pushed) \in Nat /\ Len(pushed) <= stored
    BY ViewportConstants DEF ViewportTyped
<1>5. IsPage(PageOf(tri, 1), Matching(tri, stored), 0)
  <2>1. (1 - 1) * PageSize = 0
      BY ViewportConstants
  <2>2. IsPage(PageOf(tri, 1), Matching(tri, stored), (1 - 1) * PageSize)
      BY <1>4, PageFacts
  <2>. QED
      BY <2>1, <2>2
<1>6. PageOf(tri, 1) \in Seq(Logs)
    BY <1>5 DEF IsPage
<1>7. /\ firstPage' \in Requests /\ firstPage'.page = 1 /\ firstPage'.tri = tri
      /\ firstPage'.at = stored /\ firstPage'.answer = PageOf(tri, 1)
  <2>1. firstPage' = [firstPage EXCEPT !.read = TRUE, !.at = stored, !.answer = PageOf(tri, 1)]
      BY <1>1, <1>3
  <2>. QED
      BY <1>3, <1>4, <1>6, <2>1 DEF RequestsTyped, Requests
<1>8. Delivered' <= stored
    BY <1>1, <1>4 DEF Delivered
<1>9. FirstPageInv'
  <2>1. firstPage'.at \in 0..stored'
      BY <1>1, <1>4, <1>7
  <2>2. IsPage(firstPage'.answer, Matching(tri', firstPage'.at), 0)
      BY <1>1, <1>5, <1>7
  <2>. QED
      BY <1>1, <1>3, <1>7, <1>8, <2>1, <2>2
         DEF FirstPageInv, IsPage, Matching, Admits, SortLogs
<1>10. NextPageInv'
    BY <1>1, <1>4, NextPageWaits
<1>11. firstPage' # NoRequest
    BY <1>7, NoRequestFacts
<1>12. ~Settled'
    BY <1>11 DEF Settled, NoRequest
<1>. QED
    BY <1>1, <1>7, <1>9, <1>10, <1>12 DEF RequestsTyped

LEMMA ReadNextPageStep ==
    ASSUME ViewportTyped, RequestsTyped, FirstPageInv, NextPageInv, ReadNextPage
    PROVE  RequestsTyped' /\ FirstPageInv' /\ NextPageInv'
<1>1. /\ nextPage.page > 0
      /\ UNCHANGED <<stored, pushed, tri, filtersOn, firstPage, missed>>
      /\ nextPage' = [nextPage EXCEPT !.read = TRUE, !.at = stored,
                                      !.answer = PageOf(nextPage.tri, nextPage.page)]
    BY DEF ReadNextPage, options
<1> DEFINE p == nextPage.page
           t == nextPage.tri
<1>2. stored \in Nat /\ stored \in 0..Len(LevelOf) /\ p \in Nat /\ p > 0
    BY <1>1, ViewportConstants DEF ViewportTyped, NextPageInv
<1>. HIDE DEF p, t
<1>3. IsPage(PageOf(t, p), Matching(t, stored), (p - 1) * PageSize)
    BY <1>2, PageFacts
<1>4. PageOf(t, p) \in Seq(Logs)
    BY <1>3 DEF IsPage
<1>5. /\ nextPage' \in Requests /\ nextPage'.page = p /\ nextPage'.tri = t
      /\ nextPage'.at = stored /\ nextPage'.answer = PageOf(t, p)
  <2>1. nextPage' = [nextPage EXCEPT !.read = TRUE, !.at = stored, !.answer = PageOf(t, p)]
      BY <1>1 DEF p, t
  <2>. QED
      BY <1>2, <1>4, <2>1 DEF RequestsTyped, Requests, p, t
<1>6. NextPageInv'
  <2>1. /\ nextPage'.page \in Nat /\ nextPage'.page > 0 /\ nextPage'.at \in 0..stored'
        /\ IsPage(nextPage'.answer, Matching(nextPage'.tri, nextPage'.at),
                  (nextPage'.page - 1) * PageSize)
      BY <1>1, <1>2, <1>3, <1>5
  <2>. QED
      BY <2>1 DEF NextPageInv, IsPage, Matching, Admits, SortLogs
<1>7. FirstPageInv'
  <2>1. Delivered' = Delivered
      BY <1>1 DEF Delivered
  <2>. QED
      BY <1>1, <1>2, <2>1, FirstPageWaits
<1>. QED
    BY <1>1, <1>5, <1>6, <1>7 DEF RequestsTyped

LEMMA ChooseFilterStep ==
    ASSUME ViewportTyped, RequestsTyped, FirstPageInv, NextPageInv,
           NEW t \in TriStates, ChooseFilter(t)
    PROVE  RequestsTyped' /\ FirstPageInv' /\ NextPageInv' /\ ~Settled'
<1>1. /\ tri' = t /\ UNCHANGED <<stored, nextPage, filtersOn>>
      /\ filtersOn => firstPage' = [NoRequest EXCEPT !.page = 1, !.tri = t]
      /\ ~filtersOn => firstPage' = firstPage
    BY DEF ChooseFilter, Fetch
<1>2. NextPageInv'
  <2>1. stored \in Nat
      BY ViewportConstants DEF ViewportTyped
  <2>. QED
      BY <1>1, <2>1, NextPageWaits
<1>3. CASE filtersOn
  <2>0. firstPage' = [NoRequest EXCEPT !.page = 1, !.tri = t]
      BY <1>1, <1>3
  <2>1. /\ firstPage' \in Requests /\ firstPage'.page = 1 /\ firstPage'.tri = t
        /\ ~firstPage'.read
      BY <2>0, NoRequestFacts DEF Requests
  <2>2. firstPage' # NoRequest
      BY <2>1, NoRequestFacts
  <2>3. FirstPageInv'
      BY <1>1, <1>3, <2>1 DEF FirstPageInv
  <2>. QED
      BY <1>1, <1>2, <2>1, <2>2, <2>3 DEF RequestsTyped, Settled, NoRequest
<1>4. CASE ~filtersOn
  <2>1. firstPage = NoRequest
      BY <1>4 DEF FirstPageInv
  <2>2. FirstPageInv'
      BY <1>1, <1>4, <2>1 DEF FirstPageInv, NoRequest
  <2>. QED
      BY <1>1, <1>2, <1>4, <2>2 DEF RequestsTyped, Settled
<1>. QED
    BY <1>3, <1>4

\* A step that leaves the list and the page that is awaited as they are.
LEMMA StillListed ==
    ASSUME ViewportTyped, FirstPageInv, OrderInv, PagesInv, GapsInv,
           UNCHANGED <<firstPage, tri, filtersOn, logs, stale, maxLogsInMemory, shownAt,
                       lastPage>>,
           stored' \in Nat, stored <= stored', Delivered' = Delivered,
           ~missed' => ~missed /\ queuedLogs' = queuedLogs
    PROVE  FirstPageInv' /\ OrderInv' /\ PagesInv' /\ GapsInv'
<1>1. stored \in Nat
    BY ViewportConstants DEF ViewportTyped
<1>2. FirstPageInv'
    BY <1>1, FirstPageWaits
<1>3. Settled' = Settled
    BY DEF Settled, NoRequest
<1>4. Settled => shownAt \in 0..stored'
    BY <1>1 DEF PagesInv
<1>. QED
    BY <1>2, <1>3, <1>4, ListFrame

LEMMA UnlistedStep ==
    ASSUME ViewportInv, Unlisted
    PROVE  /\ RequestsTyped' /\ FirstPageInv' /\ NextPageInv'
           /\ OrderInv' /\ PagesInv' /\ GapsInv'
<1>. USE DEF ViewportInv
<1>1. stored \in Nat /\ Delivered' = Delivered
    BY UnlistedTyped, ViewportConstants DEF ViewportTyped
<1>2. ASSUME UNCHANGED <<firstPage, tri, filtersOn, logs, stale, maxLogsInMemory, shownAt,
                         lastPage, stored>>,
             ~missed' => ~missed /\ queuedLogs' = queuedLogs
      PROVE  FirstPageInv' /\ OrderInv' /\ PagesInv' /\ GapsInv'
    BY <1>1, <1>2, StillListed
<1>3. ASSUME UNCHANGED <<logs, stale, maxLogsInMemory>>, ~Settled'
      PROVE  OrderInv' /\ PagesInv' /\ GapsInv'
    BY <1>1, <1>3, ListFrame
<1>4. ASSUME UNCHANGED <<stored, nextPage>> PROVE NextPageInv'
    BY <1>1, <1>4, NextPageWaits
<1>5. CASE WriteLog
  <2>1. /\ stored' = stored + 1
        /\ UNCHANGED <<firstPage, nextPage, tri, filtersOn, logs, stale, maxLogsInMemory,
                       shownAt, lastPage, missed, queuedLogs>>
      BY <1>5 DEF WriteLog, options, requests, history
  <2>2. FirstPageInv' /\ OrderInv' /\ PagesInv' /\ GapsInv'
      BY <1>1, <2>1, StillListed
  <2>3. NextPageInv'
      BY <1>1, <2>1, NextPageWaits
  <2>. QED
      BY <2>1, <2>2, <2>3 DEF RequestsTyped
<1>6. CASE ReadFirstPage
  <2>1. UNCHANGED <<logs, stale, maxLogsInMemory>>
      BY <1>6 DEF ReadFirstPage, options
  <2>. QED
      BY <1>3, <1>6, <2>1, ReadFirstPageStep
<1>7. CASE ReadNextPage
  <2>1. UNCHANGED <<firstPage, tri, filtersOn, logs, stale, maxLogsInMemory, shownAt,
                    lastPage, stored, missed, queuedLogs>>
      BY <1>7 DEF ReadNextPage, options, history
  <2>. QED
      BY <1>2, <1>7, <2>1, ReadNextPageStep
<1>8. CASE FirstPageFails
  <2>1. /\ firstPage' = NoRequest /\ filtersOn' = FALSE
        /\ UNCHANGED <<logs, stale, maxLogsInMemory, stored, nextPage>>
      BY <1>8 DEF FirstPageFails, options
  <2>2. ~Settled' /\ FirstPageInv'
      BY <2>1 DEF Settled, FirstPageInv, NoRequest
  <2>3. RequestsTyped'
      BY <2>1, NoRequestFacts DEF RequestsTyped
  <2>. QED
      BY <1>3, <1>4, <2>1, <2>2, <2>3
<1>9. ASSUME NEW t \in TriStates, ChooseFilter(t)
      PROVE  /\ RequestsTyped' /\ FirstPageInv' /\ NextPageInv'
             /\ OrderInv' /\ PagesInv' /\ GapsInv'
  <2>1. UNCHANGED <<logs, stale, maxLogsInMemory>>
      BY <1>9 DEF ChooseFilter
  <2>. QED
      BY <1>3, <1>9, <2>1, ChooseFilterStep
<1>10. CASE NextPageFails
  <2>1. /\ nextPage' = NoRequest
        /\ UNCHANGED <<firstPage, tri, filtersOn, logs, stale, maxLogsInMemory, shownAt,
                       lastPage, stored, missed, queuedLogs>>
      BY <1>10 DEF NextPageFails, options, history
  <2>2. RequestsTyped' /\ NextPageInv'
      BY <2>1, NoRequestFacts DEF RequestsTyped, NextPageInv
  <2>. QED
      BY <1>2, <2>1, <2>2
<1>11. CASE LoadMore
  <2>1. /\ nextPage' = [NoRequest EXCEPT !.page = page + 1, !.tri = tri]
        /\ UNCHANGED <<firstPage, tri, filtersOn, logs, stale, maxLogsInMemory, shownAt,
                       lastPage, stored, missed, queuedLogs>>
      BY <1>11 DEF LoadMore, options, history
  <2>2. page + 1 \in Nat /\ tri \in TriStates
      BY DEF ViewportTyped
  <2>3. nextPage' \in Requests /\ nextPage'.page = page + 1 /\ ~nextPage'.read
      BY <2>1, <2>2, NoRequestFacts DEF Requests
  <2>4. RequestsTyped' /\ NextPageInv'
      BY <2>1, <2>2, <2>3 DEF RequestsTyped, NextPageInv
  <2>. QED
      BY <1>2, <2>1, <2>4
<1>12. CASE ToggleLiveUpdates
  <2>1. /\ UNCHANGED <<firstPage, nextPage, tri, filtersOn, logs, stale, maxLogsInMemory,
                       shownAt, lastPage, stored>>
        /\ ~missed' => ~missed /\ queuedLogs' = queuedLogs
      BY <1>12 DEF ToggleLiveUpdates, ClearQueue, requests, history
  <2>. QED
      BY <1>2, <1>4, <2>1 DEF RequestsTyped
<1>13. ASSUME \/ ToggleGrouping
              \/ \E l \in LogLevels : OnlyLevel(l) \/ HideLevel(l)
              \/ \E i \in Logs : ToggleGroupExpansion(i)
              \/ UNCHANGED viewportVars
       PROVE  /\ RequestsTyped' /\ FirstPageInv' /\ NextPageInv'
              /\ OrderInv' /\ PagesInv' /\ GapsInv'
  <2>1. UNCHANGED <<firstPage, nextPage, tri, filtersOn, logs, stale, maxLogsInMemory,
                    shownAt, lastPage, stored, missed, queuedLogs>>
      BY <1>13 DEF ToggleGrouping, OnlyLevel, HideLevel, Select, ToggleGroupExpansion,
                   viewportVars, options, requests, history
  <2>. QED
      BY <1>2, <1>4, <2>1 DEF RequestsTyped
<1>. QED
    BY <1>5, <1>6, <1>7, <1>8, <1>9, <1>10, <1>11, <1>12, <1>13 DEF Unlisted

LEMMA FirstPageArrivesStep ==
    ASSUME ViewportInv, FirstPageArrives
    PROVE  /\ ViewportTyped' /\ RequestsTyped' /\ FirstPageInv' /\ NextPageInv'
           /\ OrderInv' /\ PagesInv' /\ GapsInv'
<1>. USE DEF ViewportInv
<1>1. /\ firstPage' = NoRequest /\ monitoring' = TRUE /\ stale' = FALSE
      /\ UNCHANGED <<stored, pushed, tri, selectedLogLevel, page, turns, queuedLogs,
                     maxLogsInMemory, filtersOn, isLiveUpdatesEnabled, missed, nextPage>>
    BY DEF FirstPageArrives, options
<1>2. logs' \in Seq(Entries) /\ OrderInv' /\ PagesInv' /\ GapsInv'
    BY FirstPageShown
<1>3. ViewportTyped'
    BY <1>1, <1>2 DEF ViewportTyped, Delivered
<1>4. RequestsTyped' /\ FirstPageInv'
    BY <1>1, NoRequestFacts DEF RequestsTyped, FirstPageInv, NoRequest
<1>5. NextPageInv'
  <2>1. stored \in Nat
      BY ViewportConstants DEF ViewportTyped
  <2>. QED
      BY <1>1, <2>1, NextPageWaits
<1>. QED
    BY <1>2, <1>3, <1>4, <1>5

LEMMA NextPageArrivesStep ==
    ASSUME ViewportInv, NextPageArrives
    PROVE  /\ ViewportTyped' /\ RequestsTyped' /\ FirstPageInv' /\ NextPageInv'
           /\ OrderInv' /\ PagesInv' /\ GapsInv'
<1>. USE DEF ViewportInv
<1>1. /\ nextPage' = NoRequest /\ stale' \in BOOLEAN
      /\ UNCHANGED <<stored, pushed, tri, selectedLogLevel, page, turns, queuedLogs,
                     maxLogsInMemory, filtersOn, isLiveUpdatesEnabled, missed, firstPage,
                     monitoring>>
  <2>1. stale \in BOOLEAN
      BY DEF ViewportTyped
  <2>. QED
      BY <2>1 DEF NextPageArrives, options
<1>2. logs' \in Seq(Entries) /\ OrderInv' /\ PagesInv' /\ GapsInv'
    BY NextPageShown
<1>3. ViewportTyped'
    BY <1>1, <1>2 DEF ViewportTyped, Delivered
<1>4. RequestsTyped' /\ NextPageInv'
    BY <1>1, NoRequestFacts DEF RequestsTyped, NextPageInv
<1>5. FirstPageInv'
  <2>1. stored \in Nat /\ Delivered' = Delivered
      BY <1>1, ViewportConstants DEF ViewportTyped, Delivered
  <2>. QED
      BY <1>1, <2>1, FirstPageWaits
<1>. QED
    BY <1>2, <1>3, <1>4, <1>5

LEMMA PushArrivesStep ==
    ASSUME ViewportInv, NEW k \in 1..MaxBatch, PushArrives(k)
    PROVE  /\ ViewportTyped' /\ RequestsTyped' /\ FirstPageInv' /\ NextPageInv'
           /\ OrderInv' /\ PagesInv' /\ GapsInv'
<1>. USE DEF ViewportInv
<1>1. /\ UNCHANGED <<stored, tri, selectedLogLevel, page, turns, maxLogsInMemory, filtersOn,
                     isLiveUpdatesEnabled, monitoring, stale, firstPage, nextPage>>
      /\ missed' \in BOOLEAN
  <2>1. missed \in BOOLEAN
      BY DEF ViewportTyped
  <2>. QED
      BY <2>1 DEF PushArrives, requests
<1>2. logs' \in Seq(Entries) /\ OrderInv' /\ PagesInv' /\ GapsInv'
  <2>1. CASE monitoring /\ isLiveUpdatesEnabled
      BY <2>1, PushShown
  <2>2. CASE ~(monitoring /\ isLiveUpdatesEnabled)
      BY <2>2, PushHeldBack, PushLeaves DEF ViewportTyped
  <2>. QED
      BY <2>1, <2>2
<1>3. /\ Last(LinesOf(k)) = Delivered + k /\ BatchOf(k) \in Seq(Logs)
      /\ pushed' \in Seq(Logs) /\ Len(pushed') = Len(pushed) - k /\ k <= Len(pushed)
      /\ \A i \in 1..Len(pushed') : pushed'[i] = pushed[i + k]
      /\ Delivered' = Delivered + k /\ Delivered \in Nat
    BY PushFacts
<1>4. k \in Nat /\ k > 0 /\ Len(pushed) \in Nat /\ stored \in Nat
    BY ViewportAssumption, ViewportConstants DEF ViewportTyped
<1>5. Len(pushed') <= stored' /\ \A i \in 1..Len(pushed') : pushed'[i] = Delivered' + i
  <2>1. Len(pushed') <= stored'
      BY <1>1, <1>3, <1>4 DEF ViewportTyped
  <2>2. ASSUME NEW i \in 1..Len(pushed') PROVE pushed'[i] = Delivered' + i
    <3>1. i + k \in 1..Len(pushed)
        BY <1>3, <1>4
    <3>2. pushed[i + k] = Delivered + (i + k)
        BY <3>1 DEF ViewportTyped
    <3>. QED
        BY <1>3, <1>4, <3>2
  <2>. QED
      BY <2>1, <2>2
<1>6. queuedLogs' \in Seq(Logs)
  <2>1. queuedLogs \in Seq(Logs) /\ <<>> \in Seq(Logs)
      BY DEF ViewportTyped
  <2>2. \A a, b \in Seq(Logs) : a \o b \in Seq(Logs)
      OBVIOUS
  <2>3. queuedLogs \o BatchOf(k) \in Seq(Logs)
      BY <1>3, <2>1, <2>2, Zenon
  <2>4. queuedLogs' \in {queuedLogs, <<>>, queuedLogs \o BatchOf(k)}
      BY DEF PushArrives, BatchOf, LinesOf
  <2>. QED
      BY <2>1, <2>3, <2>4
<1>7. ViewportTyped'
    BY <1>1, <1>2, <1>3, <1>5, <1>6 DEF ViewportTyped
<1>8. FirstPageInv'
  <2>1. ASSUME ~missed', firstPage.read
        PROVE  ~missed /\ (Delivered <= firstPage.at => Delivered' <= firstPage.at)
    <3>1. ~missed /\ ~(Last(LinesOf(k)) > firstPage.at)
        BY <2>1, PushLeaves
    <3>2. firstPage.at \in Nat
        BY DEF RequestsTyped, Requests
    <3>. QED
        BY <1>3, <1>4, <3>1, <3>2
  <2>. QED
      BY <1>1, <1>4, <2>1, FirstPageWaits
<1>9. NextPageInv'
    BY <1>1, <1>4, NextPageWaits
<1>10. RequestsTyped'
    BY <1>1 DEF RequestsTyped, Requests, NoRequest
<1>. QED
    BY <1>2, <1>7, <1>8, <1>9, <1>10

LEMMA ViewportStep == ASSUME ViewportInv, [ViewportNext]_viewportVars PROVE ViewportInv'
<1>1. QueueInv'
    BY QueueStep DEF ViewportInv
<1>2. CASE Unlisted
    BY <1>1, <1>2, UnlistedTyped, UnlistedStep DEF ViewportInv
<1>3. CASE FirstPageArrives
    BY <1>1, <1>3, FirstPageArrivesStep DEF ViewportInv
<1>4. CASE NextPageArrives
    BY <1>1, <1>4, NextPageArrivesStep DEF ViewportInv
<1>5. CASE \E k \in 1..MaxBatch : PushArrives(k)
    BY <1>1, <1>5, PushArrivesStep DEF ViewportInv
<1>. QED
    BY <1>2, <1>3, <1>4, <1>5 DEF ViewportNext, Unlisted

LEMMA ViewportInvImplies == ASSUME ViewportInv PROVE ViewportTypeOK /\ NewestAtTop
                                                     /\ PagesMatchFilter /\ NoLineMissing
<1>. USE DEF ViewportInv
<1>1. /\ logs \in Seq(Entries) /\ Len(logs) \in Nat
      /\ \A i \in 1..Len(logs) : /\ logs[i].log \in Logs /\ logs[i].log \in Nat
                                 /\ logs[i].from \in {"page", "push"}
  <2>1. logs \in Seq(Entries) /\ Len(logs) \in Nat /\ \A i \in 1..Len(logs) : logs[i] \in Entries
      BY DEF ViewportTyped
  <2>. QED
      BY <2>1, ViewportConstants DEF Entries
<1>2. /\ stored \in Nat /\ pushed \in Seq(Logs) /\ Len(pushed) \in Nat /\ Len(pushed) <= stored
      /\ \A i \in 1..Len(pushed) : pushed[i] \in Logs /\ pushed[i] = Delivered + i
    BY ViewportConstants DEF ViewportTyped
<1>3. ViewportTypeOK
    BY <1>1, <1>2 DEF ViewportTypeOK, ViewportTyped
<1>4. NewestAtTop
  <2>1. \A i \in 1..Len(logs) - 1 : i \in 1..Len(logs) /\ i + 1 \in 1..Len(logs) /\ i < i + 1
      BY <1>1
  <2>. QED
      BY <2>1 DEF OrderInv, InOrder, NewestAtTop
<1>5. PagesMatchFilter
    BY DEF PagesInv, Settled, PagesMatchFilter
<1>6. NoLineMissing
  <2> DEFINE inList == {logs[i].log : i \in 1..Len(logs)}
  <2> SUFFICES ASSUME Settled, ~missed, logs # <<>>, NEW n \in Min(inList)..stored,
                      Admits(tri, n)
               PROVE  n \in inList \cup Range(pushed) \cup Range(queuedLogs)
      BY DEF NoLineMissing, Settled
  <2>1. inList \in SUBSET Logs /\ inList \in SUBSET Nat /\ inList # {}
    <3>1. Len(logs) > 0
        BY <1>1
    <3>2. 1 \in 1..Len(logs)
        BY <1>1, <3>1
    <3>. QED
        BY <1>1, <3>2
  <2>2. Min(inList) \in inList
      BY <2>1, MinIsLeast
  <2>3. PICK i \in 1..Len(logs) : logs[i].log = Min(inList)
      BY <2>2
  <2>4. logs[i].log \in Nat /\ logs[i].log > 0 /\ logs[i].log <= n /\ n \in Nat /\ n <= stored
      BY <1>1, <1>2, <2>3, ViewportConstants
  <2>5. n \in Logs
      BY <1>2, <2>4, ViewportConstants DEF ViewportTyped
  <2>6. ReachesTo(logs, n)
      BY <2>4 DEF ReachesTo
  <2>7. CASE n <= Delivered
    <3>1. Shows(logs, n) \/ Held(n)
        BY <2>5, <2>6, <2>7 DEF GapsInv
    <3>2. Shows(logs, n) => n \in inList
        BY DEF Shows
    <3>3. Held(n) => n \in Range(queuedLogs)
      <4>1. queuedLogs \in Seq(Logs)
          BY DEF ViewportTyped
      <4>. QED
          BY <4>1 DEF Held, Range
    <3>. QED
        BY <3>1, <3>2, <3>3
  <2>8. CASE ~(n <= Delivered)
    <3>1. Delivered = stored - Len(pushed) /\ n - Delivered \in 1..Len(pushed)
        BY <1>2, <2>4, <2>8 DEF Delivered
    <3>2. Delivered + (n - Delivered) = n
        BY <1>2, <2>4, <3>1
    <3>3. pushed[n - Delivered] = n
        BY <1>2, <3>1, <3>2
    <3>4. n \in Range(pushed)
        BY <1>2, <3>1, <3>3 DEF Range
    <3>. QED
        BY <3>4
  <2>. QED
      BY <2>7, <2>8
<1>. QED
    BY <1>3, <1>4, <1>5, <1>6

\* What the list promises in whatever order pages, filter changes, pauses and pushed
\* lines come: the newest at the top, the pages of the present filter, no line left out,
\* no line from before the end of a pause, only groups that are there open.
THEOREM ViewportPromiseHolds == ViewportSpec => [](ViewportTypeOK /\ ViewportPromise)
<1>1. ViewportInit => ViewportInv
    BY ViewportStart
<1>2. ViewportInv /\ [ViewportNext]_viewportVars => ViewportInv'
    BY ViewportStep
<1>3. ViewportInv => /\ ViewportTypeOK /\ NewestAtTop /\ PagesMatchFilter /\ NoLineMissing
                     /\ QueueEndsWithPause
    BY ViewportInvImplies DEF ViewportInv, QueueInv
<1>4. ViewportSpec => []OpenGroupsExist
    BY OpenGroupsExistHolds
<1>5. ViewportTypeOK /\ NewestAtTop /\ PagesMatchFilter /\ NoLineMissing /\ QueueEndsWithPause
      /\ OpenGroupsExist => ViewportTypeOK /\ ViewportPromise
    BY DEF ViewportPromise
<1>. QED
    BY <1>1, <1>2, <1>3, <1>4, <1>5, PTL DEF ViewportSpec

-----------------------------------------------------------------------------
(* The scroller: the sizes it keeps, and the rows it has drawn.             *)

CacheOK(c) ==
    /\ c = [sizes |-> c.sizes, count |-> c.count, sum |-> c.sum, min |-> c.min]
    /\ c.min \in Nat
    /\ DOMAIN c.sizes = 1..MaxIndex
    /\ \A k \in 1..MaxIndex : \/ c.sizes[k] = NoRow
                              \/ c.sizes[k].size \in Nat /\ c.sizes[k].size > 0
    /\ c.sum = SumOf(c.sizes)
    /\ c.count = Cardinality(Known(c.sizes))

Refreshes == [modified : BOOLEAN, done : [index : Nat, left : Int], runs : Int]

ScrollerTyped ==
    /\ unequal \in BOOLEAN
    /\ items \in Lists \cup {FirstRows} /\ rendered \in Seq(Rows)
    /\ previousViewPort.length \in Nat /\ previousViewPort.padding \in Nat
    /\ CacheOK(cache)
    /\ refreshes \in Seq(Refreshes) /\ frameLeft \in 0..Len(refreshes)
    /\ scrollTop \in Nat /\ height \in Heights /\ seenHeight \in Heights \cup {0}
    /\ jump \in 0..MaxIndex

\* The buffers about a window are those of the list as it is.
Buffered(v) ==
    /\ v.startBuf = Clamp(v.start - BufferAmount, Len(items))
    /\ v.endBuf = Clamp(v.end + BufferAmount, Len(items))

\* A list that changed has a refresh that draws it still to come.
DrawnInv ==
    \/ \E i \in 1..Len(refreshes) : refreshes[i].modified
    \/ /\ rendered = RowsIn(previousViewPort)
       /\ previousViewPort.fresh => Buffered(previousViewPort)

LEMMA ScrollerConstants ==
    /\ MaxIndex \in Nat /\ MaxIndex > 0 /\ IsFiniteSet(1..MaxIndex)
    /\ \A l \in Lists \cup {FirstRows} :
          l \in Seq(Rows) /\ Len(l) \in Nat /\ Len(l) <= MaxIndex
    /\ \A h \in Heights : h \in Nat /\ h > 0
    /\ \A r \in Rows : HeightIn(r) \in Nat /\ HeightIn(r) > 0
<1> DEFINE all == Lists \cup {FirstRows}
           lengths == {Len(l) : l \in all}
           S == lengths \cup {1}
<1>1. \A l \in all : l \in Seq(Rows) /\ Len(l) \in Nat
  <2>1. \A l \in all : l \in Seq(Rows)
      BY ScrollerAssumption
  <2>. QED
      BY <2>1
<1>2. IsFiniteSet(S) /\ S \in SUBSET Nat /\ S # {} /\ 1 \in S
  <2>1. IsFiniteSet(all)
      BY ScrollerAssumption, FS_AddElement
  <2>2. IsFiniteSet(lengths)
    <3>1. [l \in all |-> Len(l)] \in Surjection(all, lengths)
        BY DEF Surjection
    <3>. HIDE DEF all, lengths
    <3>. QED
        BY <2>1, <3>1, FS_Surjection
  <2>3. IsFiniteSet(S)
      BY <2>2, FS_AddElement
  <2>. QED
      BY <1>1, <2>3
<1>3. MaxIndex = Max(S)
    BY DEF MaxIndex
<1>. HIDE DEF S
<1>4. MaxIndex \in Nat /\ \A m \in S : m <= MaxIndex
    BY <1>2, <1>3, MaxOfFinite
<1>. USE DEF S
<1>5. \A l \in all : Len(l) <= MaxIndex
    BY <1>4
<1>6. MaxIndex > 0
    BY <1>2, <1>4
<1>7. IsFiniteSet(1..MaxIndex)
    BY <1>4, FS_Interval
<1>8. /\ \A h \in Heights : h \in Nat /\ h > 0
      /\ \A r \in Rows : HeightIn(r) \in Nat /\ HeightIn(r) > 0
    BY ScrollerAssumption DEF HeightIn
<1>. QED
    BY <1>1, <1>4, <1>5, <1>6, <1>7, <1>8

\* The places whose size is known, and what the sizes of some of them add up to.
LEMMA CacheFacts ==
    ASSUME NEW c, CacheOK(c)
    PROVE  /\ Known(c.sizes) \in SUBSET (1..MaxIndex)
           /\ IsFiniteSet(Known(c.sizes)) /\ c.count \in Nat /\ c.sum \in Nat
           /\ Known(c.sizes) = {k \in 1..MaxIndex : c.sizes[k].size > 0}
           /\ \A k \in 1..MaxIndex : c.sizes[k].size \in Nat
           /\ \A S \in SUBSET (1..MaxIndex) : SizesOf(c.sizes, S) \in Nat
<1>1. NoRow.size = 0
    BY DEF NoRow
<1>2. \A k \in 1..MaxIndex : /\ c.sizes[k].size \in Nat
                             /\ c.sizes[k] # NoRow <=> c.sizes[k].size > 0
    BY <1>1 DEF CacheOK
<1>3. Known(c.sizes) = {k \in 1..MaxIndex : c.sizes[k].size > 0}
    BY <1>2 DEF Known, CacheOK
<1>4. IsFiniteSet(Known(c.sizes)) /\ c.count \in Nat
  <2>1. Known(c.sizes) \in SUBSET (1..MaxIndex)
      BY <1>3
  <2>2. IsFiniteSet(Known(c.sizes))
      BY <2>1, ScrollerConstants, FS_Subset
  <2>. QED
      BY <2>2, FS_CardinalityType DEF CacheOK
<1>5. ASSUME NEW S \in SUBSET (1..MaxIndex) PROVE SizesOf(c.sizes, S) \in Nat
  <2> DEFINE f == [k \in DOMAIN c.sizes |-> c.sizes[k].size]
  <2>1. \A k \in S : f[k] \in Nat
      BY <1>2 DEF CacheOK
  <2>2. IsFiniteSet(S)
      BY ScrollerConstants, FS_Subset
  <2>3. SizesOf(c.sizes, S) = SumFunctionOnSet(f, S)
      BY DEF SizesOf
  <2>. HIDE DEF f
  <2>. QED
      BY <2>1, <2>2, <2>3, SumIsNat
<1>6. c.sum \in Nat
  <2>1. c.sum = SizesOf(c.sizes, 1..MaxIndex)
      BY DEF CacheOK, SumOf
  <2>. QED
      BY <1>5, <2>1
<1>. QED
    BY <1>2, <1>3, <1>4, <1>5, <1>6

\* Dropping sizes and measuring again leave the count and the sum right.
LEMMA ResetKeeps ==
    ASSUME items \in Lists \cup {FirstRows}, NEW c, CacheOK(c) PROVE CacheOK(ResetSizes(c))
<1> DEFINE stays == {k \in Known(c.sizes) :
                       unequal /\ k <= Len(items) /\ c.sizes[k].row = {items[k]}}
           sizes == [k \in 1..MaxIndex |-> IF k \in stays THEN c.sizes[k] ELSE NoRow]
           r == ResetSizes(c)
<1>1. r = [sizes |-> sizes, count |-> Cardinality(stays), sum |-> SumOf(sizes), min |-> 0]
    BY DEF ResetSizes
<1>2. stays \in SUBSET (1..MaxIndex) /\ \A k \in stays : c.sizes[k] # NoRow
    BY CacheFacts DEF Known
<1>3. Known(sizes) = stays
    BY <1>2 DEF Known
<1>4. \A k \in 1..MaxIndex : \/ sizes[k] = NoRow
                             \/ sizes[k].size \in Nat /\ sizes[k].size > 0
    BY DEF CacheOK
<1>5. DOMAIN sizes = 1..MaxIndex
    OBVIOUS
<1>. HIDE DEF sizes, stays
<1>6. /\ r = [sizes |-> r.sizes, count |-> r.count, sum |-> r.sum, min |-> r.min]
      /\ r.sizes = sizes /\ r.count = Cardinality(stays) /\ r.sum = SumOf(sizes) /\ r.min = 0
    BY <1>1
<1>7. CacheOK(r)
    BY <1>3, <1>4, <1>5, <1>6 DEF CacheOK
<1>. QED
    BY <1>7

LEMMA MeasureUnequalKeeps ==
    ASSUME rendered \in Seq(Rows), NEW c, CacheOK(c), NEW v
    PROVE  CacheOK(MeasureUnequal(c, v))
<1> DEFINE at == [k \in 1..MaxIndex |-> k - (IF v.startBuf < 1 THEN 1 ELSE v.startBuf) + 1]
           here == {k \in 1..MaxIndex : at[k] \in 1..Len(rendered)}
           sizes == [k \in 1..MaxIndex |->
                        IF k \in here
                          THEN [row |-> IF k <= Len(items) THEN {items[k]} ELSE {},
                                size |-> HeightIn(rendered[at[k]])]
                          ELSE c.sizes[k]]
           r == MeasureUnequal(c, v)
           D == 1..MaxIndex
           known == Known(c.sizes)
<1>1. r = Recount(c, sizes, here)
    BY DEF MeasureUnequal
<1>2. here \in SUBSET D /\ D \ here \in SUBSET D /\ IsFiniteSet(D) /\ IsFiniteSet(here)
  <2>1. here \in SUBSET D
      OBVIOUS
  <2>. QED
      BY <2>1, ScrollerConstants, FS_Subset
<1>3. ASSUME NEW k \in here
      PROVE  sizes[k].size \in Nat /\ sizes[k].size > 0
  <2>1. rendered[at[k]] \in Rows
      BY <1>3
  <2>2. k \in 1..MaxIndex /\ sizes[k].size = HeightIn(rendered[at[k]])
      BY <1>3
  <2>. QED
      BY <2>1, <2>2, ScrollerConstants
<1>4. \A k \in D \ here : sizes[k] = c.sizes[k]
    OBVIOUS
<1>5. DOMAIN sizes = D
    OBVIOUS
<1>. HIDE DEF at, here, sizes
<1>6. \A k \in D : sizes[k] = NoRow \/ (sizes[k].size \in Nat /\ sizes[k].size > 0)
    BY <1>3, <1>4 DEF CacheOK
<1>7. Known(sizes) = known \cup here
  <2>1. \A k \in here : sizes[k] # NoRow
      BY <1>3 DEF NoRow
  <2>2. known \in SUBSET D /\ \A k \in D : k \in known <=> c.sizes[k] # NoRow
      BY CacheFacts DEF Known, CacheOK
  <2>3. \A k : k \in Known(sizes) <=> k \in D /\ sizes[k] # NoRow
      BY <1>5 DEF Known
  <2>. HIDE DEF known, D
  <2>. QED
      BY <1>2, <1>4, <2>1, <2>2, <2>3
<1>8. Cardinality(Known(sizes))
         = c.count - Cardinality(here \cap known) + Cardinality(here)
  <2>1. IsFiniteSet(known) /\ c.count = Cardinality(known)
      BY CacheFacts DEF CacheOK
  <2>2. here \cap known = known \cap here /\ IsFiniteSet(known \cap here)
      BY <2>1, FS_Subset
  <2>3. Cardinality(known \cup here)
           = Cardinality(known) + Cardinality(here) - Cardinality(known \cap here)
      BY <1>2, <2>1, FS_Union
  <2>4. Cardinality(known) \in Nat /\ Cardinality(here) \in Nat
        /\ Cardinality(known \cap here) \in Nat
      BY <1>2, <2>1, <2>2, FS_CardinalityType
  <2>5. Cardinality(Known(sizes)) = Cardinality(known \cup here)
      BY <1>7
  <2>6. Cardinality(here \cap known) = Cardinality(known \cap here)
      BY <2>2
  <2>7. \A a, b, d \in Nat : a + b - d = a - d + b
      OBVIOUS
  <2>. HIDE DEF known
  <2>8. Cardinality(known) + Cardinality(here) - Cardinality(known \cap here)
           = Cardinality(known) - Cardinality(known \cap here) + Cardinality(here)
      BY <2>4, <2>7
  <2>. QED
      BY <2>1, <2>3, <2>5, <2>6, <2>8, Zenon
<1>9. SumOf(sizes) = c.sum - SizesOf(c.sizes, here) + SizesOf(sizes, here)
  <2> DEFINE f == [k \in DOMAIN c.sizes |-> c.sizes[k].size]
             g == [k \in DOMAIN sizes |-> sizes[k].size]
  <2>1. /\ \A k \in D : f[k] \in Int /\ g[k] \in Int
        /\ \A k \in D \ here : f[k] = g[k]
    <3>1. DOMAIN c.sizes = D /\ \A k \in D : c.sizes[k].size \in Nat
        BY CacheFacts DEF CacheOK
    <3>2. NoRow.size = 0
        BY DEF NoRow
    <3>3. \A k \in D : sizes[k].size \in Nat
        BY <1>6, <3>2
    <3>. QED
        BY <1>4, <1>5, <3>1, <3>3
  <2>2. /\ SizesOf(c.sizes, here) = SumFunctionOnSet(f, here)
        /\ SizesOf(sizes, here) = SumFunctionOnSet(g, here)
        /\ SumOf(sizes) = SumFunctionOnSet(g, D) /\ c.sum = SumFunctionOnSet(f, D)
      BY <1>5 DEF SizesOf, SumOf, CacheOK
  <2>. HIDE DEF f, g
  <2>3. /\ SumFunctionOnSet(f, D)
             = SumFunctionOnSet(f, here) + SumFunctionOnSet(f, D \ here)
        /\ SumFunctionOnSet(f, here) \in Int /\ SumFunctionOnSet(f, D \ here) \in Int
      BY <1>2, <2>1, SumSplits
  <2>4. /\ SumFunctionOnSet(g, D)
             = SumFunctionOnSet(g, here) + SumFunctionOnSet(g, D \ here)
        /\ SumFunctionOnSet(g, here) \in Int
      BY <1>2, <2>1, SumSplits
  <2>5. SumFunctionOnSet(f, D \ here) = SumFunctionOnSet(g, D \ here)
    <3>1. IsFiniteSet(D \ here)
        BY <1>2, FS_Subset
    <3>2. \A k \in D \ here : f[k] \in Int /\ f[k] = g[k]
        BY <2>1
    <3>. HIDE DEF D
    <3>. QED
        BY <3>1, <3>2, SumsAgree
  <2>. QED
      BY <2>2, <2>3, <2>4, <2>5
<1>10. /\ r = [sizes |-> r.sizes, count |-> r.count, sum |-> r.sum, min |-> r.min]
       /\ r.sizes = sizes /\ r.min = c.min
       /\ r.count = c.count - Cardinality(here \cap known) + Cardinality(here)
       /\ r.sum = c.sum - SizesOf(c.sizes, here) + SizesOf(sizes, here)
  <2>1. c = [sizes |-> c.sizes, count |-> c.count, sum |-> c.sum, min |-> c.min]
      BY DEF CacheOK
  <2>. QED
      BY <1>1, <2>1 DEF Recount
<1>11. CacheOK(r)
    BY <1>5, <1>6, <1>8, <1>9, <1>10 DEF CacheOK
<1>. QED
    BY <1>11

LEMMA MeasureKeeps ==
    ASSUME rendered \in Seq(Rows), height \in Heights, NEW c, CacheOK(c), NEW v
    PROVE  CacheOK(Measure(c, v))
<1>1. CASE unequal
    BY <1>1, MeasureUnequalKeeps DEF Measure
<1>2. CASE ~unequal
  <2>1. Measure(c, v) = MeasureEqual(c)
      BY <1>2 DEF Measure
  <2>2. CASE rendered = <<>>
      BY <2>1, <2>2 DEF MeasureEqual
  <2>3. CASE rendered # <<>>
    <3> DEFINE m == Min({IF c.min = 0 THEN height ELSE c.min, RowHeight})
               r == [c EXCEPT !.min = m]
    <3>1. Measure(c, v) = r
        BY <2>1, <2>3 DEF MeasureEqual
    <3>2. m \in Nat
      <4>1. c.min \in Nat /\ height \in Nat /\ RowHeight \in Nat
          BY ScrollerConstants, ScrollerAssumption DEF CacheOK
      <4>. QED
          BY <4>1, OfTwo
    <3>. HIDE DEF m
    <3>3. /\ r = [sizes |-> r.sizes, count |-> r.count, sum |-> r.sum, min |-> r.min]
          /\ r.sizes = c.sizes /\ r.count = c.count /\ r.sum = c.sum /\ r.min = m
      <4>1. c = [sizes |-> c.sizes, count |-> c.count, sum |-> c.sum, min |-> c.min]
          BY DEF CacheOK
      <4>. QED
          BY <4>1
    <3>. QED
        BY <3>1, <3>2, <3>3 DEF CacheOK
  <2>. QED
      BY <2>2, <2>3
<1>. QED
    BY <1>1, <1>2

\* Lengths are natural numbers, and a window lies within the list.
LEMMA LengthFacts ==
    ASSUME height \in Heights, NEW c, CacheOK(c)
    PROVE  /\ DefaultHeight(c) \in Nat
           /\ ~unequal => DefaultHeight(c) > 0
           /\ \A k \in Int : k <= MaxIndex => LengthTo(c, k) \in Nat
<1>1. height \in Nat /\ height > 0 /\ c.min \in Nat /\ c.sum \in Nat /\ c.count \in Nat
    BY ScrollerConstants, CacheFacts DEF CacheOK
<1>2. DefaultHeight(c) \in Nat /\ (~unequal => DefaultHeight(c) > 0)
  <2>1. CASE unequal /\ c.count > 0
    <3>1. DefaultHeight(c) = c.sum \div c.count
        BY <2>1 DEF DefaultHeight
    <3>2. c.sum <= c.sum * c.count
      <4>1. \A a, b \in Nat : b > 0 => a <= a * b
          OBVIOUS
      <4>. QED
          BY <1>1, <2>1, <4>1
    <3>3. c.sum \div c.count \in Nat
        BY <1>1, <2>1, <3>2, QuotientWithin
    <3>. QED
        BY <2>1, <3>1, <3>3
  <2>2. CASE ~(unequal /\ c.count > 0) /\ (~unequal /\ c.min > 0)
      BY <1>1, <2>2 DEF DefaultHeight
  <2>3. CASE ~(unequal /\ c.count > 0) /\ ~(~unequal /\ c.min > 0)
      BY <1>1, <2>3 DEF DefaultHeight
  <2>. QED
      BY <2>1, <2>2, <2>3
<1>3. ASSUME NEW k \in 1..MaxIndex PROVE SizeAt(c, k) \in Nat
    BY <1>2, CacheFacts DEF SizeAt
<1>4. ASSUME NEW k \in Int, k <= MaxIndex PROVE LengthTo(c, k) \in Nat
  <2> DEFINE f == [i \in 1..k |-> SizeAt(c, i)]
  <2>1. \A i \in 1..k : i \in 1..MaxIndex
      BY <1>4, ScrollerConstants
  <2>2. \A i \in 1..k : f[i] \in Nat
      BY <1>3, <2>1
  <2>3. IsFiniteSet(1..k)
      BY FS_Interval
  <2>4. LengthTo(c, k) = SumFunctionOnSet(f, 1..k)
      BY DEF LengthTo
  <2>. HIDE DEF f
  <2>. QED
      BY <2>2, <2>3, <2>4, SumIsNat
<1>. QED
    BY <1>2, <1>4

LEMMA ClampFacts ==
    ASSUME NEW k \in Int, NEW n \in Nat
    PROVE  Clamp(k, n) \in Nat /\ Clamp(k, n) <= n /\ (n > 0 => Clamp(k, n) >= 1)
<1>1. Max({k, 1}) = IF k >= 1 THEN k ELSE 1
    BY OfTwo
<1>2. Max({k, 1}) \in Int /\ Max({k, 1}) >= 1
    BY <1>1
<1>3. Min({Max({k, 1}), n}) = IF Max({k, 1}) <= n THEN Max({k, 1}) ELSE n
    BY <1>2, OfTwo
<1>. QED
    BY <1>2, <1>3 DEF Clamp

LEMMA UnequalWindowFacts ==
    ASSUME items \in Lists \cup {FirstRows}, NEW c, NEW pos
    PROVE  UnequalWindow(c, pos)[1] \in Int /\ UnequalWindow(c, pos)[2] \in Int
<1> DEFINE n == Len(items)
           first == {i \in 1..n : pos < LengthTo(c, i)}
           start == IF first = {} THEN n + 1 ELSE Min(first)
           last == {j \in start + 1..n : Reaches(c, pos, j)}
           end == IF last = {} THEN Max({n, start}) + 1 ELSE Min(last)
<1>1. n \in Nat
    BY ScrollerConstants
<1>2. start \in Nat
  <2>1. CASE first = {}
      BY <1>1, <2>1
  <2>2. CASE first # {}
    <3>1. first \in SUBSET Nat
        BY <1>1
    <3>2. Min(first) \in first
        BY <2>2, <3>1, MinIsLeast
    <3>. QED
        BY <2>2, <3>1, <3>2
  <2>. QED
      BY <2>1, <2>2
<1>. HIDE DEF first, start, n
<1>3. end \in Int
  <2>1. CASE last = {}
    <3>1. Max({n, start}) \in Int
      <4>1. Max({n, start}) = IF n >= start THEN n ELSE start
          BY <1>1, <1>2, OfTwo
      <4>. QED
          BY <1>1, <1>2, <4>1
    <3>. QED
        BY <2>1, <3>1
  <2>2. CASE last # {}
    <3>1. last \in SUBSET Nat
        BY <1>1, <1>2
    <3>2. Min(last) \in last
        BY <2>2, <3>1, MinIsLeast
    <3>. QED
        BY <2>2, <3>1, <3>2
  <2>. QED
      BY <2>1, <2>2
<1>4. UnequalWindow(c, pos) = <<start, end>>
    BY DEF UnequalWindow, start, first, n
<1>. HIDE DEF end
<1>. QED
    BY <1>2, <1>3, <1>4

LEMMA EqualWindowFacts ==
    ASSUME items \in Lists \cup {FirstRows}, height \in Heights, NEW c, CacheOK(c), ~unequal,
           NEW pos \in Nat
    PROVE  EqualWindow(c, pos)[1] \in Int /\ EqualWindow(c, pos)[2] \in Int
<1> DEFINE n == Len(items)
           length == ScrollLength(c)
           a == DivUp(height, DefaultHeight(c))
           perPage == Max({a, 1})
           top == Min({pos * n, n * length})
           w == IF length = 0 THEN <<1, 1>>
                ELSE <<Min({top \div length, n - perPage - 1}) + 1, DivUp(top, length) + perPage>>
<1>1. n \in Nat /\ length \in Nat /\ height \in Nat
  <2>1. n \in Nat /\ n <= MaxIndex /\ height \in Nat
      BY ScrollerConstants
  <2>. QED
      BY <2>1, LengthFacts DEF ScrollLength
<1>2. \A x \in Int, y \in Nat : y > 0 => DivUp(x, y) \in Int /\ x \div y \in Int
  <2>1. \A x \in Int, y \in Nat : x + y - 1 \in Int
      OBVIOUS
  <2>. QED
      BY <2>1, Quotient DEF DivUp
<1>3. a \in Int
  <2>1. DefaultHeight(c) \in Nat /\ DefaultHeight(c) > 0
      BY LengthFacts
  <2>. QED
      BY <1>1, <1>2, <2>1
<1>. HIDE DEF a
<1>4. perPage \in Int
  <2>1. perPage = IF a >= 1 THEN a ELSE 1
      BY <1>3, OfTwo
  <2>. QED
      BY <1>3, <2>1
<1>5. top \in Int
  <2>1. pos * n \in Int /\ n * length \in Int
      BY <1>1
  <2>. HIDE DEF n, length
  <2>2. top = IF pos * n <= n * length THEN pos * n ELSE n * length
      BY <2>1, OfTwo
  <2>. QED
      BY <2>1, <2>2
<1>6. EqualWindow(c, pos) = w
    BY DEF EqualWindow, a
<1>. HIDE DEF perPage, top, length, n
<1>7. CASE length = 0
    BY <1>6, <1>7
<1>8. CASE length # 0
  <2>1. DivUp(top, length) \in Int /\ top \div length \in Int /\ n - perPage - 1 \in Int
      BY <1>1, <1>2, <1>4, <1>5, <1>8
  <2>2. Min({top \div length, n - perPage - 1}) \in Int
    <3>1. Min({top \div length, n - perPage - 1})
             = IF top \div length <= n - perPage - 1 THEN top \div length ELSE n - perPage - 1
        BY <2>1, OfTwo
    <3>. QED
        BY <2>1, <3>1
  <2>3. w = <<Min({top \div length, n - perPage - 1}) + 1, DivUp(top, length) + perPage>>
      BY <1>8
  <2>. HIDE DEF w
  <2>. QED
      BY <1>4, <1>6, <2>1, <2>2, <2>3
<1>. QED
    BY <1>7, <1>8

LEMMA WindowFacts ==
    ASSUME ScrollerTyped, NEW c, CacheOK(c)
    PROVE  /\ Viewport(c).length \in Nat /\ Viewport(c).padding \in Nat
           /\ Viewport(c).fresh = TRUE
           /\ Buffered(Viewport(c))
           /\ RowsIn(Viewport(c)) \in Seq(Rows)
<1> DEFINE n == Len(items)
           length == ScrollLength(c)
           pos == Min({scrollTop, length})
           w == IF unequal THEN UnequalWindow(c, pos) ELSE EqualWindow(c, pos)
           start == Clamp(w[1], n)
           end == Clamp(w[2], n)
           startBuf == Clamp(start - BufferAmount, n)
           endBuf == Clamp(end + BufferAmount, n)
           padding == IF n = 0 THEN 0 ELSE LengthTo(c, startBuf - 1)
           v == Viewport(c)
<1>1. /\ n \in Nat /\ n <= MaxIndex /\ items \in Seq(Rows) /\ height \in Heights
      /\ items \in Lists \cup {FirstRows} /\ scrollTop \in Nat /\ BufferAmount \in Nat
    BY ScrollerConstants, ScrollerAssumption DEF ScrollerTyped
<1>2. length \in Nat
    BY <1>1, LengthFacts DEF ScrollLength
<1>3. v = [start |-> start, end |-> end, startBuf |-> startBuf, endBuf |-> endBuf,
           padding |-> padding, length |-> length, pos |-> pos, bottom |-> pos + height,
           maxPos |-> Max({length - height, 0}), fresh |-> TRUE]
    BY DEF Viewport
<1>. HIDE DEF length
<1>4. pos \in Nat
  <2>1. pos = IF scrollTop <= length THEN scrollTop ELSE length
      BY <1>1, <1>2, OfTwo
  <2>. QED
      BY <1>1, <1>2, <2>1
<1>. HIDE DEF pos
<1>5. w[1] \in Int /\ w[2] \in Int
  <2>1. CASE unequal
    <3>1. w = UnequalWindow(c, pos)
        BY <2>1
    <3>. QED
        BY <1>1, <3>1, UnequalWindowFacts
  <2>2. CASE ~unequal
    <3>1. w = EqualWindow(c, pos)
        BY <2>2
    <3>. QED
        BY <1>1, <1>4, <2>2, <3>1, EqualWindowFacts
  <2>. QED
      BY <2>1, <2>2
<1>. HIDE DEF w, n
<1>6. start \in Nat /\ end \in Nat
    BY <1>1, <1>5, ClampFacts
<1>. HIDE DEF start, end
<1>7. start - BufferAmount \in Int /\ end + BufferAmount \in Int
    BY <1>1, <1>6
<1>8. /\ startBuf \in Nat /\ startBuf <= n /\ (n > 0 => startBuf >= 1)
      /\ endBuf \in Nat /\ endBuf <= n
    BY <1>1, <1>7, ClampFacts
<1>9. Buffered(v)
    BY <1>3 DEF Buffered, n
<1>. HIDE DEF startBuf, endBuf
<1>10. padding \in Nat
  <2>1. startBuf - 1 \in Int /\ startBuf - 1 <= MaxIndex
      BY <1>1, <1>8, ScrollerConstants
  <2>. QED
      BY <1>1, <2>1, LengthFacts
<1>. HIDE DEF padding
<1>11. v.length = length /\ v.padding = padding /\ v.fresh = TRUE
       /\ v.startBuf = startBuf /\ v.endBuf = endBuf
    BY <1>3
<1>12. RowsIn(v) \in Seq(Rows)
  <2>1. CASE startBuf < 1
    <3>1. RowsIn(v) = <<>>
        BY <1>11, <2>1 DEF RowsIn
    <3>. QED
        BY <3>1
  <2>2. CASE startBuf >= 1
    <3>1. RowsIn(v) = SubSeq(items, startBuf, endBuf)
        BY <1>8, <1>11, <2>2 DEF RowsIn
    <3>2. \A i \in startBuf..endBuf : i \in 1..Len(items)
        BY <1>8, <2>2 DEF n
    <3>3. SubSeq(items, startBuf, endBuf) \in Seq(Rows)
        BY <1>1, <1>8, <2>2, <3>2
    <3>. QED
        BY <3>1, <3>3
  <2>. QED
      BY <1>8, <2>1, <2>2
<1>. QED
    BY <1>2, <1>9, <1>10, <1>11, <1>12

\* How far the browser can scroll.
LEMMA FurthestFacts ==
    ASSUME height \in Heights, NEW v, v.length \in Nat, v.padding \in Nat, NEW rows \in Seq(Rows)
    PROVE  Furthest(v, rows) \in Nat
<1> DEFINE f == [i \in DOMAIN rows |-> HeightIn(rows[i])]
           a == v.padding + RowsHeight(rows)
           b == Max({v.length, a})
           d == b - height
<1>1. height \in Nat
    BY ScrollerConstants
<1>2. RowsHeight(rows) \in Nat
  <2>1. DOMAIN rows = 1..Len(rows) /\ Len(rows) \in Nat /\ \A i \in DOMAIN rows : rows[i] \in Rows
      OBVIOUS
  <2>2. \A i \in DOMAIN rows : f[i] \in Nat
      BY <2>1, ScrollerConstants
  <2>3. IsFiniteSet(DOMAIN rows)
      BY <2>1, FS_Interval
  <2>4. RowsHeight(rows) = SumFunctionOnSet(f, DOMAIN rows)
      BY DEF RowsHeight
  <2>. HIDE DEF f
  <2>. QED
      BY <2>2, <2>3, <2>4, SumIsNat
<1>3. b \in Nat
  <2>1. a \in Nat
      BY <1>2
  <2>. HIDE DEF a
  <2>2. v.length \in Int /\ a \in Int
      BY <2>1
  <2>3. b = IF v.length >= a THEN v.length ELSE a
      BY <2>2, OfTwo, Zenon
  <2>. QED
      BY <2>1, <2>3
<1>. HIDE DEF b
<1>4. d \in Int
    BY <1>1, <1>3
<1>5. Furthest(v, rows) = Max({d, 0})
    BY DEF Furthest, b
<1>. HIDE DEF d
<1>6. Max({d, 0}) = IF d >= 0 THEN d ELSE 0
  <2>1. 0 \in Int
      OBVIOUS
  <2>. QED
      BY <1>4, <2>1, OfTwo, Zenon
<1>. QED
    BY <1>4, <1>5, <1>6

\* What waits after a frame, and that a change of the list is not lost.
LEMMA WaitingFacts ==
    ASSUME refreshes \in Seq(Refreshes), refreshes # <<>>
    PROVE  /\ Current \in Refreshes
           /\ Waiting \in Seq(Refreshes) /\ Len(Waiting) \in Nat
           /\ Len(Waiting) >= Len(refreshes) - 1
           /\ (\E i \in 1..Len(refreshes) : refreshes[i].modified)
                 => Current.modified \/ \E i \in 1..Len(Waiting) : Waiting[i].modified
<1> DEFINE rest == Tail(refreshes)
           more == IF Current.modified THEN <<Refresh(FALSE, NoJump, MaxRunTimes)>> ELSE <<>>
           m == Len(refreshes)
<1>1. /\ m \in Nat /\ m > 0 /\ Current = refreshes[1] /\ Current \in Refreshes
      /\ rest \in Seq(Refreshes) /\ Len(rest) = m - 1
      /\ \A i \in 1..m - 1 : rest[i] = refreshes[i + 1]
    BY DEF Current
<1>2. Refresh(FALSE, NoJump, MaxRunTimes) \in Refreshes
    BY DEF Refresh, Refreshes, NoJump, MaxRunTimes
<1>3. more \in Seq(Refreshes) /\ Len(more) \in Nat
  <2>1. /\ <<>> \in Seq(Refreshes)
        /\ \A r \in Refreshes : <<r>> \in Seq(Refreshes)
      OBVIOUS
  <2>2. more \in Seq(Refreshes)
      BY <1>2, <2>1, Zenon
  <2>. QED
      BY <2>2
<1>4. Waiting = rest \o more
    BY DEF Waiting
<1>. HIDE DEF rest, more, m
<1>5. \A a, b \in Seq(Refreshes) :
         /\ a \o b \in Seq(Refreshes) /\ Len(a \o b) = Len(a) + Len(b)
         /\ \A i \in 1..Len(a) : (a \o b)[i] = a[i]
    OBVIOUS
<1>6. /\ Waiting \in Seq(Refreshes) /\ Len(Waiting) = Len(rest) + Len(more)
      /\ \A i \in 1..Len(rest) : Waiting[i] = rest[i]
    BY <1>1, <1>3, <1>4, <1>5, Zenon
<1>7. ASSUME NEW i \in 1..m, refreshes[i].modified, ~Current.modified
      PROVE  \E k \in 1..Len(Waiting) : Waiting[k].modified
  <2>1. i # 1
      BY <1>1, <1>7
  <2>2. i - 1 \in 1..m - 1 /\ (i - 1) + 1 = i /\ i - 1 \in 1..Len(Waiting)
      BY <1>1, <1>3, <1>6, <2>1
  <2>3. Waiting[i - 1] = refreshes[i]
      BY <1>1, <1>6, <2>2
  <2>. QED
      BY <1>7, <2>2, <2>3
<1>. QED
    BY <1>1, <1>3, <1>6, <1>7 DEF m

LEMMA QueuedKeeps ==
    ASSUME NEW q \in Seq(Refreshes), NEW r \in Refreshes
    PROVE  /\ Append(q, r) \in Seq(Refreshes) /\ Len(Append(q, r)) = Len(q) + 1
           /\ Len(q) \in Nat
           /\ (\E i \in 1..Len(q) : q[i].modified)
                 => \E i \in 1..Len(Append(q, r)) : Append(q, r)[i].modified
<1>1. /\ Append(q, r) \in Seq(Refreshes) /\ Len(Append(q, r)) = Len(q) + 1 /\ Len(q) \in Nat
      /\ \A i \in 1..Len(q) : Append(q, r)[i] = q[i] /\ i \in 1..Len(q) + 1
    OBVIOUS
<1>. QED
    BY <1>1

LEMMA SettleFacts ==
    ASSUME height \in Heights, scrollTop \in Nat, previousViewPort'.length \in Nat,
           previousViewPort'.padding \in Nat, rendered' \in Seq(Rows), Settle
    PROVE  scrollTop' \in Nat
<1> DEFINE far == Furthest(previousViewPort', rendered')
<1>1. far \in Nat
    BY FurthestFacts
<1>2. scrollTop' = Min({scrollTop, far})
    BY DEF Settle
<1>. HIDE DEF far
<1>3. scrollTop \in Int /\ far \in Int
    BY <1>1
<1>4. Min({scrollTop, far}) = IF scrollTop <= far THEN scrollTop ELSE far
    BY <1>3, OfTwo, Zenon
<1>. QED
    BY <1>1, <1>2, <1>4

LEMMA ScrollInternalFacts ==
    ASSUME height \in Heights, items \in Lists \cup {FirstRows}, previousViewPort'.length \in Nat,
           previousViewPort'.padding \in Nat, rendered' \in Seq(Rows),
           NEW index \in Nat, NEW c, CacheOK(c), NEW q \in Seq(Refreshes), NEW left \in Int,
           ScrollInternal(index, c, q, left)
    PROVE  /\ scrollTop' \in Nat
           /\ refreshes' \in Seq(Refreshes) /\ Len(refreshes') = Len(q) + 1
           /\ (\E i \in 1..Len(q) : q[i].modified)
                 => \E i \in 1..Len(refreshes') : refreshes'[i].modified
<1> DEFINE far == Furthest(previousViewPort', rendered')
           k == index - 1
           n == Len(items)
           to == Min({k, n})
           place == LengthTo(c, to)
           r == Refresh(FALSE, [index |-> index, left |-> left], MaxRunTimes)
<1>1. far \in Nat
    BY FurthestFacts
<1>2. k \in Int /\ n \in Int /\ n <= MaxIndex
    BY ScrollerConstants
<1>3. scrollTop' = Min({place, far})
    BY DEF ScrollInternal
<1>. HIDE DEF k, n
<1>4. to = IF k <= n THEN k ELSE n
    BY <1>2, OfTwo, Zenon
<1>5. to \in Int /\ to <= MaxIndex
    BY <1>2, <1>4, ScrollerConstants
<1>. HIDE DEF to
<1>6. place \in Nat
    BY <1>5, LengthFacts
<1>. HIDE DEF place, far
<1>7. place \in Int /\ far \in Int
    BY <1>1, <1>6
<1>8. Min({place, far}) = IF place <= far THEN place ELSE far
    BY <1>7, OfTwo, Zenon
<1>9. r \in Refreshes
    BY DEF Refresh, Refreshes, MaxRunTimes
<1>10. refreshes' = Append(q, r)
    BY DEF ScrollInternal
<1>. HIDE DEF r
<1>11. /\ refreshes' \in Seq(Refreshes) /\ Len(refreshes') = Len(q) + 1
       /\ (\E i \in 1..Len(q) : q[i].modified)
             => \E i \in 1..Len(refreshes') : refreshes'[i].modified
    BY <1>9, <1>10, QueuedKeeps
<1>. QED
    BY <1>1, <1>3, <1>6, <1>8, <1>11

\* A frame leaves a refresh for a change that it has not drawn.
LEMMA RefreshDraws ==
    ASSUME ScrollerTyped, DrawnInv, refreshes # <<>>, NEW v, Buffered(v), Draw(v),
           items' = items,
           (\E i \in 1..Len(Waiting) : Waiting[i].modified)
              => \E i \in 1..Len(refreshes') : refreshes'[i].modified
    PROVE  DrawnInv'
<1>1. previousViewPort' = v /\ rendered' = IF Redraws(v) THEN RowsIn(v) ELSE rendered
    BY DEF Draw
<1>2. CASE \E i \in 1..Len(refreshes') : refreshes'[i].modified
    BY <1>2 DEF DrawnInv
<1>3. CASE ~ \E i \in 1..Len(refreshes') : refreshes'[i].modified
  <2>1. (\E i \in 1..Len(refreshes) : refreshes[i].modified) => Current.modified
      BY <1>3, WaitingFacts DEF ScrollerTyped
  <2>2. rendered' = RowsIn(v)
    <3>1. CASE Redraws(v)
        BY <1>1, <3>1
    <3>2. CASE ~Redraws(v)
      <4>1. /\ ~Current.modified /\ previousViewPort.fresh
            /\ v.start = previousViewPort.start /\ v.end = previousViewPort.end
          BY <3>2 DEF Redraws, WindowMoved, PositionChanged
      <4>2. rendered = RowsIn(previousViewPort) /\ Buffered(previousViewPort)
          BY <2>1, <4>1 DEF DrawnInv
      <4>3. v.startBuf = previousViewPort.startBuf /\ v.endBuf = previousViewPort.endBuf
          BY <4>1, <4>2 DEF Buffered
      <4>. QED
          BY <1>1, <3>2, <4>2, <4>3 DEF RowsIn
    <3>. QED
        BY <3>1, <3>2
  <2>3. RowsIn(previousViewPort)' = RowsIn(v) /\ (Buffered(previousViewPort)' <=> Buffered(v))
      BY <1>1 DEF RowsIn, Buffered, Clamp
  <2>. QED
      BY <2>2, <2>3 DEF DrawnInv
<1>. QED
    BY <1>2, <1>3

LEMMA RefreshStep ==
    ASSUME ScrollerTyped, DrawnInv, RefreshInternal PROVE ScrollerTyped' /\ DrawnInv'
<1> DEFINE c == Measure(IF Current.modified THEN ResetSizes(cache) ELSE cache, previousViewPort)
           v == Viewport(c)
<1>1. /\ refreshes # <<>> /\ UNCHANGED <<unequal, items, height, seenHeight, jump>>
      /\ frameLeft' = (IF frameLeft = 0 THEN Len(refreshes) ELSE frameLeft) - 1
      /\ Draw(v)
      /\ IF RunsAgain(v) THEN FrameAgain(c) ELSE FrameEnds(c, v)
    BY DEF RefreshInternal
<1>2. /\ items \in Lists \cup {FirstRows} /\ height \in Heights /\ scrollTop \in Nat
      /\ rendered \in Seq(Rows) /\ CacheOK(cache) /\ refreshes \in Seq(Refreshes)
      /\ frameLeft \in 0..Len(refreshes)
    BY DEF ScrollerTyped
<1>3. CacheOK(c)
    BY <1>2, ResetKeeps, MeasureKeeps
<1>. HIDE DEF c
<1>4. /\ v.length \in Nat /\ v.padding \in Nat /\ Buffered(v) /\ RowsIn(v) \in Seq(Rows)
    BY <1>3, WindowFacts
<1>. HIDE DEF v
<1>5. /\ previousViewPort'.length \in Nat /\ previousViewPort'.padding \in Nat
      /\ rendered' \in Seq(Rows)
    BY <1>1, <1>2, <1>4 DEF Draw
<1>6. /\ Current \in Refreshes /\ Waiting \in Seq(Refreshes) /\ Len(Waiting) \in Nat
      /\ Len(Waiting) >= Len(refreshes) - 1
    BY <1>1, <1>2, WaitingFacts
<1> DEFINE Goal == /\ CacheOK(cache') /\ scrollTop' \in Nat
                   /\ refreshes' \in Seq(Refreshes) /\ Len(refreshes') >= Len(Waiting)
                   /\ (\E i \in 1..Len(Waiting) : Waiting[i].modified)
                         => \E i \in 1..Len(refreshes') : refreshes'[i].modified
<1>7. ASSUME RunsAgain(v) PROVE Goal
  <2> DEFINE r == Refresh(FALSE, Current.done, Current.runs - 1)
  <2>1. Settle /\ cache' = c /\ refreshes' = Append(Waiting, r)
      BY <1>1, <1>7 DEF FrameAgain
  <2>2. r \in Refreshes
      BY <1>6 DEF Refresh, Refreshes
  <2>. HIDE DEF r
  <2>3. /\ refreshes' \in Seq(Refreshes) /\ Len(refreshes') = Len(Waiting) + 1
        /\ (\E i \in 1..Len(Waiting) : Waiting[i].modified)
              => \E i \in 1..Len(refreshes') : refreshes'[i].modified
      BY <1>6, <2>1, <2>2, QueuedKeeps
  <2>4. scrollTop' \in Nat
      BY <1>2, <1>5, <2>1, SettleFacts
  <2>. QED
      BY <1>3, <1>6, <2>1, <2>3, <2>4
<1>8. ASSUME ~RunsAgain(v) PROVE Goal
  <2>1. FrameEnds(c, v)
      BY <1>1, <1>8
  <2>2. CASE refreshes' = Waiting /\ Settle /\ CacheOK(cache')
    <3>1. scrollTop' \in Nat
        BY <1>2, <1>5, <2>2, SettleFacts
    <3>. QED
        BY <1>6, <2>2, <3>1
  <2>3. CASE Current.done = NoJump
      BY <1>3, <2>1, <2>2, <2>3 DEF FrameEnds
  <2>4. CASE Current.done # NoJump
    <3> DEFINE m == Measure(c, v)
    <3>1. cache' = m
        BY <2>1, <2>4 DEF FrameEnds
    <3>2. CacheOK(m)
        BY <1>2, <1>3, MeasureKeeps
    <3>3. CASE Retries
      <4>1. ScrollInternal(Current.done.index, m, Waiting, Current.done.left - 1)
          BY <2>1, <2>4, <3>1, <3>3 DEF FrameEnds
      <4>2. Current.done.index \in Nat /\ Current.done.left - 1 \in Int
          BY <1>6 DEF Refreshes
      <4>. HIDE DEF m
      <4>3. /\ scrollTop' \in Nat
            /\ refreshes' \in Seq(Refreshes) /\ Len(refreshes') = Len(Waiting) + 1
            /\ (\E i \in 1..Len(Waiting) : Waiting[i].modified)
                  => \E i \in 1..Len(refreshes') : refreshes'[i].modified
          BY <1>2, <1>5, <1>6, <3>2, <4>1, <4>2, ScrollInternalFacts
      <4>. QED
          BY <1>6, <3>1, <3>2, <4>3
    <3>4. CASE ~Retries
        BY <2>1, <2>2, <2>4, <3>1, <3>2, <3>4 DEF FrameEnds
    <3>. QED
        BY <3>3, <3>4
  <2>. QED
      BY <2>3, <2>4
<1>9. Goal
    BY <1>7, <1>8
<1>10. DrawnInv'
    BY <1>1, <1>4, <1>9, RefreshDraws
<1>11. frameLeft' \in 0..Len(refreshes')
  <2>1. /\ Len(refreshes) \in Nat /\ Len(refreshes) > 0 /\ Len(refreshes') \in Nat
        /\ Len(refreshes') >= Len(refreshes) - 1
      BY <1>1, <1>2, <1>6, <1>9
  <2>. QED
      BY <1>1, <1>2, <2>1
<1>12. CacheOK(cache)'
    BY <1>9 DEF CacheOK, SumOf, SizesOf, Known, NoRow, MaxIndex
<1>. QED
    BY <1>1, <1>5, <1>9, <1>10, <1>11, <1>12 DEF ScrollerTyped

LEMMA ScrollerStart == ScrollerInit => ScrollerTyped /\ DrawnInv
<1> SUFFICES ASSUME ScrollerInit PROVE ScrollerTyped /\ DrawnInv
    OBVIOUS
<1> DEFINE first == Refresh(FALSE, NoJump, MaxRunTimes)
           again == Refresh(TRUE, NoJump, MaxRunTimes)
           queue == <<first, again, again>>
<1>1. first \in Refreshes /\ again \in Refreshes /\ again.modified
    BY DEF Refresh, Refreshes, NoJump, MaxRunTimes
<1>2. /\ unequal \in BOOLEAN /\ items = FirstRows /\ rendered = <<>>
      /\ previousViewPort = NoView /\ cache = EmptyCache /\ refreshes = queue
      /\ frameLeft = 0 /\ scrollTop = 0 /\ height \in Heights /\ seenHeight = 0 /\ jump = 0
    BY DEF ScrollerInit
<1>. HIDE DEF first, again
<1>3. /\ queue \in Seq(Refreshes) /\ Len(queue) = 3 /\ 2 \in 1..Len(queue)
      /\ queue[2].modified
    BY <1>1
<1>4. CacheOK(EmptyCache)
  <2> DEFINE f == [k \in DOMAIN NoSizes |-> NoSizes[k].size]
             D == 1..MaxIndex
  <2>1. /\ DOMAIN NoSizes = D /\ IsFiniteSet(D)
        /\ \A k \in D : NoSizes[k] = NoRow /\ NoRow.size = 0
      BY ScrollerConstants DEF NoSizes, NoRow
  <2>2. Known(NoSizes) = {} /\ Cardinality({}) = 0
      BY <2>1, FS_EmptySet DEF Known
  <2>3. \A k \in D : f[k] \in Int /\ f[k] = 0
      BY <2>1
  <2>4. SumOf(NoSizes) = SumFunctionOnSet(f, D)
      BY <2>1 DEF SumOf, SizesOf
  <2>. HIDE DEF f, D
  <2>5. SumFunctionOnSet(f, D) = SumFunctionOnSet(f, D \cap {})
      BY <2>1, <2>3, SumLeavesOutZeros
  <2>6. D \cap {} = {} /\ SumFunctionOnSet(f, {}) = 0
      BY <2>1, <2>3, SumFacts
  <2>7. SumOf(NoSizes) = 0
      BY <2>4, <2>5, <2>6
  <2>. QED
      BY <2>1, <2>2, <2>7 DEF CacheOK, EmptyCache, D
<1>5. NoView.length \in Nat /\ NoView.padding \in Nat
    BY DEF NoView
<1>6. <<>> \in Seq(Rows) /\ 0 \in 0..MaxIndex
    BY ScrollerConstants
<1>. HIDE DEF queue
<1>7. ScrollerTyped
    BY <1>2, <1>3, <1>4, <1>5, <1>6 DEF ScrollerTyped
<1>8. DrawnInv
    BY <1>1, <1>2, <1>3 DEF DrawnInv
<1>. QED
    BY <1>7, <1>8

LEMMA ScrollerStep ==
    ASSUME ScrollerTyped, DrawnInv, [ScrollerNext]_scrollerVars
    PROVE  ScrollerTyped' /\ DrawnInv'
<1>1. /\ items \in Lists \cup {FirstRows} /\ height \in Heights /\ scrollTop \in Nat
      /\ rendered \in Seq(Rows) /\ CacheOK(cache) /\ refreshes \in Seq(Refreshes)
      /\ Len(refreshes) \in Nat /\ frameLeft \in 0..Len(refreshes)
      /\ previousViewPort.length \in Nat /\ previousViewPort.padding \in Nat
    BY DEF ScrollerTyped
<1>2. 0 \in 0..MaxIndex
    BY ScrollerConstants
<1>3. ASSUME UNCHANGED cache PROVE CacheOK(cache)'
    BY <1>1, <1>3 DEF CacheOK, SumOf, SizesOf, Known, NoRow, MaxIndex
<1>4. ASSUME UNCHANGED <<items, rendered, previousViewPort>>,
             (\E i \in 1..Len(refreshes) : refreshes[i].modified)
                => \E i \in 1..Len(refreshes') : refreshes'[i].modified
      PROVE  DrawnInv'
    BY <1>4 DEF DrawnInv, RowsIn, Buffered, Clamp
<1>5. Refresh(FALSE, NoJump, MaxRunTimes) \in Refreshes
    BY DEF Refresh, Refreshes, NoJump, MaxRunTimes
<1>6. ASSUME ThrottleEnds \/ CheckScrollElementResized
      PROVE  ScrollerTyped' /\ DrawnInv'
  <2> DEFINE r == Refresh(FALSE, NoJump, MaxRunTimes)
  <2>1. /\ refreshes' = Append(refreshes, r) /\ seenHeight' \in {seenHeight, height}
        /\ UNCHANGED <<unequal, items, rendered, previousViewPort, cache, frameLeft,
                       scrollTop, height, jump>>
      BY <1>6 DEF ThrottleEnds, CheckScrollElementResized
  <2>. HIDE DEF r
  <2>2. /\ refreshes' \in Seq(Refreshes) /\ Len(refreshes') = Len(refreshes) + 1
        /\ (\E i \in 1..Len(refreshes) : refreshes[i].modified)
              => \E i \in 1..Len(refreshes') : refreshes'[i].modified
      BY <1>1, <1>5, <2>1, QueuedKeeps DEF r
  <2>3. frameLeft' \in 0..Len(refreshes')
      BY <1>1, <2>1, <2>2
  <2>4. CacheOK(cache)' /\ DrawnInv'
      BY <1>3, <1>4, <2>1, <2>2
  <2>. QED
      BY <2>1, <2>2, <2>3, <2>4 DEF ScrollerTyped
<1>7. ASSUME NEW to \in Places, UserScrolls(to)
      PROVE  ScrollerTyped' /\ DrawnInv'
  <2>1. /\ scrollTop' = to /\ jump' = 0 /\ to \in Nat
        /\ UNCHANGED <<unequal, items, rendered, previousViewPort, cache, refreshes,
                       frameLeft, height, seenHeight>>
      BY <1>7, ScrollerAssumption DEF UserScrolls
  <2>2. CacheOK(cache)' /\ DrawnInv'
      BY <1>3, <1>4, <2>1
  <2>. QED
      BY <1>2, <2>1, <2>2 DEF ScrollerTyped
<1>8. ASSUME NEW h \in Heights, Resize(h)
      PROVE  ScrollerTyped' /\ DrawnInv'
  <2> DEFINE far == Furthest(previousViewPort, rendered)
             d == far + height - h
             most == Max({d, 0})
  <2>1. /\ height' = h /\ jump' = 0
        /\ scrollTop' = Min({scrollTop, most})
        /\ UNCHANGED <<unequal, items, rendered, previousViewPort, cache, refreshes,
                       frameLeft, seenHeight>>
      BY <1>8 DEF Resize
  <2>2. d \in Int
    <3>1. far \in Nat
        BY <1>1, FurthestFacts
    <3>. HIDE DEF far
    <3>. QED
        BY <1>1, <3>1, ScrollerConstants
  <2>. HIDE DEF d
  <2>3. most \in Nat
    <3>1. 0 \in Int
        OBVIOUS
    <3>2. Max({d, 0}) = IF d >= 0 THEN d ELSE 0
        BY <2>2, <3>1, OfTwo, Zenon
    <3>. QED
        BY <2>2, <3>2
  <2>. HIDE DEF most
  <2>4. scrollTop' \in Nat
    <3>1. scrollTop \in Int /\ most \in Int
        BY <1>1, <2>3
    <3>2. Min({scrollTop, most}) = IF scrollTop <= most THEN scrollTop ELSE most
        BY <3>1, OfTwo, Zenon
    <3>. QED
        BY <1>1, <2>1, <2>3, <3>2
  <2>5. CacheOK(cache)' /\ DrawnInv'
      BY <1>3, <1>4, <2>1
  <2>. QED
      BY <1>2, <2>1, <2>4, <2>5 DEF ScrollerTyped
<1>9. ASSUME NEW new \in Lists, ItemsChange(new)
      PROVE  ScrollerTyped' /\ DrawnInv'
  <2> DEFINE r == Refresh(TRUE, NoJump, MaxRunTimes)
             a == <<Refresh(items = <<>>, NoJump, MaxRunTimes)>>
             b == IF WindowChanged(new) THEN <<r>> ELSE <<>>
             q == (refreshes \o a) \o b
  <2>1. /\ items' = new /\ jump' = 0 /\ refreshes' = q \o <<r>>
        /\ UNCHANGED <<unequal, rendered, previousViewPort, cache, frameLeft, scrollTop,
                       height, seenHeight>>
      BY <1>9 DEF ItemsChange
  <2>2. /\ r \in Refreshes /\ r.modified
        /\ Refresh(items = <<>>, NoJump, MaxRunTimes) \in Refreshes
      BY DEF Refresh, Refreshes, NoJump, MaxRunTimes
  <2>. HIDE DEF r
  <2>3. /\ \A x \in Refreshes : <<x>> \in Seq(Refreshes)
        /\ <<>> \in Seq(Refreshes)
        /\ \A s, t \in Seq(Refreshes) :
              s \o t \in Seq(Refreshes) /\ Len(s) \in Nat /\ Len(t) \in Nat
              /\ Len(s \o t) = Len(s) + Len(t)
      OBVIOUS
  <2>4. a \in Seq(Refreshes) /\ b \in Seq(Refreshes)
      BY <2>2, <2>3, Zenon
  <2>. HIDE DEF a, b
  <2>5. q \in Seq(Refreshes) /\ Len(q) \in Nat /\ Len(q) >= Len(refreshes)
      BY <1>1, <2>3, <2>4
  <2>. HIDE DEF q
  <2>6. /\ refreshes' \in Seq(Refreshes) /\ Len(refreshes') = Len(q) + 1
        /\ refreshes'[Len(q) + 1] = r
      BY <2>1, <2>2, <2>5
  <2>7. DrawnInv'
    <3>1. Len(q) + 1 \in 1..Len(refreshes')
        BY <2>5, <2>6
    <3>. QED
        BY <2>2, <2>6, <3>1 DEF DrawnInv
  <2>8. frameLeft' \in 0..Len(refreshes')
      BY <1>1, <2>1, <2>5, <2>6
  <2>9. CacheOK(cache)'
      BY <1>3, <2>1
  <2>. QED
      BY <1>2, <2>1, <2>6, <2>7, <2>8, <2>9 DEF ScrollerTyped
<1>10. ASSUME NEW k \in 1..MaxIndex, ScrollToIndex(k)
       PROVE  ScrollerTyped' /\ DrawnInv'
  <2> DEFINE m == Measure(cache, previousViewPort)
  <2>1. /\ cache' = m /\ jump' \in {0, k}
        /\ ScrollInternal(k, m, refreshes, MaxRetries)
        /\ UNCHANGED <<unequal, items, rendered, previousViewPort, frameLeft, height,
                       seenHeight>>
      BY <1>10 DEF ScrollToIndex
  <2>2. CacheOK(m)
      BY <1>1, MeasureKeeps
  <2>. HIDE DEF m
  <2>3. /\ previousViewPort'.length \in Nat /\ previousViewPort'.padding \in Nat
        /\ rendered' \in Seq(Rows) /\ k \in Nat /\ MaxRetries \in Int
      BY <1>1, <2>1, ScrollerConstants DEF MaxRetries
  <2>4. /\ scrollTop' \in Nat
        /\ refreshes' \in Seq(Refreshes) /\ Len(refreshes') = Len(refreshes) + 1
        /\ (\E i \in 1..Len(refreshes) : refreshes[i].modified)
              => \E i \in 1..Len(refreshes') : refreshes'[i].modified
      BY <1>1, <2>1, <2>2, <2>3, ScrollInternalFacts
  <2>5. frameLeft' \in 0..Len(refreshes') /\ jump' \in 0..MaxIndex
      BY <1>1, <1>2, <2>1, <2>4, ScrollerConstants
  <2>6. CacheOK(cache)'
      BY <2>1, <2>2 DEF CacheOK, SumOf, SizesOf, Known, NoRow, MaxIndex
  <2>7. DrawnInv'
      BY <1>4, <2>1, <2>4
  <2>. QED
      BY <2>1, <2>4, <2>5, <2>6, <2>7 DEF ScrollerTyped
<1>11. CASE UNCHANGED scrollerVars
  <2>1. UNCHANGED <<unequal, items, rendered, previousViewPort, cache, refreshes, frameLeft,
                    scrollTop, height, seenHeight, jump>>
      BY <1>11 DEF scrollerVars
  <2>2. CacheOK(cache)' /\ DrawnInv'
      BY <1>3, <1>4, <2>1
  <2>. QED
      BY <2>1, <2>2 DEF ScrollerTyped
<1>. QED
    BY <1>6, <1>7, <1>8, <1>9, <1>10, <1>11, RefreshStep DEF ScrollerNext

\* The count and the sum that the average height is taken from are those of the sizes
\* that are kept, and at rest the rows in the document are those of the window, of the
\* list as it is: no change of the list is lost between frames, jumps and measurements.
THEOREM ScrollerKeepsUp ==
    ScrollerSpec => [](ScrollerTypeOK /\ SumsAreTheSizes /\ RestIsRendered)
<1>1. ScrollerInit => ScrollerTyped /\ DrawnInv
    BY ScrollerStart
<1>2. ScrollerTyped /\ DrawnInv /\ [ScrollerNext]_scrollerVars => ScrollerTyped' /\ DrawnInv'
    BY ScrollerStep
<1>3. ScrollerTyped /\ DrawnInv => ScrollerTypeOK /\ SumsAreTheSizes /\ RestIsRendered
  <2> SUFFICES ASSUME ScrollerTyped, DrawnInv
               PROVE  ScrollerTypeOK /\ SumsAreTheSizes /\ RestIsRendered
      OBVIOUS
  <2>1. ScrollerTypeOK
      BY DEF ScrollerTyped, ScrollerTypeOK
  <2>2. SumsAreTheSizes
      BY CacheFacts DEF ScrollerTyped, CacheOK, SumsAreTheSizes
  <2>3. RestIsRendered
      BY DEF DrawnInv, AtRest, RestIsRendered
  <2>. QED
      BY <2>1, <2>2, <2>3
<1>. QED
    BY <1>1, <1>2, <1>3, PTL DEF ScrollerSpec

-----------------------------------------------------------------------------
(* Types.                                                                   *)

\* What the dropdown shows, and the numbers of the presets.
FlagsTyped ==
    /\ isOpen \in BOOLEAN /\ pickerShown \in BOOLEAN /\ customRangeSelected \in BOOLEAN
    /\ past \in BOOLEAN /\ cleared \in BOOLEAN
    /\ lastPreset \in 0..MaxPresets /\ kept \subseteq 1..lastPreset

LEMMA FlagsStart == ASSUME FiltersInit PROVE FlagsTyped
<1>1. 0 \in 0..MaxPresets
    BY FiltersConstants
<1>. QED
    BY <1>1 DEF FiltersInit, FlagsTyped

LEMMA PresetNumbersStay ==
    ASSUME FlagsTyped, UNCHANGED presetVars
    PROVE  lastPreset' \in 0..MaxPresets /\ kept' \subseteq 1..lastPreset'
BY DEF FlagsTyped, presetVars

\* The flags change by the dropdown, by a preset, or when everything is cleared or
\* loaded again; the numbers when a preset is saved or deleted.
LEMMA FlagsStep ==
    ASSUME FlagsTyped, [FiltersNext]_filterVars
    PROVE  FlagsTyped'
<1>1. ASSUME \/ \E s \in Searches : Type(s)
             \/ Debounced
             \/ \E t \in {"null", "some"} : ChooseTri(t)
             \/ \E l \in Shortcuts : ShowOnly(l)
             \/ \E m \in Moments : ChartRange(m)
             \/ ClearAllFilters
             \/ \E q \in presets : ApplyPreset(q)
      PROVE  FlagsTyped'
  <2>1. UNCHANGED <<dropdownVars, presetVars>> /\ past' \in BOOLEAN /\ cleared' \in BOOLEAN
      BY <1>1 DEF FlagsTyped, Type, Debounced, ChooseTri, ShowOnly, ChartRange,
                  ClearAllFilters, ApplyPreset
  <2>. QED
      BY <2>1, PresetNumbersStay DEF FlagsTyped, dropdownVars
<1>2. ASSUME \/ ToggleDropdown \/ ClickElsewhere \/ CancelRange
             \/ \E f \in TimeFilters : SelectFilter(f)
             \/ SelectCustomRange
             \/ \E r \in Ranges : ApplyRange(r)
      PROVE  FlagsTyped'
  <2>1. UNCHANGED presetVars /\ past' \in BOOLEAN /\ cleared' \in BOOLEAN
      BY <1>2 DEF FlagsTyped, ToggleDropdown, ClickElsewhere, CancelRange, SelectFilter,
                  SelectCustomRange, ApplyRange, FilterChange
  <2>2. isOpen' \in BOOLEAN /\ pickerShown' \in BOOLEAN /\ customRangeSelected' \in BOOLEAN
      BY <1>2 DEF FlagsTyped, ToggleDropdown, ClickElsewhere, CancelRange, SelectFilter,
                  SelectCustomRange, ApplyRange
  <2>. QED
      BY <2>1, <2>2, PresetNumbersStay DEF FlagsTyped
<1>3. ASSUME NEW today \in BOOLEAN, Reload(today) PROVE FlagsTyped'
    BY <1>3 DEF FlagsTyped, Reload
<1>4. CASE SavePreset
    BY <1>4, FiltersConstants DEF FlagsTyped, SavePreset, dropdownVars
<1>5. ASSUME NEW id \in 1..MaxPresets, DeletePreset(id) PROVE FlagsTyped'
    BY <1>5 DEF FlagsTyped, DeletePreset, dropdownVars
<1>6. CASE UNCHANGED filterVars
    BY <1>6 DEF FlagsTyped, filterVars
<1>. QED
    BY <1>1, <1>2, <1>3, <1>4, <1>5, <1>6 DEF FiltersNext

LEMMA FiltersTypes == FiltersInv /\ FlagsTyped => FiltersTypeOK
<1>. SUFFICES ASSUME FiltersInv, FlagsTyped PROVE FiltersTypeOK
    OBVIOUS
<1>1. /\ flt.levels \in Shortcuts \cup {"null", "none"} /\ flt.tri \in {"null", "some"}
      /\ flt.search \in Searches /\ flt.time \in {NoTime, "6h", "Day"}
    BY DEF FiltersInv, FilterStates
<1>2. /\ {box, wanted} \subseteq Searches /\ debouncing \in BOOLEAN /\ mixed \in BOOLEAN
      /\ pick \in TimeFilters \cup {"null"}
    BY DEF FiltersInv, SearchInv, TimeInv
<1>3. lastPreset <= MaxPresets
    BY FiltersConstants DEF FlagsTyped
<1>. QED
    BY <1>1, <1>2, <1>3 DEF FlagsTyped, FiltersTypeOK

ChartTyped ==
    /\ filter \in Filters /\ streamOn \in BOOLEAN /\ isDragging \in BOOLEAN
    /\ isSelecting \in BOOLEAN /\ reset \in BOOLEAN /\ drags \in 0..MaxDrags

LEMMA ChartTypedStart == ASSUME StatsInit PROVE ChartTyped
<1>1. 0 \in 0..MaxDrags
    BY ChartConstants
<1>. QED
    BY <1>1 DEF StatsInit, ChartTyped

LEMMA ChartTypedStep ==
    ASSUME ChartTyped, [StatsNext]_statsVars
    PROVE  ChartTyped'
<1>1. ASSUME \/ \E f \in Filters : FilterSet(f)
             \/ \E r \in asking, a \in Answers : StatsArrive(r, a)
             \/ StatsFail
      PROVE  ChartTyped'
    BY <1>1 DEF ChartTyped, FilterSet, StatsArrive, StatsFail, mouseVars
<1>2. ASSUME \/ \E x \in Pixels : MouseDown(x)
             \/ \E x \in (-1)..(ContainerWidth + 1) : MouseMove(x)
             \/ MouseUp \/ ResetFires \/ MouseLeave
             \/ \E i \in 0..(Len(stats) - 1) : ChartClick(i)
      PROVE  ChartTyped'
  <2>1. filter' = filter /\ streamOn' = streamOn
      BY <1>2 DEF MouseDown, MouseMove, MouseUp, ResetFires, MouseLeave, ChartClick,
                  SetRange, dataVars
  <2>2. isDragging' \in BOOLEAN /\ isSelecting' \in BOOLEAN /\ reset' \in BOOLEAN
      BY <1>2 DEF ChartTyped, MouseDown, MouseMove, MouseUp, ResetFires, MouseLeave,
                  ClearSelection, ChartClick
  <2>3. drags' = drags \/ (drags < MaxDrags /\ drags' = drags + 1)
      BY <1>2 DEF MouseDown, MouseMove, MouseUp, ResetFires, MouseLeave, ChartClick
  <2>4. drags' \in 0..MaxDrags
      BY <2>3, ChartConstants DEF ChartTyped
  <2>. QED
      BY <2>1, <2>2, <2>4 DEF ChartTyped
<1>3. CASE UNCHANGED statsVars
    BY <1>3 DEF ChartTyped, statsVars
<1>. QED
    BY <1>1, <1>2, <1>3 DEF StatsNext

LEMMA StatsTypes == StatsInv /\ ChartTyped => StatsTypeOK
BY DEF StatsInv, AskingInv, MouseInv, ChartTyped, StatsTypeOK

MenuTyped ==
    /\ maxInMemory \in MaxLogs /\ logCount \in LogCounts \cup {0}
    /\ menuOpen \in BOOLEAN /\ zone \in Offsets /\ unfolded \subseteq Categories

LEMMA MenuTypedStart == ASSUME PreferencesInit PROVE MenuTyped
BY PreferencesAssumption DEF PreferencesInit, MenuTyped

LEMMA MenuTypedStep ==
    ASSUME LogPreferencesInv, MenuTyped, [PreferencesNext]_preferenceVars
    PROVE  MenuTyped'
<1>1. ASSUME \/ ToggleActionsMenu \/ ClickOutside
             \/ \E n \in Preferences, saved \in BOOLEAN :
                   \E v \in ValuesOf[n] : Choose(n, v, saved)
      PROVE  MenuTyped'
    BY <1>1 DEF MenuTyped, ToggleActionsMenu, ClickOutside, Choose, memoryVars
<1>2. ASSUME NEW c \in Categories, ToggleCategory(c) PROVE MenuTyped'
    BY <1>2 DEF MenuTyped, ToggleCategory, memoryVars
<1>3. ASSUME \/ \E k \in MaxLogs : SetMaxLogs(k)
             \/ \E k \in LogCounts : UpdateLogCount(k)
      PROVE  MenuTyped'
    BY <1>3 DEF MenuTyped, SetMaxLogs, UpdateLogCount
<1>4. CASE LoadLogPage
    BY <1>4 DEF MenuTyped, LoadLogPage, LogPreferencesInv, LimitsInv
<1>5. CASE UNCHANGED preferenceVars
    BY <1>5 DEF MenuTyped, preferenceVars
<1>. QED
    BY <1>1, <1>2, <1>3, <1>4, <1>5 DEF PreferencesNext

LEMMA PreferencesTypes == LogPreferencesInv /\ MenuTyped => LogPreferencesTypeOK
BY DEF LogPreferencesInv, PreferencesAreRead, MenuTyped, LogPreferencesTypeOK

\* What MCLogTools checks at once is what the components do: in a behaviour of its
\* specification each of them starts as it should and takes its own steps only.
LEMMA OneAtATime ==
    /\ LogToolsInit => /\ ScrollerInit /\ ViewportInit /\ FiltersInit
                       /\ StatsInit /\ PreferencesInit /\ ToolsInit
    /\ [LogToolsNext]_<<part, scrollerVars, viewportVars, filterVars, statsVars,
                        preferenceVars, toolsVars>>
         => /\ [ScrollerNext]_scrollerVars /\ [ViewportNext]_viewportVars
            /\ [FiltersNext]_filterVars /\ [StatsNext]_statsVars
            /\ [PreferencesNext]_preferenceVars /\ [ToolsNext]_toolsVars
BY Zenon DEF LogToolsInit, ToolInits, LogToolsNext, ScrollerActs, ViewportActs, FiltersAct,
             StatsAct, PreferencesAct, ToolsAct

\* Every tool of the log page keeps its types, whatever happens to it.
THEOREM LogToolsTypes == LogToolsSpec => []LogToolsTypeOK
<1>. DEFINE Inv == /\ ScrollerTyped /\ DrawnInv /\ ViewportInv /\ FiltersInv /\ FlagsTyped
                   /\ StatsInv /\ ChartTyped /\ LogPreferencesInv /\ MenuTyped
                   /\ ToolsInv /\ part \in {"scroller", "viewport", "searches", "times",
                                            "stats", "preferences", "tools"}
<1>1. LogToolsInit => Inv
    BY OneAtATime, ScrollerStart, ViewportStart, FiltersStart, FlagsStart, StatsStart,
       ChartTypedStart, PreferencesStart, MenuTypedStart, ToolsStart DEF LogToolsInit
<1>2. Inv /\ [LogToolsNext]_<<part, scrollerVars, viewportVars, filterVars, statsVars,
                              preferenceVars, toolsVars>> => Inv'
  <2>. SUFFICES ASSUME Inv, [LogToolsNext]_<<part, scrollerVars, viewportVars, filterVars,
                                             statsVars, preferenceVars, toolsVars>>
                PROVE  Inv'
      OBVIOUS
  <2>1. part' = part
      BY DEF LogToolsNext
  <2>. QED
      BY <2>1, OneAtATime, ScrollerStep, ViewportStep, FiltersStep, FlagsStep, StatsStep,
         ChartTypedStep, PreferencesStep, MenuTypedStep, ToolsStep
<1>3. Inv => LogToolsTypeOK
  <2>. SUFFICES ASSUME Inv PROVE LogToolsTypeOK
      OBVIOUS
  <2>1. ScrollerTypeOK
      BY DEF ScrollerTyped, ScrollerTypeOK
  <2>2. ViewportTypeOK
      BY ViewportInvImplies
  <2>3. FiltersTypeOK /\ StatsTypeOK /\ LogPreferencesTypeOK
      BY FiltersTypes, StatsTypes, PreferencesTypes
  <2>4. ToolsTypeOK
      BY DEF ToolsInv
  <2>. QED
      BY <2>1, <2>2, <2>3, <2>4 DEF LogToolsTypeOK
<1>. QED
    BY <1>1, <1>2, <1>3, PTL DEF LogToolsSpec
=============================================================================
