------------------------------ MODULE LogFilters ------------------------------
(***************************************************************************)
(* The filters of the log page: the controls of the toolbar                *)
(* (LogFilterControlsComponent, TimeFilterDropdownComponent with its       *)
(* DateRangePickerComponent), the shortcuts of MainLogPageComponent, the   *)
(* state they share (LogFilterState, kept in the browser's storage) and    *)
(* the presets (FilterPresetsService and its modal).                       *)
(* An effect runs before the next event: a signal that mirrors another one *)
(* through toObservable changes in the same step, unless it is debounced.  *)
(***************************************************************************)
EXTENDS Naturals

CONSTANTS
    Searches,       \* texts of the search box, NoText is the empty one
    Moments,        \* what the ends of a custom range are chosen from
    Shortcuts,      \* the level filters that have a shortcut
    MaxPresets      \* bound: presets saved

NoText == ""

ASSUME FiltersAssumption ==
    NoText \in Searches /\ Moments \subseteq Nat /\ MaxPresets \in Nat

\* timeFilters, and the values of their dates.
TimeFilters == {"Any", "6h", "Day"}
NoTime == "null"
ValueOf(f) == IF f \in {"Any", "null"} THEN NoTime ELSE f

NoRange == <<>>
Ranges == Moments \X Moments

VARIABLES
    box,            \* searchString of the controls: the text in the box
    debouncing,     \* the debounce of 300 ms is running
    flt,            \* LogFilterState
    pick,           \* selectedTimeFilter, "null" for null
    isOpen, pickerShown, customRangeSelected,   \* the dropdown
    presets,        \* presets() of the service, whose order only the menu shows
    storedPresets,  \* what the browser's storage has of them
    lastPreset,
    kept,           \* history: presets saved and not deleted
    wanted,         \* history: the search asked for last
    past,           \* history: the time was set past the dropdown since its last change
    mixed,          \* history: a preset was applied during the debounce
    cleared         \* history: nothing has been done since clearAllFilters

filterVars == <<box, debouncing, flt, pick, isOpen, pickerShown,
                customRangeSelected, presets, storedPresets, lastPreset, kept,
                wanted, past, mixed, cleared>>
presetVars == <<presets, storedPresets, lastPreset, kept>>
dropdownVars == <<isOpen, pickerShown, customRangeSelected>>
searchVars == <<box, debouncing, wanted, mixed>>

FiltersInit ==
    /\ box = NoText /\ debouncing = TRUE
    /\ flt = [levels |-> "null", tri |-> "null", search |-> NoText, time |-> "6h",
              custom |-> NoRange]
    /\ pick = "6h"
    /\ isOpen = FALSE /\ pickerShown = FALSE /\ customRangeSelected = FALSE
    /\ presets = {} /\ storedPresets = {} /\ lastPreset = 0
    /\ kept = {}
    /\ wanted = NoText /\ past = FALSE /\ mixed = FALSE /\ cleared = FALSE

-----------------------------------------------------------------------------
(* The search box                                                          *)

Type(s) ==
    /\ s # box
    /\ box' = s /\ wanted' = s
    /\ debouncing' = TRUE
    /\ mixed' = FALSE /\ cleared' = FALSE
    /\ UNCHANGED <<flt, pick, dropdownVars, presetVars, past>>

Debounced ==
    /\ debouncing
    /\ debouncing' = FALSE
    /\ flt' = [flt EXCEPT !.search = box]
    /\ UNCHANGED <<box, wanted, mixed, pick, dropdownVars, presetVars, past, cleared>>

-----------------------------------------------------------------------------
(* Levels and pods                                                         *)

ChooseTri(t) ==
    /\ flt' = [flt EXCEPT !.tri = t]
    /\ cleared' = FALSE
    /\ UNCHANGED <<searchVars, pick, dropdownVars, presetVars, past>>

\* showOnlyErrors, showOnlyWarnings
ShowOnly(l) ==
    /\ flt' = [flt EXCEPT !.levels = l]
    /\ cleared' = FALSE
    /\ UNCHANGED <<searchVars, pick, dropdownVars, presetVars, past>>

-----------------------------------------------------------------------------
(* The time                                                                *)

\* filterChange: the signal's observable emits only when the signal changes.
FilterChange(f, custom, time) ==
    /\ pick' = f
    /\ flt' = [flt EXCEPT !.custom = custom,
                          !.time = IF f # pick THEN ValueOf(f) ELSE time]
    /\ past' = (past /\ f = pick)
    /\ cleared' = FALSE

ToggleDropdown ==
    /\ isOpen' = ~isOpen
    /\ pickerShown' = (pickerShown /\ (isOpen' \/ customRangeSelected))
    /\ UNCHANGED <<customRangeSelected, searchVars, flt, pick, presetVars,
                   past, cleared>>

\* onDocumentClick
ClickElsewhere ==
    /\ isOpen
    /\ isOpen' = FALSE /\ pickerShown' = FALSE
    /\ UNCHANGED <<customRangeSelected, searchVars, flt, pick, presetVars,
                   past, cleared>>

SelectFilter(f) ==
    /\ isOpen
    /\ FilterChange(f, NoRange, flt.time)
    /\ isOpen' = FALSE /\ pickerShown' = FALSE /\ customRangeSelected' = FALSE
    /\ UNCHANGED <<searchVars, presetVars>>

SelectCustomRange ==
    /\ isOpen
    /\ FilterChange("null", flt.custom, flt.time)
    /\ customRangeSelected' = TRUE /\ pickerShown' = TRUE
    /\ UNCHANGED <<isOpen, searchVars, presetVars>>

\* startDateString, endDateString: the range that is set hides what is entered.
InPicker(range) == IF flt.custom # NoRange THEN flt.custom ELSE range

CanApply(range) == range[1] <= range[2]

\* onApply with what has been entered, onCustomDateRangeSelected
ApplyRange(range) ==
    /\ isOpen /\ pickerShown /\ CanApply(InPicker(range))
    /\ FilterChange("null", InPicker(range), NoTime)
    /\ isOpen' = FALSE
    /\ UNCHANGED <<pickerShown, customRangeSelected, searchVars, presetVars>>

\* hideCustomPicker
CancelRange ==
    /\ isOpen /\ pickerShown
    /\ pickerShown' = FALSE /\ customRangeSelected' = FALSE
    /\ UNCHANGED <<isOpen, searchVars, flt, pick, presetVars, past, cleared>>

\* setCustomTimeRange, called by the chart with a range of its own.
ChartRange(m) ==
    /\ flt' = [flt EXCEPT !.custom = <<m, m + 1>>, !.time = NoTime]
    /\ past' = TRUE /\ cleared' = FALSE
    /\ UNCHANGED <<searchVars, pick, dropdownVars, presetVars>>

-----------------------------------------------------------------------------
(* Clearing                                                                *)

NothingSet == [levels |-> "none", tri |-> "null", search |-> NoText, time |-> NoTime,
               custom |-> NoRange]

\* hasActiveFilters looks at the box and not at the search of the state.
HasActiveFilters ==
    \/ flt.levels \in Shortcuts \/ flt.tri # "null"
    \/ box # NoText \/ flt.time # NoTime \/ flt.custom # NoRange

\* By the button, which HasActiveFilters enables, or by the shortcut, always.
ClearAllFilters ==
    /\ flt' = NothingSet
    /\ pick' = "Any"
    /\ box' = NoText /\ wanted' = NoText
    /\ debouncing' = (debouncing \/ box # NoText)
    /\ past' = FALSE /\ mixed' = FALSE /\ cleared' = TRUE
    /\ UNCHANGED <<dropdownVars, presetVars>>

-----------------------------------------------------------------------------
(* The presets                                                             *)

SavePreset ==
    /\ lastPreset < MaxPresets
    /\ lastPreset' = lastPreset + 1
    /\ presets' = presets \cup {[id |-> lastPreset + 1, levels |-> flt.levels,
                                 search |-> flt.search, time |-> flt.time,
                                 custom |-> flt.custom]}
    /\ storedPresets' = presets'
    /\ kept' = kept \cup {lastPreset + 1}
    /\ UNCHANGED <<searchVars, flt, pick, dropdownVars, past, cleared>>

\* When the dialog is confirmed.
DeletePreset(id) ==
    /\ id \in kept
    /\ presets' = {q \in presets : q.id # id}
    /\ storedPresets' = presets'
    /\ kept' = kept \ {id}
    /\ UNCHANGED <<lastPreset, searchVars, flt, pick, dropdownVars, past, cleared>>

\* The tri-states and the box stay as they are.
ApplyPreset(q) ==
    /\ flt' = [flt EXCEPT !.levels = q.levels, !.search = q.search, !.time = q.time,
                          !.custom = q.custom]
    /\ wanted' = q.search
    /\ past' = TRUE /\ mixed' = debouncing /\ cleared' = FALSE
    /\ UNCHANGED <<box, debouncing, pick, dropdownVars, presetVars>>

-----------------------------------------------------------------------------
(* The page is loaded again                                                *)

\* The filter of the saved time: dates of another day match none of today's.
SavedFilter(today) ==
    IF flt.time = NoTime THEN "6h" ELSE IF today THEN flt.time ELSE "Any"

\* Variant: the box starts empty.
Reload_EmptyBox(today) ==
    /\ box' = NoText /\ debouncing' = TRUE /\ wanted' = flt.search
    /\ pick' = SavedFilter(today)
    /\ flt' = [flt EXCEPT !.time = ValueOf(pick')]
    /\ isOpen' = FALSE
    /\ customRangeSelected' = (flt.custom # NoRange)
    /\ pickerShown' = customRangeSelected'
    /\ presets' = storedPresets
    /\ past' = FALSE /\ mixed' = FALSE /\ cleared' = FALSE
    /\ UNCHANGED <<storedPresets, lastPreset, kept>>

\* LogFilterState and the presets are read from the storage, where they are
\* saved on every change; the controls start from them.
Reload(today) ==
    /\ box' = flt.search /\ debouncing' = TRUE /\ wanted' = flt.search
    /\ pick' = SavedFilter(today)
    /\ flt' = [flt EXCEPT !.time = ValueOf(pick')]
    /\ isOpen' = FALSE
    /\ customRangeSelected' = (flt.custom # NoRange)
    /\ pickerShown' = customRangeSelected'
    /\ presets' = storedPresets
    /\ past' = FALSE /\ mixed' = FALSE /\ cleared' = FALSE
    /\ UNCHANGED <<storedPresets, lastPreset, kept>>

FiltersNext ==
    \/ \E s \in Searches : Type(s)
    \/ Debounced
    \/ \E t \in {"null", "some"} : ChooseTri(t)
    \/ \E l \in Shortcuts : ShowOnly(l)
    \/ ToggleDropdown
    \/ ClickElsewhere
    \/ \E f \in TimeFilters : SelectFilter(f)
    \/ SelectCustomRange
    \/ \E r \in Ranges : ApplyRange(r)
    \/ CancelRange
    \/ \E m \in Moments : ChartRange(m)
    \/ ClearAllFilters
    \/ SavePreset
    \/ \E id \in 1..MaxPresets : DeletePreset(id)
    \/ \E q \in presets : ApplyPreset(q)
    \/ \E today \in BOOLEAN : Reload(today)

FiltersSpec == FiltersInit /\ [][FiltersNext]_filterVars

-----------------------------------------------------------------------------
(* Properties                                                              *)

\* Types.
FiltersTypeOK ==
    /\ {box, wanted, flt.search} \subseteq Searches
    /\ {debouncing, isOpen, pickerShown, customRangeSelected, past, mixed, cleared}
         \subseteq BOOLEAN
    /\ flt.levels \in Shortcuts \cup {"null", "none"} /\ flt.tri \in {"null", "some"}
    /\ flt.time \in {NoTime, "6h", "Day"}
    /\ pick \in TimeFilters \cup {"null"}
    /\ kept \subseteq 1..lastPreset /\ lastPreset <= MaxPresets

\* Once all filters are cleared none comes back by itself: neither the debounce
\* of the search box nor the time filter's observable (clearAllFilters).
ClearedStays == cleared => flt = NothingSet

\* When the debounce is over the logs are searched for what was asked for last,
\* whether typed, cleared, set by a preset or kept over a reload
\* (LogFilterControlsComponent, searchString).
SearchIsKept == ~debouncing /\ ~mixed => flt.search = wanted

\* The time filter that the dropdown shows is the one in force, when the chart
\* and the presets have not set the time past it (displayValue, filterChange).
ShownTimeIsEffective ==
    ~past /\ flt.custom = NoRange /\ ~customRangeSelected /\ pick # "null"
        => flt.time = ValueOf(pick)

\* A custom range never ends before it starts (canApply).
RangeIsOrdered == flt.custom # NoRange => flt.custom[1] <= flt.custom[2]

\* The presets offered are those saved and not deleted, over reloads as well
\* (savePresets, loadPresets).
PresetsAreKept == {q.id : q \in presets} = kept

\* What the filters promise over box, dropdown, presets and reloads.
FiltersPromise ==
    /\ ClearedStays
    /\ SearchIsKept
    /\ ShownTimeIsEffective
    /\ RangeIsOrdered
    /\ PresetsAreKept
=============================================================================
