------------------------------- MODULE LogStats -------------------------------
(***************************************************************************)
(* The chart of the log page (LogStatsComponent): the statistics that each *)
(* change of the filters asks for, the series that are drawn, and the      *)
(* range of time that the user sets by dragging over the chart or clicking *)
(* a point of it.  The chart library's zoom and pan are left out.          *)
(***************************************************************************)
EXTENDS Integers, Sequences, FiniteSets, Functions

CONSTANTS
    Filters,            \* what the other filters may be set to
    Answers,            \* statistics: a sequence of counts by level
    ContainerWidth,     \* pixels
    PlotLeft, PlotRight,    \* the plot area
    MinSelectionWidth,
    MaxDrags            \* bound: drags and clicks

ASSUME StatsAssumption ==
    /\ {PlotLeft, PlotRight, ContainerWidth, MinSelectionWidth, MaxDrags} \subseteq Nat
    /\ PlotLeft < PlotRight /\ PlotRight <= ContainerWidth
    /\ \A a \in Answers :
          /\ Len(a) \in Nat \ {0}
          /\ \A i \in 1..Len(a) : \A level \in DOMAIN a[i] : a[i][level] \in Nat

Pixels == 0..ContainerWidth
NoStats == <<>>
WholeTime == <<>>       \* customTimeRange null
Series == {"Debug", "Information", "Warning", "Error"}

VARIABLES
    filter,             \* the other filters
    timeRange,          \* customTimeRange, in periods: <<from, to>>
    asking,             \* the filters of the requests under way
    stats, statsOf,     \* the statistics shown, and the filters of their request
    streamOn,           \* the subscription is live
    isDragging, isSelecting, selectionStart, selectionEnd,
    resets,             \* timers of 100 ms that clear the selection
    drags,              \* drags and clicks so far
    downAt,             \* history: where the mouse went down
    reset,              \* history: a timer has cleared a later drag
    dragged             \* history: the last drag and the range it has set

statsVars == <<filter, timeRange, asking, stats, statsOf, streamOn, isDragging,
               isSelecting, selectionStart, selectionEnd, resets, drags, downAt,
               reset, dragged>>
mouseVars == <<isDragging, isSelecting, selectionStart, selectionEnd, resets,
               drags, downAt, reset, dragged>>
dataVars == <<filter, timeRange, asking, stats, statsOf, streamOn>>

NoDrag == [from |-> 0, to |-> 0, points |-> 0, set |-> WholeTime]

StatsInit ==
    /\ filter \in Filters /\ timeRange = WholeTime
    /\ asking = {<<filter, timeRange>>}
    /\ stats = NoStats /\ statsOf = <<>> /\ streamOn = TRUE
    /\ isDragging = FALSE /\ isSelecting = FALSE
    /\ selectionStart = 0 /\ selectionEnd = 0 /\ resets = 0 /\ drags = 0
    /\ downAt = 0 /\ reset = FALSE /\ dragged = NoDrag

-----------------------------------------------------------------------------
(* The statistics                                                          *)

\* Variant: the requests before are not cancelled.
Ask_Merges == asking' = IF streamOn THEN asking \cup {<<filter', timeRange'>>} ELSE {}

\* combineLatest and switchMap
Ask == asking' = IF streamOn THEN {<<filter', timeRange'>>} ELSE {}

FilterSet(f) ==
    /\ f # filter
    /\ filter' = f
    /\ UNCHANGED timeRange
    /\ Ask
    /\ UNCHANGED <<stats, statsOf, streamOn, mouseVars>>

StatsArrive(request, a) ==
    /\ request \in asking
    /\ asking' = asking \ {request}
    /\ stats' = a /\ statsOf' = request
    /\ UNCHANGED <<filter, timeRange, streamOn, mouseVars>>

\* There is no catchError: the subscription ends.
StatsFail ==
    /\ asking # {}
    /\ asking' = {} /\ streamOn' = FALSE
    /\ UNCHANGED <<filter, timeRange, stats, statsOf, mouseVars>>

DataSet(counts, level) ==
    [i \in 1..Len(counts) |-> IF level \in DOMAIN counts[i] THEN counts[i][level] ELSE 0]

\* One series for each level.
GetData(counts) == [level \in Series |-> DataSet(counts, level)]

-----------------------------------------------------------------------------
(* The mouse                                                               *)

Least(a, b) == IF a < b THEN a ELSE b
Most(a, b) == IF a < b THEN b ELSE a
CeilDiv(a, b) == -((-a) \div b)

SelectionWidth == Most(selectionStart, selectionEnd) - Least(selectionStart, selectionEnd)

\* processTimeRangeSelection: the periods under the selection, the last one
\* to its end.
SelectedRange(n) ==
    LET width == PlotRight - PlotLeft
        startX == Most(0, Least(selectionStart, selectionEnd) - PlotLeft)
        endX == Least(width, Most(selectionStart, selectionEnd) - PlotLeft)
        first == Most(0, Least((startX * n) \div width, n - 1))
        last == Most(first, Least(CeilDiv(endX * n, width), n - 1))
    IN  <<first, last + 1>>

MouseDown(x) ==
    /\ ~isDragging /\ drags < MaxDrags
    /\ drags' = drags + 1
    /\ isDragging' = TRUE /\ isSelecting' = TRUE
    /\ selectionStart' = x /\ selectionEnd' = x
    /\ downAt' = x /\ reset' = FALSE /\ dragged' = NoDrag
    /\ UNCHANGED <<dataVars, resets>>

\* Variant: not kept within the container.
MouseMove_Free(x) ==
    /\ isDragging
    /\ selectionEnd' = x
    /\ UNCHANGED <<dataVars, isDragging, isSelecting, selectionStart, resets, drags,
                   downAt, reset, dragged>>

\* x is relative to where the container was at the press.
MouseMove(x) ==
    /\ isDragging
    /\ selectionEnd' = Most(0, Least(x, ContainerWidth))
    /\ UNCHANGED <<dataVars, isDragging, isSelecting, selectionStart, resets, drags,
                   downAt, reset, dragged>>

\* setCustomTimeRange
SetRange(range) ==
    /\ timeRange' = range
    /\ UNCHANGED filter
    /\ IF range # timeRange THEN Ask ELSE UNCHANGED asking
    /\ UNCHANGED <<stats, statsOf, streamOn>>

MouseUp ==
    /\ isDragging
    /\ isDragging' = FALSE
    /\ IF SelectionWidth >= MinSelectionWidth /\ stats # NoStats
       THEN /\ SetRange(SelectedRange(Len(stats)))
            /\ dragged' = [from |-> downAt, to |-> selectionEnd, points |-> Len(stats),
                           set |-> SelectedRange(Len(stats))]
       ELSE UNCHANGED <<dataVars, dragged>>
    /\ resets' = resets + 1
    /\ UNCHANGED <<isSelecting, selectionStart, selectionEnd, drags, downAt, reset>>

ClearSelection ==
    /\ isSelecting' = FALSE
    /\ selectionStart' = 0 /\ selectionEnd' = 0

\* The timer of MouseUp.
ResetFires ==
    /\ resets > 0
    /\ resets' = resets - 1
    /\ ClearSelection
    /\ reset' = (reset \/ isDragging)
    /\ UNCHANGED <<dataVars, isDragging, drags, downAt, dragged>>

MouseLeave ==
    /\ isDragging
    /\ isDragging' = FALSE
    /\ ClearSelection
    /\ UNCHANGED <<dataVars, resets, drags, downAt, reset, dragged>>

\* A point of the chart: its period becomes the range.
ChartClick(i) ==
    /\ i \in 0..(Len(stats) - 1) /\ drags < MaxDrags
    /\ drags' = drags + 1
    /\ SetRange(<<i, i + 1>>)
    /\ UNCHANGED <<isDragging, isSelecting, selectionStart, selectionEnd, resets,
                   downAt, reset, dragged>>

StatsNext ==
    \/ \E f \in Filters : FilterSet(f)
    \/ \E r \in asking, a \in Answers : StatsArrive(r, a)
    \/ StatsFail
    \/ \E x \in Pixels : MouseDown(x)
    \/ \E x \in (-1)..(ContainerWidth + 1) : MouseMove(x)
    \/ MouseUp
    \/ ResetFires
    \/ MouseLeave
    \/ \E i \in 0..(Len(stats) - 1) : ChartClick(i)

StatsSpec == StatsInit /\ [][StatsNext]_statsVars

-----------------------------------------------------------------------------
(* Properties                                                              *)

\* Types.
StatsTypeOK ==
    /\ filter \in Filters /\ stats \in Answers \cup {NoStats}
    /\ {streamOn, isDragging, isSelecting, reset} \subseteq BOOLEAN
    /\ {selectionStart, selectionEnd, downAt} \subseteq Pixels
    /\ resets \in Nat /\ drags \in 0..MaxDrags

\* When no request is under way the chart shows the statistics of the filters
\* that are set, whatever the order in which answers come (switchMap).
StatsAreCurrent ==
    asking = {} /\ streamOn => statsOf = <<filter, timeRange>>

\* What is drawn of a period adds up to what was counted in it: the series line
\* up although levels are missing from a period's counts (getDataSet).
SeriesAddUp ==
    \A i \in 1..Len(stats) :
        /\ \A level \in Series : Len(GetData(stats)[level]) = Len(stats)
        /\ SumFunction([level \in Series |-> GetData(stats)[level][i]])
             = SumFunctionOnSet(stats[i], DOMAIN stats[i] \cap Series)

\* The range that a drag sets is of the periods drawn and has all those that the
\* mouse has passed, in either direction (processTimeRangeSelection).
DragIsCovered ==
    LET n == dragged.points
        width == PlotRight - PlotLeft
        period(i) == <<PlotLeft * n + i * width, PlotLeft * n + (i + 1) * width>>
        left == n * Least(dragged.from, dragged.to)
        right == n * Most(dragged.from, dragged.to)
    IN  ~reset => \A i \in 0..(n - 1) :
            /\ dragged.set[1] < dragged.set[2] /\ dragged.set[2] <= n
            /\ period(i)[1] < right /\ left < period(i)[2]
                 => dragged.set[1] <= i /\ i < dragged.set[2]

\* The selection that is drawn is that of the drag, and it goes away after it
\* (isSelecting).  A timer of the drag before that fires during the next one
\* clears that one's: see the history variable.
OverlayIsTheDrag ==
    /\ isDragging /\ ~reset => isSelecting /\ selectionStart = downAt
    /\ ~isDragging /\ resets = 0 => ~isSelecting

\* What the chart promises of its data and of a drag over it.
StatsPromise ==
    /\ StatsAreCurrent
    /\ SeriesAddUp
    /\ DragIsCovered
    /\ OverlayIsTheDrag
=============================================================================
