--------------------------- MODULE VirtualScroller ---------------------------
(***************************************************************************)
(* VirtualScrollerComponent: of a long list only the rows near the         *)
(* viewport are in the document.  The rows that are in it are measured,    *)
(* the others are taken to have the average height; every refresh waits    *)
(* for an animation frame and may ask for two more.  Modelled as the log   *)
(* viewport places it: vertical, a column of rows inside a parent that     *)
(* scrolls; with rows of equal and of unequal heights.                     *)
(***************************************************************************)
EXTENDS Integers, Sequences, SequencesExt, FiniteSets, FiniteSetsExt

CONSTANTS
    Rows,           \* rows that may be listed
    HeightOf,       \* HeightOf[r]: the height of a row, when they differ
    RowHeight,      \* the height of every row, when they do not
    FirstRows,      \* the list at first
    Lists,          \* lists that may replace it
    Heights,        \* heights of the viewport
    Places,         \* positions the user may scroll to
    BufferAmount,   \* rows rendered beyond the visible ones, on each side
    MaxEvents       \* bound: changes of the list, scrolls, resizes and jumps

ASSUME ScrollerAssumption ==
    /\ IsFiniteSet(Lists) /\ \A l \in Lists \cup {FirstRows} : l \in Seq(Rows)
    /\ \A r \in Rows : HeightOf[r] \in Nat \ {0}
    /\ RowHeight \in Nat \ {0} /\ Heights \subseteq Nat \ {0} /\ BufferAmount \in Nat
    /\ Places \subseteq Nat /\ MaxEvents \in Nat

MaxRetries == 5
MaxRunTimes == 2
ResizeThreshold == 5
MaxIndex == Max({Len(l) : l \in Lists \cup {FirstRows}} \cup {1})
NoRow == [row |-> {}, size |-> 0]
NoJump == [index |-> 0, left |-> 0]
NoView == [start |-> 0, end |-> 0, startBuf |-> 0, endBuf |-> 0, padding |-> 0,
           length |-> 0, pos |-> 0, bottom |-> 0, maxPos |-> 0, fresh |-> FALSE]

VARIABLES
    unequal,        \* enableUnequalChildrenSizes
    items,
    rendered,       \* viewPortItems: the rows in the document
    previousViewPort,
    cache,          \* wrapGroupDimensions and minMeasuredChildHeight
    refreshes,      \* refreshes that wait for an animation frame
    frameLeft,      \* of those, how many belong to the frame that is running
    scrollTop,
    throttled,      \* the timer of throttleTrailing is set
    height, seenHeight,   \* of the viewport: now, and at the last check
    events,
    jump            \* history: the row of the last scrollToIndex, 0 when moved since or
                    \* when an earlier one was under way

scrollerVars == <<unequal, items, rendered, previousViewPort, cache, refreshes, frameLeft,
                  scrollTop, throttled, height, seenHeight, events, jump>>

HeightIn(r) == IF unequal THEN HeightOf[r] ELSE RowHeight
SizesOf(c, S) == SumFunctionOnSet([k \in DOMAIN c |-> c[k].size], S)
SumOf(c) == SizesOf(c, DOMAIN c)
Known(c) == {k \in DOMAIN c : c[k] # NoRow}
NoSizes == [k \in 1..MaxIndex |-> NoRow]
EmptyCache == [sizes |-> NoSizes, count |-> 0, sum |-> 0, min |-> 0]
RowsHeight(s) == SumFunctionOnSet([i \in DOMAIN s |-> HeightIn(s[i])], DOMAIN s)

\* A refresh for changed items also has a callback that would scroll by the length rows
\* before the visible ones add; it takes that length from one viewport twice, so that it
\* is zero and the callback does nothing.
Refresh(modified, done, runs) == [modified |-> modified, done |-> done, runs |-> runs]

\* The constructor, the first ngOnChanges and the effect on the items each ask for one.
ScrollerInit ==
    /\ unequal \in BOOLEAN
    /\ items = FirstRows
    /\ rendered = <<>>
    /\ previousViewPort = NoView
    /\ cache = EmptyCache
    /\ refreshes = <<Refresh(FALSE, NoJump, MaxRunTimes), Refresh(TRUE, NoJump, MaxRunTimes),
                     Refresh(TRUE, NoJump, MaxRunTimes)>>
    /\ frameLeft = 0
    /\ scrollTop = 0
    /\ throttled = FALSE
    /\ height \in Heights /\ seenHeight = 0
    /\ events = 0
    /\ jump = 0

-----------------------------------------------------------------------------
(* Measuring                                                               *)

\* resetWrapGroupDimensions: the heights of rows that kept their place are kept.
ResetSizes(c) ==
    LET kept == {k \in Known(c.sizes) :
                    unequal /\ k <= Len(items) /\ c.sizes[k].row = {items[k]}}
        sizes == [k \in 1..MaxIndex |-> IF k \in kept THEN c.sizes[k] ELSE NoRow]
    IN [sizes |-> sizes, count |-> Cardinality(kept), sum |-> SumOf(sizes), min |-> 0]

Recount(c, sizes, here) ==
    [c EXCEPT !.sizes = sizes,
              !.count = @ - Cardinality(here \cap Known(c.sizes)) + Cardinality(here),
              !.sum = @ - SizesOf(c.sizes, here) + SizesOf(sizes, here)]

\* The rows in the document are measured at the place the last viewport gave them.
MeasureUnequal(c, v) ==
    LET at == [k \in 1..MaxIndex |-> k - (IF v.startBuf < 1 THEN 1 ELSE v.startBuf) + 1]
        here == {k \in 1..MaxIndex : at[k] \in 1..Len(rendered)}
        sizes == [k \in 1..MaxIndex |->
                     IF k \in here
                       THEN [row |-> IF k <= Len(items) THEN {items[k]} ELSE {},
                             size |-> HeightIn(rendered[at[k]])]
                       ELSE c.sizes[k]]
    IN Recount(c, sizes, here)

\* A smallest height, for rows that are all alike; the viewport's is the first guess.
MeasureEqual(c) ==
    IF rendered = <<>> THEN c
    ELSE [c EXCEPT !.min = Min({IF c.min = 0 THEN height ELSE c.min, RowHeight})]

Measure(c, v) == IF unequal THEN MeasureUnequal(c, v) ELSE MeasureEqual(c)

\* The height that is assumed of a row nobody has measured.
DefaultHeight(c) ==
    CASE unequal /\ c.count > 0 -> c.sum \div c.count
      [] ~unequal /\ c.min > 0  -> c.min
      [] OTHER                  -> height

SizeAt(c, k) == IF unequal /\ c.sizes[k].size > 0 THEN c.sizes[k].size ELSE DefaultHeight(c)
\* calculatePadding: what lies above the row at index k + 1.
LengthTo(c, k) == SumFunctionOnSet([i \in 1..k |-> SizeAt(c, i)], 1..k)
ScrollLength(c) == LengthTo(c, Len(items))

-----------------------------------------------------------------------------
(* calculatePageInfo and calculateViewport                                 *)

Clamp(k, n) == Min({Max({k, 1}), n})
DivUp(a, b) == (a + b - 1) \div b

Reaches(c, pos, j) == pos + height < LengthTo(c, j)

UnequalWindow(c, pos) ==
    LET n == Len(items)
        first == {i \in 1..n : pos < LengthTo(c, i)}
        start == IF first = {} THEN n + 1 ELSE Min(first)
        last == {j \in start + 1..n : Reaches(c, pos, j)}
        end == IF last = {} THEN Max({n, start}) + 1 ELSE Min(last)
    IN <<start, end>>

EqualWindow(c, pos) ==
    LET n == Len(items)
        length == ScrollLength(c)
        perPage == Max({DivUp(height, DefaultHeight(c)), 1})
        top == Min({pos * n, n * length})
    IN IF length = 0 THEN <<1, 1>>
       ELSE <<Min({top \div length, n - perPage - 1}) + 1, DivUp(top, length) + perPage>>

Viewport(c) ==
    LET n == Len(items)
        length == ScrollLength(c)
        pos == Min({scrollTop, length})
        w == IF unequal THEN UnequalWindow(c, pos) ELSE EqualWindow(c, pos)
        start == Clamp(w[1], n)
        end == Clamp(w[2], n)
        startBuf == Clamp(start - BufferAmount, n)
    IN [start |-> start, end |-> end, startBuf |-> startBuf,
        endBuf |-> Clamp(end + BufferAmount, n),
        padding |-> IF n = 0 THEN 0 ELSE LengthTo(c, startBuf - 1), length |-> length,
        pos |-> pos, bottom |-> pos + height, maxPos |-> Max({length - height, 0}),
        fresh |-> TRUE]

\* Nothing waits, and the last refresh saw the viewport as high as it is: two resizes
\* that cancel out between two checks, and a scroll between them, are not noticed.
AtRest == /\ refreshes = <<>> /\ ~throttled
          /\ previousViewPort.bottom = previousViewPort.pos + height

RowsIn(v) == IF v.startBuf < 1 THEN <<>> ELSE SubSeq(items, v.startBuf, v.endBuf)

-----------------------------------------------------------------------------
(* The browser, the timer of the scroll handler                            *)

\* What a browser allows: the document is as long as its padding and its rows make it.
Furthest(v, rows) == Max({Max({v.length, v.padding + RowsHeight(rows)}) - height, 0})
Between == frameLeft = 0
Happens == events < MaxEvents /\ events' = events + 1

\* throttleTrailing: the first event sets the timer, the others are dropped.
ThrottleTrailing == throttled' = TRUE

ThrottleEnds ==
    /\ Between /\ throttled
    /\ throttled' = FALSE
    /\ refreshes' = Append(refreshes, Refresh(FALSE, NoJump, MaxRunTimes))
    /\ UNCHANGED <<unequal, items, rendered, previousViewPort, cache, frameLeft, scrollTop,
                   height, seenHeight, events, jump>>

UserScrolls(to) ==
    /\ Between /\ Happens
    /\ to # scrollTop /\ to <= Furthest(previousViewPort, rendered)
    /\ scrollTop' = to
    /\ jump' = 0
    /\ ThrottleTrailing
    /\ UNCHANGED <<unequal, items, rendered, previousViewPort, cache, refreshes, frameLeft,
                   height, seenHeight>>

Resize(h) ==
    /\ Between /\ Happens
    /\ h # height
    /\ height' = h
    /\ scrollTop' = Min({scrollTop, Max({Furthest(previousViewPort, rendered) + height - h, 0})})
    /\ throttled' = (throttled \/ scrollTop' # scrollTop)
    /\ jump' = 0
    /\ UNCHANGED <<unequal, items, rendered, previousViewPort, cache, refreshes, frameLeft,
                   seenHeight>>

\* The check that runs every second.
ResizeSeen == IF seenHeight > height THEN seenHeight - height ELSE height - seenHeight
CheckScrollElementResized ==
    /\ Between
    /\ seenHeight = 0 \/ ResizeSeen > ResizeThreshold
    /\ seenHeight' = height
    /\ refreshes' = Append(refreshes, Refresh(FALSE, NoJump, MaxRunTimes))
    /\ UNCHANGED <<unequal, items, rendered, previousViewPort, cache, frameLeft, scrollTop,
                   throttled, height, events, jump>>

\* ngDoCheck: a row that is rendered is no longer the one at its place.
WindowChanged(new) ==
    \E i \in 1..Len(rendered) :
        \/ previousViewPort.startBuf + i - 1 > Len(new)
        \/ new[previousViewPort.startBuf + i - 1] # rendered[i]

\* ngOnChanges, ngDoCheck and the effect on the items, in this order.  The length
\* ngOnChanges and ngDoCheck compare is the input function's, which never changes.
ItemsChange(new) ==
    /\ Between /\ Happens
    /\ new # items
    /\ items' = new
    /\ refreshes' =
          refreshes \o <<Refresh(items = <<>>, NoJump, MaxRunTimes)>>
                    \o (IF WindowChanged(new) THEN <<Refresh(TRUE, NoJump, MaxRunTimes)>>
                        ELSE <<>>)
                    \o <<Refresh(TRUE, NoJump, MaxRunTimes)>>
    /\ jump' = 0
    /\ UNCHANGED <<unequal, rendered, previousViewPort, cache, frameLeft, scrollTop,
                   throttled, height, seenHeight>>

\* scrollToIndex_internal and scrollToPosition, without an animation.
ScrollInternal(index, c, q, left) ==
    /\ scrollTop' = Min({LengthTo(c, Min({index - 1, Len(items)})),
                         Furthest(previousViewPort', rendered')})
    /\ throttled' = (throttled \/ scrollTop' # scrollTop)
    /\ refreshes' = Append(q, Refresh(FALSE, [index |-> index, left |-> left], MaxRunTimes))

ScrollToIndex(index) ==
    /\ Between /\ Happens
    /\ index \in 1..Len(items)
    /\ cache' = Measure(cache, previousViewPort)
    /\ UNCHANGED <<rendered, previousViewPort>>
    /\ ScrollInternal(index, cache', refreshes, MaxRetries)
   
    /\ jump' = IF \E k \in 1..Len(refreshes) : refreshes[k].done # NoJump THEN 0 ELSE index
    /\ UNCHANGED <<unequal, items, frameLeft, height, seenHeight>>

-----------------------------------------------------------------------------
(* refresh_internal: the animation frame                                   *)

Current == Head(refreshes)
\* The rest of the queue, and the refresh that a reset of the cache asks for.
Waiting == Tail(refreshes) \o (IF Current.modified
                                 THEN <<Refresh(FALSE, NoJump, MaxRunTimes)>> ELSE <<>>)

WindowMoved(v) ==
    \/ Current.modified
    \/ v.start # previousViewPort.start \/ v.end # previousViewPort.end
PositionChanged(v) ==
    \/ ~previousViewPort.fresh
    \/ v.pos # previousViewPort.pos \/ v.bottom # previousViewPort.bottom
    \/ v.maxPos # previousViewPort.maxPos
LayoutChanged(v) ==
    \/ ~previousViewPort.fresh
    \/ v.length # previousViewPort.length \/ v.padding # previousViewPort.padding
Redraws(v) == WindowMoved(v) \/ PositionChanged(v)
RunsAgain(v) == Current.runs > 0 /\ (Redraws(v) \/ LayoutChanged(v))

\* A browser brings the position back when the document has become shorter.
Settle ==
    /\ scrollTop' = Min({scrollTop, Furthest(previousViewPort', rendered')})
    /\ throttled' = (throttled \/ scrollTop' # scrollTop)

Draw(v) ==
    /\ previousViewPort' = v
    /\ rendered' = IF Redraws(v) THEN RowsIn(v) ELSE rendered

\* Variant: one attempt.
Retries_Never == FALSE
\* retryIfNeeded: the row is not at the top yet, and it has not been tried too often.
Retries ==
    /\ Current.done.left > 1
    /\ previousViewPort'.start # Clamp(Current.done.index, Len(items))

FrameAgain(c) ==
    /\ Settle
    /\ cache' = c
    /\ refreshes' = Append(Waiting, Refresh(FALSE, Current.done, Current.runs - 1))

FrameEnds(c, v) ==
    IF Current.done = NoJump
      THEN /\ Settle
           /\ cache' = c
           /\ refreshes' = Waiting
      ELSE /\ cache' = Measure(c, v)
           /\ IF Retries
                THEN ScrollInternal(Current.done.index, cache', Waiting, Current.done.left - 1)
                ELSE refreshes' = Waiting /\ Settle

RefreshInternal ==
    /\ refreshes # <<>>
    /\ frameLeft' = (IF frameLeft = 0 THEN Len(refreshes) ELSE frameLeft) - 1
    /\ LET c == Measure(IF Current.modified THEN ResetSizes(cache) ELSE cache,
                        previousViewPort)
           v == Viewport(c)
       IN /\ Draw(v)
          /\ IF RunsAgain(v) THEN FrameAgain(c) ELSE FrameEnds(c, v)
    /\ UNCHANGED <<unequal, items, height, seenHeight, events, jump>>

ScrollerNext ==
    \/ \E to \in Places : UserScrolls(to)
    \/ \E h \in Heights : Resize(h)
    \/ \E l \in Lists : ItemsChange(l)
    \/ \E k \in 1..MaxIndex : ScrollToIndex(k)
    \/ ThrottleEnds \/ CheckScrollElementResized
    \/ RefreshInternal

ScrollerSpec == ScrollerInit /\ [][ScrollerNext]_scrollerVars

-----------------------------------------------------------------------------
(* Properties                                                              *)

ScrollerTypeOK ==
    /\ items \in Lists \cup {FirstRows}
    /\ frameLeft \in 0..Len(refreshes)
    /\ scrollTop \in Nat /\ seenHeight \in Heights \cup {0}
    /\ jump \in 0..MaxIndex

\* The count and the sum that the average is taken from are those of the sizes that
\* are kept: measuring a row again, moving it or dropping it leaves none behind.
SumsAreTheSizes ==
    unequal => /\ cache.sum = SumOf(cache.sizes)
               /\ cache.count = Cardinality({k \in 1..MaxIndex : cache.sizes[k].size > 0})

\* At rest the rows in the document are those of the window, of the list as it is now.
RestIsRendered ==
    AtRest => rendered = RowsIn(previousViewPort)

\* At rest the viewport is filled: no blank above its first row nor below its last,
\* unless the list ends there.
NoBlank ==
    AtRest =>
      LET v == previousViewPort IN
      /\ v.startBuf > 1 => v.padding <= scrollTop
      /\ v.endBuf < Len(items) => v.padding + RowsHeight(rendered) >= scrollTop + height

\* At rest after a jump to a row, that row is in the document and at least a part of
\* it inside the viewport.
JumpArrives ==
    AtRest /\ jump > 0 =>
      LET v == previousViewPort IN
      /\ jump \in v.startBuf..v.endBuf
      /\ LET top == v.padding + RowsHeight(SubSeq(items, v.startBuf, jump - 1))
         IN top + HeightIn(items[jump]) > scrollTop /\ top < scrollTop + height

\* What the scroller promises once it has come to rest, and of the sizes it keeps
\* until then.
ScrollerPromise ==
    /\ SumsAreTheSizes
    /\ RestIsRendered
    /\ NoBlank
    /\ JumpArrives
=============================================================================
