------------------------------ MODULE CpuHistory ------------------------------
(***************************************************************************)
(* The CPU history of one pod: the samples that PodMonitorService keeps for *)
(* a window of 24 hours, the buckets that it makes of them for the table,  *)
(* and the sparkline that WPodsComponent draws.                            *)
(*                                                                         *)
(* Time is counted in units of which the window has Window.                *)
(***************************************************************************)
EXTENDS Integers, FiniteSets, FiniteSetsExt, Sequences, SequencesExt, Functions

CONSTANTS
    Window,         \* HistoryWindow
    BucketCount,    \* the endpoint asks for 30
    Percents,       \* readings of the CPU
    Pollers,        \* polls that may be under way: of one generation, or of two
    MaxNow,         \* bound on time
    MaxSamples      \* bound on the samples taken

\* The box of the sparkline, in hundredths.
Width == 6000
Height == 2000
Border == 100

\* The line has a place of its own for each bucket: at least a hundredth.
ASSUME CpuAssumption ==
    /\ Window \in Nat \ {0} /\ BucketCount \in 1..(Width - 2 * Border)
    /\ Window % BucketCount = 0
    /\ Percents \subseteq 0..100

VARIABLES
    now,
    reading,        \* reading[p]: the sample a poll has made and not enqueued
    samples,        \* the queue of _history
    cutoff,         \* of the last poll that enqueued
    taken,          \* history: every sample since the queue was made
    overtaken       \* history: of two polls, the later enqueued first

historyVars == <<now, reading, samples, cutoff, taken, overtaken>>

NoReading == [at |-> -1, cpu |-> 0]

HistoryInit ==
    /\ now = 0
    /\ reading = [p \in Pollers |-> NoReading]
    /\ samples = <<>> /\ cutoff = -Window
    /\ taken = <<>> /\ overtaken = FALSE

-----------------------------------------------------------------------------
(* PodMonitorService.PollMetricsAsync and GetCpuHistoryDownsampled.        *)

\* A sample bears the time at which it is made, before the lock is taken.
PollReads(p, cpu) ==
    /\ reading[p] = NoReading
    /\ reading' = [reading EXCEPT ![p] = [at |-> now, cpu |-> cpu]]
    /\ UNCHANGED <<now, samples, cutoff, taken, overtaken>>

\* Samples leave at the head while that is older than the window.
Pruned(q, limit) ==
    LET kept == {i \in 1..Len(q) : q[i].at >= limit}
    IN  IF kept = {} THEN <<>> ELSE SubSeq(q, Min(kept), Len(q))

PollEnqueues(p) ==
    /\ reading[p] # NoReading
    /\ Len(taken) < MaxSamples
    /\ cutoff' = reading[p].at - Window
    /\ samples' = Pruned(Append(samples, reading[p]), cutoff')
    /\ taken' = Append(taken, reading[p])
    /\ overtaken' = (overtaken \/ cutoff' < cutoff)
    /\ reading' = [reading EXCEPT ![p] = NoReading]
    /\ UNCHANGED now

\* The pod is excluded, or no pod of its key is alive: the queue is dropped.
Dropped ==
    /\ samples # <<>>
    /\ samples' = <<>> /\ taken' = <<>> /\ overtaken' = FALSE
    /\ cutoff' = -Window
    /\ UNCHANGED <<now, reading>>

\* Variant: the newest sample is out of range.
SlotOf_Unclamped(s, t) ==
    LET offset == s.at - (t - Window)
    IN  IF offset < 0 THEN 1 ELSE 1 + offset \div (Window \div BucketCount)

\* The bucket of a sample, whatever its time.
SlotOf(s, t) ==
    LET offset == s.at - (t - Window)
        index == IF offset < 0 THEN 0 ELSE offset \div (Window \div BucketCount)
    IN  1 + Min({index, BucketCount - 1})

InSlot(b, q, t) == {i \in 1..Len(q) : SlotOf(q[i], t) = b}

Mean(set, q) == SumFunction([i \in set |-> q[i].cpu]) \div Cardinality(set)

\* Few samples are handed out as they are.  Of many, each bucket gives its mean
\* and an empty one the mean before it, once there is one.
Downsampled(q, t) ==
    IF Len(q) <= BucketCount THEN [i \in 1..Len(q) |-> q[i].cpu] ELSE
    LET result[b \in 0..BucketCount] ==
            IF b = 0 THEN <<>> ELSE
            LET before == result[b - 1]
            IN  IF InSlot(b, q, t) # {} THEN Append(before, Mean(InSlot(b, q, t), q))
                ELSE IF before # <<>> THEN Append(before, Last(before))
                ELSE before
    IN  result[BucketCount]

\* What the list of pods, or an event of the pod, brings to the table.
Sparkline == Downsampled(samples, now)

ClockTicks ==
    /\ now < MaxNow /\ now' = now + 1
    /\ UNCHANGED <<reading, samples, cutoff, taken, overtaken>>

HistoryNext ==
    \/ ClockTicks \/ Dropped
    \/ \E p \in Pollers : PollEnqueues(p) \/ \E cpu \in Percents : PollReads(p, cpu)

HistorySpec == HistoryInit /\ [][HistoryNext]_historyVars

-----------------------------------------------------------------------------
(* cpuSparkline: a box of 60 by 20 with a border of 1.                     *)

\* The floor is 0, the top the highest value.
PointAt(series, i) ==
    LET top == Max({series[k] : k \in 1..Len(series)} \cup {1})
    IN  [x |-> Border + ((i - 1) * (Width - 2 * Border)) \div (Len(series) - 1),
         y |-> Border + ((Height - 2 * Border) * (top - series[i])) \div top]

\* One value is no line.
CpuSparkline(series) ==
    IF Len(series) < 2 THEN <<>> ELSE [i \in 1..Len(series) |-> PointAt(series, i)]

-----------------------------------------------------------------------------
Sample == [at : 0..MaxNow, cpu : Percents]

HistoryTypeOK ==
    /\ now \in 0..MaxNow
    /\ reading \in [Pollers -> Sample \cup {NoReading}]
    /\ samples \in Seq(Sample) /\ taken \in Seq(Sample)
    /\ cutoff \in (-Window)..MaxNow /\ overtaken \in BOOLEAN
    /\ Sparkline \in Seq(0..100) /\ Len(Sparkline) <= BucketCount

\* The queue has every sample of the window that ends with the last poll, and no
\* other, in the order of their times, while no poll overtakes another.
QueueIsTheWindow ==
    ~overtaken =>
        /\ \E k \in 0..Len(taken) :
              /\ samples = SubSeq(taken, k + 1, Len(taken))
              /\ \A i \in 1..Len(taken) : taken[i].at >= cutoff <=> i > k
        /\ \A i, j \in 1..Len(samples) : i < j => samples[i].at <= samples[j].at

\* What is handed out now, in other words: the window that ends now is cut into
\* equal slots, the last of which has its end and the first all that is older;
\* from the first slot with a sample, each gives the mean of the last slot up to
\* it that has one.
SlotsAreTheirMeans ==
    Len(samples) > BucketCount =>
        LET span == Window \div BucketCount
            Starts(b) == now - Window + (b - 1) * span
            Has(b) == {i \in 1..Len(samples) :
                          /\ b > 1 => samples[i].at >= Starts(b)
                          /\ b < BucketCount => samples[i].at < Starts(b + 1)}
            filled == {b \in 1..BucketCount : Has(b) # {}}
            first == Min(filled)
            Source(b) == Max({c \in filled : c <= b})
        IN  Sparkline =
                [k \in 1..(BucketCount - first + 1) |->
                    Mean(Has(Source(first + k - 1)), samples)]

\* The sparkline runs from border to border, oldest to newest, and is higher
\* where the use is.
SparklineIsTheRow ==
    LET means == Sparkline
        line == CpuSparkline(means)
    IN  line # <<>> =>
        /\ line[1].x = Border /\ line[Len(line)].x = Width - Border
        /\ \A i, j \in 1..Len(line) :
              /\ line[i].y \in Border..(Height - Border)
              /\ i < j => line[i].x < line[j].x
              /\ means[i] > means[j] => line[i].y < line[j].y

\* What the history promises from the poll to the drawn line.
HistoryPromise ==
    /\ QueueIsTheWindow
    /\ SlotsAreTheirMeans
    /\ SparklineIsTheRow
=============================================================================
