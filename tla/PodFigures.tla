----------------------------- MODULE PodFigures ------------------------------
(***************************************************************************)
(* The figures of one pod on their way from the metrics API to the screen: *)
(* quantities such as 231m and 2048Ki are parsed and added up by the pod   *)
(* monitor and by the endpoint that lists the pods, ride on the pod object *)
(* to WPodsComponent, and are shown in its row.                            *)
(* The watch sends the same pod object, as the API server has it.          *)
(*                                                                         *)
(* CPU is counted in nanocores, a percentage in tenths.                    *)
(***************************************************************************)
EXTENDS Integers, FiniteSets, FiniteSetsExt, Functions

CONSTANTS
    Parts,              \* containers of the pod
    Readings,           \* what the metrics API may say of a container
    NodeCores,          \* capacity of the node, an Int
    NodeMemory,         \* and a quantity
    AgesSeen,           \* ages of the pod, in minutes, at which it is looked at
    MaxPodChanges       \* bound on the changes of usage and of the pod

\* What Kubernetes means by a unit of memory, in bytes.
BytesOf == [Ki |-> 1024, Mi |-> 1024 * 1024, Gi |-> 1024 * 1024 * 1024,
            k |-> 1000, M |-> 1000000, G |-> 1000000000]

NoUnit == "none"    \* a quantity without a unit

\* A node reports its memory with a unit.
ASSUME FiguresAssumption ==
    /\ IsFiniteSet(Parts)
    /\ NodeCores \in Nat \ {0}
    /\ NodeMemory.n \in Nat \ {0} /\ NodeMemory.unit \in DOMAIN BytesOf
    /\ \A m \in Readings :
          /\ m.cpu.n \in Nat /\ m.cpu.unit \in {NoUnit, "n", "u", "m"}
          /\ m.memory.n \in Nat /\ m.memory.unit \in {NoUnit} \cup DOMAIN BytesOf
    /\ AgesSeen \subseteq Nat /\ MaxPodChanges \in Nat

None == [none |-> TRUE]     \* no metrics, no counts, no pod
Null == -1                  \* no share: null
FigurePhases == {"Pending", "Running"}
Counts == {[error |-> 1, warning |-> 0], [error |-> 0, warning |-> 1]}

VARIABLES
    usage,          \* usage[c]: the quantities of a container
    scheduled,      \* the pod names its node
    phase,          \* of the pod
    age,            \* minutes since the pod was created
    cached,         \* CurrentMetrics of the monitor for the pod
    cachedCounts,   \* CurrentCounts
    fetching,       \* the GET of the pods: "no", "sent" or "read"
    fetched,        \* the pod that it has read
    row,            \* the pod in the table
    podChanges

figuresVars == <<usage, scheduled, phase, age, cached, cachedCounts, fetching, fetched,
                 row, podChanges>>
serverSide == <<cached, cachedCounts>>
browserSide == <<fetching, fetched, row>>

FiguresInit ==
    /\ usage \in [Parts -> Readings]
    /\ scheduled \in BOOLEAN
    /\ phase = "Pending"
    /\ age = 0 /\ podChanges = 0
    /\ cached = None /\ cachedCounts = None
    /\ fetching = "sent" /\ fetched = None /\ row = None

-----------------------------------------------------------------------------
(* KubernetesService.ParseCpu and ParseMemory                              *)

Nano == 1000000000

\* A quantity of CPU.  Others are refused, and whoever adds up skips them.
ParseCpu(q) ==
    LET factor == [n |-> 1, u |-> 1000, m |-> 1000000] IN
    IF q.unit = NoUnit THEN q.n * Nano
    ELSE IF q.unit \in DOMAIN factor THEN q.n * factor[q.unit] ELSE 0

\* A quantity of memory, with the factors of the code.  A unit it does not know
\* counts as 1; a single digit without a unit is refused.
ParseMemory(q) ==
    LET factor == [Ki |-> 1000, K |-> 1024, Mi |-> 1000000, M |-> 1024 * 1024,
                   Gi |-> 1000000000, G |-> 1024 * 1024 * 1024]
    IN  IF q.unit = NoUnit THEN (IF q.n < 10 THEN 0 ELSE q.n)
        ELSE IF q.unit \in DOMAIN factor THEN q.n * factor[q.unit] ELSE q.n

\* Math.Round(n / d, 0) of a quotient of numbers: half goes to the even neighbour.
RoundEven(n, d) ==
    LET q == n \div d
        r == n - q * d
    IN  IF 2 * r > d \/ (2 * r = d /\ q % 2 = 1) THEN q + 1 ELSE q

CpuOf(u) == SumFunction([c \in Parts |-> ParseCpu(u[c].cpu)])
MemoryOf(u) == SumFunction([c \in Parts |-> ParseMemory(u[c].memory)])

\* PodMonitorService.PollMetricsOnce: the shares only if the node is known.
PollFigures(u) ==
    [cpu |-> CpuOf(u), memory |-> MemoryOf(u), usage |-> u,
     cpuPercent |-> IF scheduled THEN RoundEven(CpuOf(u), NodeCores * (Nano \div 1000))
                    ELSE Null,
     memoryPercent |-> IF scheduled
                         THEN RoundEven(1000 * MemoryOf(u), ParseMemory(NodeMemory))
                         ELSE Null]

\* Variant: the share is of one core.
FreshFigures_OneCore(u) ==
    [PollFigures(u) EXCEPT
        !.cpuPercent = IF scheduled THEN RoundEven(CpuOf(u), Nano \div 1000) ELSE Null]

\* The endpoint's own computation: millicores over 1000 over the cores.
FreshFigures(u) ==
    [cpu |-> CpuOf(u), memory |-> MemoryOf(u), usage |-> u,
     cpuPercent |-> IF ~scheduled THEN Null
                    ELSE RoundEven(CpuOf(u), NodeCores * (Nano \div 1000)),
     memoryPercent |-> IF ~scheduled THEN Null
                       ELSE RoundEven(1000 * MemoryOf(u), ParseMemory(NodeMemory))]

-----------------------------------------------------------------------------
(* The cluster and the server.                                             *)

UsageChanges(c, measure) ==
    /\ podChanges < MaxPodChanges /\ podChanges' = podChanges + 1
    /\ usage' = [usage EXCEPT ![c] = measure]
    /\ UNCHANGED <<scheduled, phase, age, serverSide, browserSide>>

Ages(minutes) ==
    /\ age < minutes /\ age' = minutes
    /\ UNCHANGED <<usage, scheduled, phase, serverSide, browserSide, podChanges>>

Poll ==
    /\ cached' = PollFigures(usage)
    /\ UNCHANGED <<usage, scheduled, phase, age, cachedCounts, browserSide, podChanges>>

Scan(counts) ==
    /\ cachedCounts' = counts
    /\ UNCHANGED <<usage, scheduled, phase, age, cached, browserSide, podChanges>>

\* The endpoint prefers what the monitor has, and takes the metrics API's answer
\* otherwise; when that fails, the pods go out as they are.
ListRead(answers) ==
    /\ fetching = "sent" /\ fetching' = "read"
    /\ fetched' =
        IF ~answers THEN [phase |-> phase, metrics |-> None, counts |-> None]
        ELSE [phase |-> phase,
              metrics |-> IF cached # None THEN cached ELSE FreshFigures(usage),
              counts |-> cachedCounts]
    /\ UNCHANGED <<usage, scheduled, phase, age, serverSide, row, podChanges>>

\* The pod changes, or the watch begins and tells of every pod: the event has the
\* pod as the API server has it.
PodEvent(new) ==
    /\ phase' = new
    /\ row' = [phase |-> new, metrics |-> None, counts |-> None]
    /\ UNCHANGED <<usage, scheduled, age, serverSide, fetching, fetched, podChanges>>

-----------------------------------------------------------------------------
(* WPodsComponent.                                                         *)

FiguresListed ==
    /\ fetching = "read" /\ fetching' = "no"
    /\ row' = fetched /\ fetched' = None
    /\ UNCHANGED <<usage, scheduled, phase, age, serverSide, podChanges>>

\* The dashboard is left and opened again.  The list is fetched at no other time.
Reenter ==
    /\ row' = None /\ fetching' = "sent" /\ fetched' = None
    /\ UNCHANGED <<usage, scheduled, phase, age, serverSide, podChanges>>

FiguresNext ==
    \/ \E c \in Parts, m \in Readings : UsageChanges(c, m)
    \/ \E minutes \in AgesSeen : Ages(minutes)
    \/ Poll
    \/ \E counts \in Counts : Scan(counts)
    \/ \E answers \in BOOLEAN : ListRead(answers)
    \/ \E new \in FigurePhases : PodEvent(new)
    \/ FiguresListed \/ Reenter

FiguresSpec == FiguresInit /\ [][FiguresNext]_figuresVars

-----------------------------------------------------------------------------
(* The cells.                                                              *)

Units == <<"B", "Ki", "Mi", "Gi", "Ti">>

\* 1024 to the power of i: the size of the unit i divisions up.
SizeOf(i) ==
    CASE i = 0 -> 1
      [] i = 1 -> 1024
      [] i = 2 -> 1024 * 1024
      [] i = 3 -> 1024 * 1024 * 1024
      [] i = 4 -> 1024 * 1024 * 1024 * 1024

\* toFixed(1), in tenths: half goes up.
Fixed(n, d) == (10 * n + d \div 2) \div d

\* Divided by 1024 while it is at least that and there is a greater unit.
FormatMemory(bytes) ==
    LET i == Max({0} \cup {k \in 1..4 : bytes \div SizeOf(k - 1) >= 1024})
    IN  [tenths |-> Fixed(bytes, SizeOf(i)), unit |-> Units[i + 1]]

\* Days, hours or minutes.
GetAge(minutes) ==
    LET hours == minutes \div 60
        days == hours \div 24
    IN  IF days > 0 THEN [n |-> days, unit |-> "d"]
        ELSE IF hours > 0 THEN [n |-> hours, unit |-> "h"]
        ELSE [n |-> minutes, unit |-> "m"]

CpuCell(pod) ==
    IF pod.metrics = None \/ pod.metrics.cpuPercent = Null THEN None
    ELSE [percent |-> pod.metrics.cpuPercent]

MemoryCell(pod) ==
    IF pod.metrics = None THEN None
    ELSE [size |-> FormatMemory(pod.metrics.memory), percent |-> pod.metrics.memoryPercent]

\* A pill for errors and one for warnings, if there are any.
CountsCell(pod) ==
    IF pod.counts = None THEN {}
    ELSE {level \in {"error", "warning"} : pod.counts[level] > 0}

-----------------------------------------------------------------------------
Figures == [cpu : Nat, memory : Nat, cpuPercent : Nat \cup {Null},
            memoryPercent : Nat \cup {Null},
            usage : [Parts -> Readings]]
PodObjects == [phase : FigurePhases, metrics : Figures \cup {None},
               counts : Counts \cup {None}]

FiguresTypeOK ==
    /\ usage \in [Parts -> Readings]
    /\ scheduled \in BOOLEAN /\ phase \in FigurePhases
    /\ age \in AgesSeen \cup {0} /\ podChanges \in 0..MaxPodChanges
    /\ cached \in Figures \cup {None}
    /\ cachedCounts \in Counts \cup {None}
    /\ fetching \in {"no", "sent", "read"} /\ fetched \in PodObjects \cup {None}
    /\ row \in PodObjects \cup {None}

\* The nanocores and bytes that Kubernetes means by a quantity.
TrueCpu(u) ==
    LET meaning == [n |-> 1, u |-> 1000, m |-> 1000000]
        Meant(q) == q.n * (IF q.unit = NoUnit THEN Nano ELSE meaning[q.unit])
    IN  SumFunction([c \in Parts |-> Meant(u[c].cpu)])

Bytes(q) == q.n * (IF q.unit = NoUnit THEN 1 ELSE BytesOf[q.unit])
TrueMemory(u) == SumFunction([c \in Parts |-> Bytes(u[c].memory)])

\* n tenths of a percent are the share a / b, rounded.
IsShare(n, a, b) == LET r == a - n * b IN 2 * r <= b /\ -b <= 2 * r

\* A row comes with the figures of the monitor or with those that the endpoint
\* makes itself: whichever it is, they are those of the monitor for that answer of
\* the metrics API.
PathsAgree ==
    row # None => \/ row.metrics = None
                  \/ row.metrics = PollFigures(row.metrics.usage)

\* The share of the node's CPU that a row shows is the one that its containers
\* had when they were measured, whatever the units of the metrics API.
CpuIsRight ==
    row # None => LET cell == CpuCell(row) IN
        cell # None =>
            IsShare(cell.percent, TrueCpu(row.metrics.usage), NodeCores * (Nano \div 1000))

\* The share of its memory is right as long as all quantities have one unit.
MemoryShareIsRight ==
    row # None => LET cell == MemoryCell(row) IN
        (/\ cell # None /\ cell.percent # Null
         /\ \A c \in Parts : row.metrics.usage[c].memory.unit = NodeMemory.unit)
        => IsShare(cell.percent, 1000 * TrueMemory(row.metrics.usage), Bytes(NodeMemory))

\* Read back, a cell is within half its last digit of what it stands for, in the
\* largest unit of which there is one.
CellsReadBack ==
    /\ row # None /\ row.metrics # None =>
        LET size == MemoryCell(row).size
            i == CHOOSE k \in 0..4 : Units[k + 1] = size.unit
            off == row.metrics.memory * 10 - size.tenths * SizeOf(i)
        IN  /\ 2 * off <= SizeOf(i) /\ -SizeOf(i) <= 2 * off
            /\ i > 0 => row.metrics.memory >= SizeOf(i)
            /\ i < 4 => row.metrics.memory \div SizeOf(i) < 1024
    /\ LET cell == GetAge(age)
           length == IF cell.unit = "d" THEN 1440 ELSE IF cell.unit = "h" THEN 60 ELSE 1
       IN  /\ cell.n * length <= age /\ age < (cell.n + 1) * length
           /\ cell.n > 0 \/ age = 0

\* "Memory usage in bytes": the memory of a row is what its containers used when they
\* were measured.
MemoryInBytes ==
    row # None /\ row.metrics # None => row.metrics.memory = TrueMemory(row.metrics.usage)

\* What a row promises: figures that are those of the metrics API on either path,
\* in whatever units they come.
FiguresPromise ==
    /\ PathsAgree
    /\ CpuIsRight
    /\ MemoryShareIsRight
    /\ CellsReadBack
=============================================================================
