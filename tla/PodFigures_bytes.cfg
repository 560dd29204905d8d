SPECIFICATION FiguresSpec
CONSTANTS
    Parts = {c1, c2}
    Readings <- MCReadings
    NodeCores = 2
    NodeMemory <- MCNodeMemory
    AgesSeen = {60, 1440}
    MaxPodChanges = 1
INVARIANT MemoryInBytes
CHECK_DEADLOCK FALSE
