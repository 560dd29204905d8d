SPECIFICATION WatchSpec
CONSTANTS
    Conns = {c1}
    Watches = {"pods"}
    Loops = {}
    MaxGen = 1
    MaxVersion = 1
INVARIANT MetricsLoopSurvives
CHECK_DEADLOCK FALSE
