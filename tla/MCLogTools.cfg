SPECIFICATION LogToolsSpec
CONSTANTS
    r1 = r1
    r2 = r2
    r3 = r3
    r4 = r4
    r5 = r5
    Rows = {r1, r2, r3, r4, r5}
    HeightOf <- MCHeightOf
    RowHeight = 60
    FirstRows <- MCFirstRows
    Lists <- MCLists
    Heights = {120, 180}
    Places = {0, 60, 120, 180, 240}
    BufferAmount = 0
    MaxEvents = 2
    Err = Err
    Inf = Inf
    LevelOf <- MCLevelOf
    TriStates <- MCTriStates
    PageSize = 2
    MemoryLimits = {3}
    InitialLogs = 2
    MaxBatch = 2
    MaxTurns = 2
    Searches = {"", "a"}
    Moments = {1, 2}
    Shortcuts = {"errors"}
    MaxPresets = 1
    Filters = {1, 2}
    Answers <- MCAnswers
    ContainerWidth = 8
    PlotLeft = 1
    PlotRight = 7
    MinSelectionWidth = 2
    MaxDrags = 2
    Preferences = {"view", "type"}
    MaxLogs = {0, 100, 200, 300}
    MinLogs = 100
    TopLogs = 200
    LogCounts = {0, 181}
    Ages <- MCAges
    Offsets = {0, 60}
    ToolLines = {"a", "b"}
    Windows <- MCWindows
    Points <- MCPoints
    MenuWidth = 2
    MenuHeight = 3
    Gap = 1
    ErrorCounts = {0, 1}
    MaxTimers = 2
INVARIANTS
    LogToolsTypeOK
    
    
    
    StatsPromise
    
    ToolsPromise
CHECK_DEADLOCK FALSE
