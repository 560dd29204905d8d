SPECIFICATION PagesSpec
CONSTANTS
    p1 = p1
    p2 = p2
    k1 = k1
    n1 = n1
    n2 = n2
    u1 = u1
    u2 = u2
    d1 = d1
    d2 = d2
    Pods = {p1, p2}
    NoPod = NoPod
    Containers = {k1}
    Old <- MCOld
    MaxNew = 1
    MaxRequests = 2
    MaxCalls = 2
    InitialTail = 1
    LoadMoreChunk = 1
    MaxTail = 2
    MaxLines = 1
    FollowTail = 2
    Tokens = {t1, t2}
    NoToken = NoToken
    MaxConns = 4
    MaxDash = 4
    Nodes = {n1, n2}
    NodesAt <- MCNodesAt
    MaxGets = 2
    MaxSignIns = 2
    MaxPasswordChanges = 1
    Uids = {u1, u2}
    NsOf <- MCNsOf
    Found = {u1}
    MaxChanges = 2
    MaxTouches = 1
    Parts = {c1, c2}
    Readings <- MCReadings
    NodeCores = 2
    NodeMemory <- MCNodeMemory
    AgesSeen = {60, 1440}
    MaxPodChanges = 1
    PodKeys = {k1}
    ScanIntervals = {1, 2}
    MinScan = 2
    MaxSaves = 2
INVARIANTS
    PagesTypeOK
    LogsPagePromise
    HubPromise
    DashboardPromise
    WidgetsPromise
    LoginPromise
    PodsPromise
    FiguresPromise
    SettingsPromise
PROPERTIES
    LoginSteps
CHECK_DEADLOCK FALSE
