SPECIFICATION ServerSpec
CONSTANTS
    Conns = {c1, c2}
    Watches = {"pods"}
    Loops = {}
    MaxGen = 2
    MaxVersion = 2
    SettingsRequests = {r1}
    Scans = {s1}
    Polls = {q1}
    Phases = {"absent", "running"}
    p1 = p1
    Pods = {p1}
    Callers <- MCCallers
    Inputs <- MCInputs
    NoList = NoList
    NoRow = NoRow
    Users = {u1}
    NoUser = NoUser
    Requests = {a1, a2}
    MaxTokens = 3
    MaxLogouts = 1
    Window = 4
    BucketCount = 2
    Percents = {0, 60}
    Pollers = {1, 2}
    MaxNow = 5
    MaxSamples = 3
INVARIANTS
    MonitorTypeOK
    CopyAgreesWithRow
    HiddenPodsAreDropped
    ExchangedOnce
    
    
PROPERTY RegressionNeedsOldGeneration
CHECK_DEADLOCK FALSE
