SPECIFICATION LifeSpec
CONSTANTS
    Conns = {c1, c2, c3}
    Watches = {}
    Loops = {"logscan"}
    MaxGen = 2
    MaxVersion = 1
    SettingsRequests = {}
    Scans = {s1}
    Polls = {q1}
    Phases = {"absent", "running", "pending"}
    p1 = p1
    Pods = {p1}
    Callers <- MCCallers
    Inputs <- MCTwoInputs
    NoList = NoList
    NoRow = NoRow
    Users = {v1, v2}
    Admin = Admin
INVARIANTS
    OneLiveGeneration
    KeysAgree
    SomebodyCanSignIn
PROPERTIES
    LeaseImplemented
    
    GonePodsAreDropped
CHECK_DEADLOCK FALSE
