SPECIFICATION MonitorSpec
CONSTANTS
    SettingsRequests = {c1}
    Scans = {s1}
    Polls = {q1}
    Phases = {"running"}
    p1 = p1
    Pods = {p1}
    Callers <- MCCallers
    Inputs <- MCOneInput
    NoList = NoList
    NoRow = NoRow
PROPERTIES
    ExcludedPodsAreDropped
CHECK_DEADLOCK FALSE
