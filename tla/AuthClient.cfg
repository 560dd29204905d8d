SPECIFICATION ASpec
CONSTANTS
    Users = {u1}
    NoUser = NoUser
    t1 = t1
    t2 = t2
    q1 = q1
    q2 = q2
    q3 = q3
    LoginForm = LoginForm
    Tabs <- MCTabs
    Calls <- MCCalls
    TabOf <- MCTabOf
    Requests <- MCRequests
    MaxTokens = 2
    MaxLogouts = 1
INVARIANTS
    ATypeOK
    SingleFlight
PROPERTIES
    
    WaitersAreResent
CHECK_DEADLOCK FALSE
