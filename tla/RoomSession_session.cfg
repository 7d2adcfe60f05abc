\* Three tabs of two users, at most two connections each, one workload at a time.
SPECIFICATION Spec
CONSTANTS
    a = a  b = b  c = c  u1 = u1  u2 = u2
    Tabs <- MCTabs
    Users <- MCUsers
    UserOf <- MCUserOf
    MaxConnections = 2
    Workloads <- AllWorkloads
INVARIANTS
    TypeOK
    EveryoneListsEveryone
    CursorsBelongToUsers
    WarningsAreCurrent
    
    ListsAreCurrent
    NobodyIsStranded
CHECK_DEADLOCK FALSE
