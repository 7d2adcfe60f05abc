\* Three requests at a time, four in all, of one workload each, failing anywhere.
SPECIFICATION Spec
CONSTANTS
    r1 = r1  r2 = r2  u1 = u1  u2 = u2  h1 = h1  h2 = h2  h3 = h3
    Rooms <- MCRooms
    Users <- MCUsers
    Handlers <- MCHandlers
    Existing = r1
    Owner = u1
    Emails = {"e1", "e2"}
    Workloads <- AllWorkloads
    MaxRequests = 4
SYMMETRY HandlersAlike
INVARIANTS
    TypeOK
    
    OneMembershipEach
    RevokedStaysRevoked
    DeletedStaysDeleted
    NothingLeftBehind
    RegisteredCanLogIn
CHECK_DEADLOCK FALSE
