\* A rename that loaded the row before the link was regenerated saves the old link back.
SPECIFICATION Spec
CONSTANTS
    r1 = r1  r2 = r2  u1 = u1  u2 = u2  h1 = h1  h2 = h2  h3 = h3
    Rooms <- MCRooms
    Users <- MCUsers
    Handlers <- MCHandlers
    Existing = r1
    Owner = u1
    Emails = {"e1", "e2"}
    Workloads <- JustLinks
    MaxRequests = 2
INVARIANTS
    RevokedLinksAreDead
CHECK_DEADLOCK FALSE
