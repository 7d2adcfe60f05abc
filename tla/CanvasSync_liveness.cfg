\* Overlapping handlers, failures and a crash: the marks of two rooms are served.
SPECIFICATION FairSpec
CONSTANTS
    NodeIds = {"a", "b"}
    EdgeIds = {"ab"}
    EdgeTypes = {"sync"}
    Ends <- MCEnds
    Positions = {"left", "right"}
    Labels = {"l"}
    Sanitize <- MCSanitize
    Nil = Nil
    Rooms = {r1, r2}
    Procs = {p1, p2}
    Ops <- MoveA
    Drafts <- NoContent
    StartSnapshots <- SnapshotEmpty
    Starts <- WarmA
    Budget <- BudgetLiveness
PROPERTIES
    DirtyIsFlushed
CHECK_DEADLOCK FALSE
