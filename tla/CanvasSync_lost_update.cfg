\* Two operations overlap.
SPECIFICATION Spec
CONSTANTS
    NodeIds = {"a", "b"}
    EdgeIds = {"ab"}
    EdgeTypes = {"sync"}
    Ends <- MCEnds
    Positions = {"left", "right"}
    Labels = {"l"}
    Sanitize <- MCSanitize
    Nil = Nil
    Rooms = {r1}
    Procs = {p1, p2}
    Ops <- AddBoth
    Drafts <- NoContent
    StartSnapshots <- SnapshotEmpty
    Starts <- Warm
    Budget <- BudgetOps
PROPERTIES
    KeepsPromise
CHECK_DEADLOCK FALSE
