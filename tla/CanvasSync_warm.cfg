\* Three handlers overlap in a room that stays warm.
SPECIFICATION Spec
CONSTANTS
    NodeIds = {"a", "b"}
    EdgeIds = {"ab"}
    EdgeTypes = {"sync"}
    Ends <- MCEnds
    Positions = {"left", "right"}
    Labels = {"l"}
    Sanitize <- MCSanitize
    Nil = Nil
    Rooms = {r1}
    Procs = {p1, p2, p3}
    Ops <- EditLinked
    Drafts <- NoContent
    StartSnapshots <- SnapshotEmpty
    Starts <- WarmLinked
    Budget <- BudgetWarm
PROPERTIES
    RevisionNeverGoesBack
    
CHECK_DEADLOCK FALSE
SYMMETRY ProcSymmetry
