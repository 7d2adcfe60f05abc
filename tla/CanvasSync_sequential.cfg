\* One handler at a time: the server keeps the promise of LiveCanvas.
SPECIFICATION FairSpec
CONSTANTS
    NodeIds = {"a", "b"}
    EdgeIds = {"ab"}
    EdgeTypes = {"sync"}
    Ends <- MCEnds
    Positions = {"left", "right"}
    Labels = {"l"}
    Sanitize <- MCSanitize
    Nil = Nil
    Rooms = {r1, r2}
    Procs = {p1}
    Ops <- EditLinked
    Drafts <- NoContent
    StartSnapshots <- SnapshotA
    Starts <- AnyCold
    Budget <- BudgetSequential
INVARIANTS
    UnsavedIsTracked
PROPERTIES
    KeepsPromise
    EventuallySaved
CHECK_DEADLOCK FALSE
