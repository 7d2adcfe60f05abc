\* Two handlers overlap, commands fail, the process crashes, rooms expire.
SPECIFICATION Spec
CONSTANTS
    NodeIds = {"a", "b"}
    EdgeIds = {"ab"}
    EdgeTypes = {"sync"}
    Ends <- MCEnds
    Positions = {"left", "right"}
    Labels = {"l"}
    Sanitize <- MCSanitize
    Nil = Nil
    Rooms = {r1}
    Procs = {p1, p2}
    Ops <- EditLinked
    Drafts <- DraftA
    StartSnapshots <- SnapshotEmpty
    Starts <- AnyStart
    Budget <- BudgetConcurrent
INVARIANTS
    TypeOK
    Integrity
    DurableWasLive
    ColumnsWereLive
CHECK_DEADLOCK FALSE
SYMMETRY ProcSymmetry
