\* Two users edit and restore, one of them joining at any moment; the server
\* handles one request after another.
SPECIFICATION Spec
CONSTANTS
    NodeIds = {"a", "b", "c"}
    EdgeIds = {"ab"}
    EdgeTypes = {"sync", "async"}
    Ends <- MCEnds
    Positions = {"left", "right"}
    Labels = {"plain", "raw", "escaped"}
    Sanitize <- MCSanitize
    Nil = Nil
    Clients = {c1, c2}
    LateJoiners = {c2}
    Edits <- AllKinds
    Restorable <- RestoreA
    Start <- StartLinked
    Overlap = FALSE
    MaxEdits = 3
    MaxRestores = 1
INVARIANTS
    TypeOK
    
    ReplicasWellFormed

    
CHECK_DEADLOCK FALSE
