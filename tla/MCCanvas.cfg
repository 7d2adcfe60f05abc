\* The algebra of canvas operations over every reachable canvas.
SPECIFICATION Spec
CONSTANTS
    NodeIds = {"a", "b"}
    EdgeIds = {"ab", "bb"}
    Ends <- MCEnds
    EdgeTypes = {"sync", "async"}
    Positions = {"left", "right"}
    Labels = {"plain", "raw", "escaped"}
    Sanitize <- MCSanitize
INVARIANTS
    CanvasWellFormed
    RedeliveryHarmless
    OthersCommute
