\* The warnings of five canvases and of all canvases two edits away.
SPECIFICATION Spec
CONSTANTS
    Starts <- MCStarts
    NodeTypes = {"service", "database", "cache", "firewall", "loadBalancer",
                 "objectStorage", "apiGateway", "cdn", "monitoring"}
    EdgeTypes = {"http", "async"}
    MaxEdits = 2
INVARIANTS
    CascadesAreChains
    RulesAgree
PROPERTIES
    UnconnectedNodeClearsNothing
    AsyncEdgeAddsNoCoupling
CHECK_DEADLOCK FALSE
