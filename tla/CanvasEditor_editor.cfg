\* Two own actions that open or change something, two of others.
SPECIFICATION Spec
CONSTANTS
    n1 = n1  n2 = n2  n3 = n3  e1 = e1  e2 = e2  p = p  q = q  x = x  y = y  markup = markup
    http = http  async = async
    Nil = Nil  Pending = Pending  Blank = Blank
    NodeIds <- MCNodeIds
    EdgeIds <- MCEdgeIds
    Ends <- MCEnds
    EdgeTypes = {http, async}
    Positions <- MCPositions
    Labels <- MCLabels
    Sanitize <- MCSanitize
    Start <- MCStart
    RemoteEdits <- MCRemoteEdits
    Restorable <- MCRestorable
    MaxOwn = 2
    MaxRemote = 2
INVARIANTS
    TypeOK
    
    
    OnlyTypedLabelsAreSent
PROPERTY
    PopupSparesTypedEdges
CHECK_DEADLOCK FALSE
