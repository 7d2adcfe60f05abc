------------------------------- MODULE Canvas -------------------------------
(***************************************************************************)
(* The canvas of a room and the operations users apply to it:              *)
(* server/src/canvas/ot.ts.  A canvas is a set of nodes, a set of edges    *)
(* and a revision.  The arrays of the code are sets here: their order only *)
(* decides how items are drawn, and the ids that tell items apart are      *)
(* unique (WellFormed below says so, and it is checked and proved).        *)
(*                                                                         *)
(* Every operator is total and pure, as the function it stands for.        *)
(***************************************************************************)
EXTENDS Naturals

CONSTANTS
    NodeIds,    \* ids of nodes; the client draws them from type and clock
    EdgeIds,    \* ids of edges
    Ends,       \* [EdgeIds -> NodeIds \X NodeIds]: React Flow builds the id of
                \* an edge from its two ends, so the id determines them
    EdgeTypes,  \* what an edge stands for: a synchronous call, a stream...
    Positions,  \* places a node can be moved to
    Labels,     \* texts a node can carry
    Sanitize    \* [Labels -> Labels]: sanitizeText, which strips markup and
                \* escapes the characters & < >

ASSUME EndsAssumption == Ends \in [EdgeIds -> NodeIds \X NodeIds]

\* Escaping decodes entities before it encodes them: a second pass is a no-op.
ASSUME SanitizeAssumption ==
    /\ Sanitize \in [Labels -> Labels]
    /\ \A l \in Labels : Sanitize[Sanitize[l]] = Sanitize[l]

-----------------------------------------------------------------------------
(* Data.                                                                   *)

Node == [id : NodeIds, position : Positions, label : Labels]

EdgeOf(i, t) ==
    [id |-> i, source |-> Ends[i][1], target |-> Ends[i][2], edgeType |-> t]
Edge == {EdgeOf(i, t) : i \in EdgeIds, t \in EdgeTypes}

Content == [nodes : SUBSET Node, edges : SUBSET Edge]
CanvasStateData == [nodes : SUBSET Node, edges : SUBSET Edge, revision : Nat]

EmptyCanvas == [nodes |-> {}, edges |-> {}, revision |-> 0]

\* What a snapshot keeps of a canvas, and a canvas made of such a content.
ContentWithRevision(s) == s
ContentOf(s) == [nodes |-> s.nodes, edges |-> s.edges]
AtRevision(c, rev) == [nodes |-> c.nodes, edges |-> c.edges, revision |-> rev]

Operation ==
         [type : {"addNode"}, node : Node]
    \cup [type : {"deleteNode"}, nodeId : NodeIds]
    \cup [type : {"moveNode"}, nodeId : NodeIds, position : Positions]
    \cup [type : {"updateNode"}, nodeId : NodeIds, label : Labels]
    \cup [type : {"addEdge"}, edge : Edge]
    \cup [type : {"deleteEdge"}, edgeId : EdgeIds]

-----------------------------------------------------------------------------
(* The six cases of applyOperation.  A variant defined just before a case  *)
(* is a slip it could have been written with; the mutants put it there.    *)

HasNode(s, id) == \E n \in s.nodes : n.id = id
HasEdge(s, id) == \E e \in s.edges : e.id = id

AddNode(s, node) ==
    IF HasNode(s, node.id) THEN s ELSE [s EXCEPT !.nodes = @ \cup {node}]

DeleteNodeOnly(s, id) == [s EXCEPT !.nodes = {n \in @ : n.id # id}]

DeleteNode(s, id) ==
    IF ~HasNode(s, id) THEN s
    ELSE [s EXCEPT !.nodes = {n \in @ : n.id # id},
                   !.edges = {e \in @ : e.source # id /\ e.target # id}]

MoveNode(s, id, pos) ==
    [s EXCEPT !.nodes =
        {IF n.id = id THEN [n EXCEPT !.position = pos] ELSE n : n \in @}]

UpdateNode(s, id, label) ==
    [s EXCEPT !.nodes =
        {IF n.id = id THEN [n EXCEPT !.label = Sanitize[label]] ELSE n : n \in @}]

AddEdgeSourceOnly(s, edge) ==
    IF ~HasNode(s, edge.source) \/ HasEdge(s, edge.id) THEN s
    ELSE [s EXCEPT !.edges = @ \cup {edge}]

AddEdge(s, edge) ==
    IF \/ ~HasNode(s, edge.source)
       \/ ~HasNode(s, edge.target)
       \/ HasEdge(s, edge.id)
    THEN s
    ELSE [s EXCEPT !.edges = @ \cup {edge}]

\* findIndex answers -1 and splice(-1, 1) takes the last element.
DeleteEdgeUnguarded(s, id) ==
    IF HasEdge(s, id) THEN [s EXCEPT !.edges = {e \in @ : e.id # id}]
    ELSE [s EXCEPT !.edges = {e \in @ : e # CHOOSE f \in s.edges : TRUE}]

DeleteEdge(s, id) == [s EXCEPT !.edges = {e \in @ : e.id # id}]

ApplyOperation(s, op) ==
    CASE op.type = "addNode"    -> AddNode(s, op.node)
      [] op.type = "deleteNode" -> DeleteNode(s, op.nodeId)
      [] op.type = "moveNode"   -> MoveNode(s, op.nodeId, op.position)
      [] op.type = "updateNode" -> UpdateNode(s, op.nodeId, op.label)
      [] op.type = "addEdge"    -> AddEdge(s, op.edge)
      [] op.type = "deleteEdge" -> DeleteEdge(s, op.edgeId)

-----------------------------------------------------------------------------
(* What a canvas must be, and which operations may be reordered.           *)

UniqueNodeIds(s) == \A m, n \in s.nodes : m.id = n.id => m = n
UniqueEdgeIds(s) == \A e, f \in s.edges : e.id = f.id => e = f
NoDanglingEdges(s) ==
    \A e \in s.edges : HasNode(s, e.source) /\ HasNode(s, e.target)

WellFormed(s) == UniqueNodeIds(s) /\ UniqueEdgeIds(s) /\ NoDanglingEdges(s)

\* The nodes an operation names.
NodesNamed(op) ==
    CASE op.type = "addNode" -> {op.node.id}
      [] op.type = "addEdge" -> {op.edge.source, op.edge.target}
      [] op.type = "deleteEdge" -> {}
      [] OTHER -> {op.nodeId}

\* a creates or overwrites what b also names: the later of the two decides.
Overrides(a, b) ==
    \/ a.type = "addNode" /\ a.node.id \in NodesNamed(b)
    \/ /\ a.type \in {"moveNode", "updateNode"}
       /\ b.type = a.type
       /\ a.nodeId = b.nodeId
    \/ a.type = "addEdge" /\ b.type = "addEdge" /\ a.edge.id = b.edge.id
    \/ a.type = "addEdge" /\ b.type = "deleteEdge" /\ a.edge.id = b.edgeId

OrderMatters(a, b) == Overrides(a, b) \/ Overrides(b, a)

\* Two edits, neither made in sight of the other, of which a replica keeps the
\* one it hears of last, or keeps an edge to a node that is gone.
DeletesEndOf(a, b) ==
    a.type = "deleteNode" /\ b.type = "addEdge" /\ a.nodeId \in NodesNamed(b)
Clashing(a, b) == OrderMatters(a, b) \/ DeletesEndOf(a, b) \/ DeletesEndOf(b, a)
=============================================================================
