--------------------------- MODULE MCCanvasEditor ---------------------------
(***************************************************************************)
(* An instance of CanvasEditor: two nodes with an edge between them, room  *)
(* for one more of each, and one thing of each kind that others may do.    *)
(***************************************************************************)
EXTENDS CanvasEditor

CONSTANTS n1, n2, n3, e1, e2, p, q, x, y, markup, http, async

MCNodeIds == {n1, n2, n3}
MCEdgeIds == {e1, e2}
MCEnds == [e \in MCEdgeIds |-> <<n1, n2>>]
MCPositions == {p, q}
MCLabels == {x, y, markup}
MCSanitize == [l \in MCLabels |-> IF l = markup THEN y ELSE l]

Placed(i) == [id |-> i, position |-> p, label |-> x]
MCStart == [nodes |-> {Placed(n1), Placed(n2)}, edges |-> {EdgeOf(e1, http)}]
MCRestorable == {[nodes |-> {Placed(n1), Placed(n2)}, edges |-> {EdgeOf(e2, http)}]}

MCRemoteEdits ==
    {[type |-> "addNode", node |-> Placed(n3)],
     [type |-> "deleteNode", nodeId |-> n2],
     [type |-> "moveNode", nodeId |-> n1, position |-> q],
     [type |-> "updateNode", nodeId |-> n1, label |-> markup],
     [type |-> "addEdge", edge |-> EdgeOf(e2, http)],
     [type |-> "deleteEdge", edgeId |-> e1]}
=============================================================================
