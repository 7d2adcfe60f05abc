---------------------------- MODULE CanvasProofs ----------------------------
(***************************************************************************)
(* What applyOperation does to every canvas, for every set of ids, ends,   *)
(* positions and labels.                                                   *)
(***************************************************************************)
EXTENDS Canvas, WellFoundedInduction, TLAPS

\* applyOperation answers a canvas, at the revision it was given (ot.ts:87).
LEMMA ApplyOperationType ==
    ASSUME NEW s \in CanvasStateData, NEW op \in Operation
    PROVE  /\ ApplyOperation(s, op) \in CanvasStateData
           /\ ApplyOperation(s, op).revision = s.revision
PROOF
<1>1. CASE op \in [type : {"addNode"}, node : Node]
  BY <1>1 DEF ApplyOperation, AddNode, CanvasStateData
<1>2. CASE op \in [type : {"deleteNode"}, nodeId : NodeIds]
  BY <1>2 DEF ApplyOperation, DeleteNode, CanvasStateData
<1>3. CASE op \in [type : {"moveNode"}, nodeId : NodeIds, position : Positions]
  <2>1. \A n \in Node : [n EXCEPT !.position = op.position] \in Node
    BY <1>3 DEF Node
  <2> QED BY <1>3, <2>1 DEF ApplyOperation, MoveNode, CanvasStateData
<1>4. CASE op \in [type : {"updateNode"}, nodeId : NodeIds, label : Labels]
  <2>1. \A n \in Node : [n EXCEPT !.label = Sanitize[op.label]] \in Node
    BY <1>4, SanitizeAssumption DEF Node
  <2> QED BY <1>4, <2>1 DEF ApplyOperation, UpdateNode, CanvasStateData
<1>5. CASE op \in [type : {"addEdge"}, edge : Edge]
  BY <1>5 DEF ApplyOperation, AddEdge, CanvasStateData
<1>6. CASE op \in [type : {"deleteEdge"}, edgeId : EdgeIds]
  BY <1>6 DEF ApplyOperation, DeleteEdge, CanvasStateData
<1> QED BY <1>1, <1>2, <1>3, <1>4, <1>5, <1>6 DEF Operation

\* Changing nodes but not their ids, nor the edges, keeps a canvas well formed.
LEMMA SameIdsWellFormed ==
    ASSUME NEW s \in CanvasStateData, NEW t \in CanvasStateData, WellFormed(s),
           NEW f \in [Node -> Node],
           \A n \in Node : f[n].id = n.id,
           t.nodes = {f[n] : n \in s.nodes},
           t.edges = s.edges
    PROVE  WellFormed(t)
PROOF
<1>0. s.nodes \subseteq Node
  BY DEF CanvasStateData
<1>1. UniqueNodeIds(t)
  BY <1>0 DEF WellFormed, UniqueNodeIds
<1>2. \A id \in NodeIds : HasNode(s, id) => HasNode(t, id)
  BY <1>0 DEF HasNode
<1>3. \A e \in s.edges : HasNode(t, e.source) /\ HasNode(t, e.target)
  BY <1>0 DEF WellFormed, NoDanglingEdges, HasNode
<1> QED BY <1>1, <1>3 DEF WellFormed, UniqueEdgeIds, NoDanglingEdges

\* No operation makes a well-formed canvas ill-formed: ids stay unique, and a
\* node goes with its edges (ot.ts:29, 40, 66, 71).
LEMMA ApplyOperationWellFormed ==
    ASSUME NEW s \in CanvasStateData, NEW op \in Operation, WellFormed(s)
    PROVE  WellFormed(ApplyOperation(s, op))
PROOF
<1>1. CASE op \in [type : {"addNode"}, node : Node]
  BY <1>1 DEF ApplyOperation, AddNode,
               WellFormed, UniqueNodeIds, UniqueEdgeIds, NoDanglingEdges, HasNode, CanvasStateData
<1>2. CASE op \in [type : {"deleteNode"}, nodeId : NodeIds]
  BY <1>2 DEF ApplyOperation, DeleteNode,
               WellFormed, UniqueNodeIds, UniqueEdgeIds, NoDanglingEdges, HasNode, CanvasStateData
<1>3. CASE op \in [type : {"moveNode"}, nodeId : NodeIds, position : Positions]
  <2> DEFINE t == ApplyOperation(s, op)
             f == [n \in Node |-> IF n.id = op.nodeId
                                  THEN [n EXCEPT !.position = op.position] ELSE n]
  <2>1. f \in [Node -> Node] /\ \A n \in Node : f[n].id = n.id
    BY <1>3 DEF Node
  <2>2. t.nodes = {f[n] : n \in s.nodes} /\ t.edges = s.edges
    BY <1>3 DEF ApplyOperation, MoveNode, CanvasStateData
  <2>3. t \in CanvasStateData
    BY ApplyOperationType
  <2> HIDE DEF t, f
  <2>4. WellFormed(t)
    BY <2>1, <2>2, <2>3, SameIdsWellFormed
  <2> QED BY <2>4 DEF t
<1>4. CASE op \in [type : {"updateNode"}, nodeId : NodeIds, label : Labels]
  <2> DEFINE t == ApplyOperation(s, op)
             f == [n \in Node |-> IF n.id = op.nodeId
                                  THEN [n EXCEPT !.label = Sanitize[op.label]] ELSE n]
  <2>1. f \in [Node -> Node] /\ \A n \in Node : f[n].id = n.id
    BY <1>4, SanitizeAssumption DEF Node
  <2>2. t.nodes = {f[n] : n \in s.nodes} /\ t.edges = s.edges
    BY <1>4 DEF ApplyOperation, UpdateNode, CanvasStateData
  <2>3. t \in CanvasStateData
    BY ApplyOperationType
  <2> HIDE DEF t, f
  <2>4. WellFormed(t)
    BY <2>1, <2>2, <2>3, SameIdsWellFormed
  <2> QED BY <2>4 DEF t
<1>5. CASE op \in [type : {"addEdge"}, edge : Edge]
  BY <1>5 DEF ApplyOperation, AddEdge, HasEdge,
               WellFormed, UniqueNodeIds, UniqueEdgeIds, NoDanglingEdges, HasNode, CanvasStateData
<1>6. CASE op \in [type : {"deleteEdge"}, edgeId : EdgeIds]
  BY <1>6 DEF ApplyOperation, DeleteEdge,
               WellFormed, UniqueNodeIds, UniqueEdgeIds, NoDanglingEdges, HasNode, CanvasStateData
<1> QED BY <1>1, <1>2, <1>3, <1>4, <1>5, <1>6 DEF Operation

\* Applying f to the nodes twice is applying it once, if f is idempotent.
LEMMA SameNodesTwice ==
    ASSUME NEW S, NEW f \in [Node -> Node], S \subseteq Node,
           \A n \in Node : f[f[n]] = f[n]
    PROVE  {f[n] : n \in {f[m] : m \in S}} = {f[n] : n \in S}
OBVIOUS

\* An operation applied once more changes nothing, whatever the canvas: one that
\* is delivered or sent twice is harmless (ot.ts:28 "Idempotent", 37, 68-73, 82).
THEOREM RedeliveryChangesNothing ==
    ASSUME NEW s \in CanvasStateData, NEW op \in Operation
    PROVE  ApplyOperation(ApplyOperation(s, op), op) = ApplyOperation(s, op)
PROOF
<1>1. CASE op \in [type : {"addNode"}, node : Node]
  BY <1>1 DEF ApplyOperation, AddNode, HasNode, CanvasStateData
<1>2. CASE op \in [type : {"deleteNode"}, nodeId : NodeIds]
  <2> DEFINE t == DeleteNode(s, op.nodeId)
  <2>1. ApplyOperation(s, op) = t /\ ApplyOperation(t, op) = DeleteNode(t, op.nodeId)
    BY <1>2 DEF ApplyOperation
  <2>2. ~HasNode(t, op.nodeId)
    BY <1>2 DEF DeleteNode, HasNode, CanvasStateData
  <2>3. DeleteNode(t, op.nodeId) = t
    BY <2>2 DEF DeleteNode
  <2> QED BY <2>1, <2>3
<1>3. CASE op \in [type : {"moveNode"}, nodeId : NodeIds, position : Positions]
  <2> DEFINE f == [n \in Node |-> IF n.id = op.nodeId
                                  THEN [n EXCEPT !.position = op.position] ELSE n]
             t == [s EXCEPT !.nodes = {f[n] : n \in s.nodes}]
  <2>1. f \in [Node -> Node] /\ \A n \in Node : f[f[n]] = f[n]
    BY <1>3 DEF Node
  <2>2. \A u \in CanvasStateData :
           ApplyOperation(u, op) = [u EXCEPT !.nodes = {f[n] : n \in u.nodes}]
    BY <1>3 DEF ApplyOperation, MoveNode, CanvasStateData
  <2> HIDE DEF f
  <2>3. t \in CanvasStateData /\ s.nodes \subseteq Node
    BY <2>1 DEF CanvasStateData
  <2>4. [t EXCEPT !.nodes = {f[n] : n \in t.nodes}] = t
    BY <2>1, <2>3, SameNodesTwice DEF CanvasStateData
  <2> QED BY <2>2, <2>3, <2>4
<1>4. CASE op \in [type : {"updateNode"}, nodeId : NodeIds, label : Labels]
  <2> DEFINE f == [n \in Node |-> IF n.id = op.nodeId
                                  THEN [n EXCEPT !.label = Sanitize[op.label]] ELSE n]
             t == [s EXCEPT !.nodes = {f[n] : n \in s.nodes}]
  <2>1. f \in [Node -> Node] /\ \A n \in Node : f[f[n]] = f[n]
    BY <1>4, SanitizeAssumption DEF Node
  <2>2. \A u \in CanvasStateData :
           ApplyOperation(u, op) = [u EXCEPT !.nodes = {f[n] : n \in u.nodes}]
    BY <1>4 DEF ApplyOperation, UpdateNode, CanvasStateData
  <2> HIDE DEF f
  <2>3. t \in CanvasStateData /\ s.nodes \subseteq Node
    BY <2>1 DEF CanvasStateData
  <2>4. [t EXCEPT !.nodes = {f[n] : n \in t.nodes}] = t
    BY <2>1, <2>3, SameNodesTwice DEF CanvasStateData
  <2> QED BY <2>2, <2>3, <2>4
<1>5. CASE op \in [type : {"addEdge"}, edge : Edge]
  BY <1>5 DEF ApplyOperation, AddEdge, HasEdge, HasNode, CanvasStateData
<1>6. CASE op \in [type : {"deleteEdge"}, edgeId : EdgeIds]
  BY <1>6 DEF ApplyOperation, DeleteEdge, CanvasStateData
<1> QED BY <1>1, <1>2, <1>3, <1>4, <1>5, <1>6 DEF Operation
-----------------------------------------------------------------------------
(* In which order two operations come matters only when one of them creates *)
(* or overwrites what the other names.                                     *)

NodeMoves == [type : {"moveNode"}, nodeId : NodeIds, position : Positions]
NodeUpdates == [type : {"updateNode"}, nodeId : NodeIds, label : Labels]
NodeAdditions == [type : {"addNode"}, node : Node]
NodeDeletions == [type : {"deleteNode"}, nodeId : NodeIds]
EdgeAdditions == [type : {"addEdge"}, edge : Edge]
EdgeDeletions == [type : {"deleteEdge"}, edgeId : EdgeIds]

\* What moveNode and updateNode do to a node.
NodeChange(op) ==
    [n \in Node |-> IF n.id # op.nodeId THEN n
                    ELSE IF op.type = "moveNode" THEN [n EXCEPT !.position = op.position]
                    ELSE [n EXCEPT !.label = Sanitize[op.label]]]

WithNodes(s, S) == [nodes |-> S, edges |-> s.edges, revision |-> s.revision]

\* moveNode and updateNode put the changed nodes in the place of the old ones.
LEMMA ChangeIsApplied ==
    ASSUME NEW op \in NodeMoves \cup NodeUpdates
    PROVE  /\ NodeChange(op) \in [Node -> Node]
           /\ \A n \in Node : NodeChange(op)[n].id = n.id
           /\ \A n \in Node : n.id # op.nodeId => NodeChange(op)[n] = n
           /\ \A s \in CanvasStateData :
                 ApplyOperation(s, op) = WithNodes(s, {NodeChange(op)[n] : n \in s.nodes})
PROOF
<1>1. /\ NodeChange(op) \in [Node -> Node]
      /\ \A n \in Node : NodeChange(op)[n].id = n.id
      /\ \A n \in Node : n.id # op.nodeId => NodeChange(op)[n] = n
  BY SanitizeAssumption DEF NodeMoves, NodeUpdates, NodeChange, Node
<1>2. ASSUME NEW s \in CanvasStateData
      PROVE  ApplyOperation(s, op) = WithNodes(s, {NodeChange(op)[n] : n \in s.nodes})
  <2>1. s.nodes \subseteq Node
    BY DEF CanvasStateData
  <2>2. CASE op \in NodeMoves
    <3> DEFINE g(n) == IF n.id = op.nodeId THEN [n EXCEPT !.position = op.position] ELSE n
    <3>1. \A n \in Node : g(n) = NodeChange(op)[n]
      BY <2>2 DEF NodeMoves, NodeChange
    <3>2. ApplyOperation(s, op) = WithNodes(s, {g(n) : n \in s.nodes})
      BY <2>2 DEF NodeMoves, ApplyOperation, MoveNode, WithNodes, CanvasStateData
    <3> HIDE DEF g
    <3>3. {g(n) : n \in s.nodes} = {NodeChange(op)[n] : n \in s.nodes}
      BY <2>1, <3>1
    <3> QED BY <3>2, <3>3
  <2>3. CASE op \in NodeUpdates
    <3> DEFINE g(n) == IF n.id = op.nodeId THEN [n EXCEPT !.label = Sanitize[op.label]] ELSE n
    <3>1. \A n \in Node : g(n) = NodeChange(op)[n]
      BY <2>3 DEF NodeUpdates, NodeChange
    <3>2. ApplyOperation(s, op) = WithNodes(s, {g(n) : n \in s.nodes})
      BY <2>3 DEF NodeUpdates, ApplyOperation, UpdateNode, WithNodes, CanvasStateData
    <3> HIDE DEF g
    <3>3. {g(n) : n \in s.nodes} = {NodeChange(op)[n] : n \in s.nodes}
      BY <2>1, <3>1
    <3> QED BY <3>2, <3>3
  <2> QED BY <2>2, <2>3
<1> QED BY <1>1, <1>2

\* Changes of different nodes, or of different fields, may come in any order.
LEMMA ChangesCommute ==
    ASSUME NEW a \in NodeMoves \cup NodeUpdates, NEW b \in NodeMoves \cup NodeUpdates,
           ~OrderMatters(a, b), NEW n \in Node
    PROVE  NodeChange(a)[NodeChange(b)[n]] = NodeChange(b)[NodeChange(a)[n]]
PROOF
<1>1. a.type # b.type \/ a.nodeId # b.nodeId
  BY DEF OrderMatters, Overrides, NodeMoves, NodeUpdates
<1>2. CASE a.nodeId # b.nodeId
  BY <1>2, ChangeIsApplied DEF NodeChange
<1>3. CASE a \in NodeMoves /\ b \in NodeUpdates
  BY <1>3, SanitizeAssumption DEF NodeChange, NodeMoves, NodeUpdates, Node
<1>4. CASE a \in NodeUpdates /\ b \in NodeMoves
  BY <1>4, SanitizeAssumption DEF NodeChange, NodeMoves, NodeUpdates, Node
<1> QED BY <1>1, <1>2, <1>3, <1>4 DEF NodeMoves, NodeUpdates

\* The two may be applied in either order, with the same result.
Commute(s, a, b) ==
    ApplyOperation(ApplyOperation(s, a), b) = ApplyOperation(ApplyOperation(s, b), a)

LEMMA TwoChanges ==
    ASSUME NEW s \in CanvasStateData,
           NEW a \in NodeMoves \cup NodeUpdates, NEW b \in NodeMoves \cup NodeUpdates, ~OrderMatters(a, b)
    PROVE  Commute(s, a, b)
PROOF
<1>1. PICK f \in [Node -> Node] :
         f = NodeChange(a) /\ \A u \in CanvasStateData :
             ApplyOperation(u, a) = WithNodes(u, {f[n] : n \in u.nodes})
  BY ChangeIsApplied
<1>2. PICK g \in [Node -> Node] :
         g = NodeChange(b) /\ \A u \in CanvasStateData :
             ApplyOperation(u, b) = WithNodes(u, {g[n] : n \in u.nodes})
  BY ChangeIsApplied
<1>3. \A n \in Node : f[g[n]] = g[f[n]]
  BY <1>1, <1>2, ChangesCommute
<1>4. a \in Operation /\ b \in Operation
  BY DEF Operation, NodeMoves, NodeUpdates
<1>5. s.nodes \subseteq Node
  BY DEF CanvasStateData
<1>6. /\ ApplyOperation(s, a) \in CanvasStateData
      /\ ApplyOperation(s, b) \in CanvasStateData
  BY <1>4, ApplyOperationType
<1>7. {g[n] : n \in {f[m] : m \in s.nodes}} = {f[n] : n \in {g[m] : m \in s.nodes}}
  BY <1>3, <1>5
<1>8. ApplyOperation(ApplyOperation(s, a), b) = WithNodes(s, {g[n] : n \in {f[m] : m \in s.nodes}})
  BY <1>1, <1>2, <1>6 DEF WithNodes
<1>9. ApplyOperation(ApplyOperation(s, b), a) = WithNodes(s, {f[n] : n \in {g[m] : m \in s.nodes}})
  BY <1>1, <1>2, <1>6 DEF WithNodes
<1> QED BY <1>7, <1>8, <1>9 DEF Commute

\* A change keeps every id, which is all the four other kinds look at.
LEMMA ChangeAndOther ==
    ASSUME NEW s \in CanvasStateData, NEW a \in NodeMoves \cup NodeUpdates,
           NEW b \in NodeAdditions \cup NodeDeletions \cup EdgeAdditions \cup EdgeDeletions,
           ~OrderMatters(a, b)
    PROVE  Commute(s, a, b)
PROOF
<1>1. PICK f \in [Node -> Node] :
         /\ f = NodeChange(a)
         /\ \A n \in Node : f[n].id = n.id /\ (n.id # a.nodeId => f[n] = n)
         /\ \A u \in CanvasStateData :
             ApplyOperation(u, a) = WithNodes(u, {f[n] : n \in u.nodes})
  BY ChangeIsApplied
<1>2. PICK t : t = WithNodes(s, {f[n] : n \in s.nodes})
  OBVIOUS
<1>3. s.nodes \subseteq Node
  BY DEF CanvasStateData
<1>4. /\ t \in CanvasStateData
      /\ t.nodes = {f[n] : n \in s.nodes} /\ t.edges = s.edges /\ t.revision = s.revision
      /\ \A id : HasNode(t, id) <=> HasNode(s, id)
      /\ \A id : HasEdge(t, id) <=> HasEdge(s, id)
  BY <1>1, <1>2, <1>3 DEF WithNodes, CanvasStateData, HasNode, HasEdge
<1>5. b \in Operation
  BY DEF Operation, NodeAdditions, NodeDeletions, EdgeAdditions, EdgeDeletions
<1>6. PICK u \in CanvasStateData : u = ApplyOperation(s, b)
  BY <1>5, ApplyOperationType
<1>7. ApplyOperation(t, b) = WithNodes(u, {f[n] : n \in u.nodes})
  <2>1. CASE b \in NodeAdditions
    <3>1. b.node.id # a.nodeId /\ b.node \in Node
      BY <2>1 DEF OrderMatters, Overrides, NodesNamed, NodeAdditions, NodeMoves, NodeUpdates
    <3>2. f[b.node] = b.node
      BY <3>1, <1>1
    <3>3. CASE HasNode(s, b.node.id)
      BY <2>1, <3>3, <1>2, <1>4, <1>6 DEF ApplyOperation, AddNode, NodeAdditions
    <3>4. CASE ~HasNode(s, b.node.id)
      <4>1. u = WithNodes(s, s.nodes \cup {b.node})
        BY <2>1, <3>4, <1>6
           DEF ApplyOperation, AddNode, NodeAdditions, WithNodes, CanvasStateData
      <4>2. ApplyOperation(t, b) = WithNodes(t, t.nodes \cup {b.node})
        BY <2>1, <3>4, <1>4
           DEF ApplyOperation, AddNode, NodeAdditions, WithNodes, CanvasStateData
      <4>3. {f[n] : n \in s.nodes \cup {b.node}} = {f[n] : n \in s.nodes} \cup {b.node}
        BY <3>2
      <4>4. ApplyOperation(t, b) = [nodes |-> {f[n] : n \in s.nodes} \cup {b.node},
                                    edges |-> s.edges, revision |-> s.revision]
        BY <4>2, <1>4 DEF WithNodes
      <4> QED BY <4>1, <4>3, <4>4 DEF WithNodes
    <3> QED BY <3>3, <3>4
  <2>2. CASE b \in NodeDeletions
    <3>1. CASE ~HasNode(s, b.nodeId)
      BY <2>2, <3>1, <1>2, <1>4, <1>6 DEF ApplyOperation, DeleteNode, NodeDeletions
    <3>2. CASE HasNode(s, b.nodeId)
      <4> DEFINE E == {e \in s.edges : e.source # b.nodeId /\ e.target # b.nodeId}
      <4>1. u = [nodes |-> {n \in s.nodes : n.id # b.nodeId}, edges |-> E, revision |-> s.revision]
        BY <2>2, <3>2, <1>6 DEF ApplyOperation, DeleteNode, NodeDeletions, CanvasStateData
      <4>2. ApplyOperation(t, b) =
              [nodes |-> {n \in t.nodes : n.id # b.nodeId}, edges |-> E, revision |-> s.revision]
        BY <2>2, <3>2, <1>4 DEF ApplyOperation, DeleteNode, NodeDeletions, CanvasStateData
      <4>3. {f[n] : n \in {m \in s.nodes : m.id # b.nodeId}}
              = {n \in {f[m] : m \in s.nodes} : n.id # b.nodeId}
        BY <1>1, <1>3
      <4> QED BY <4>1, <4>2, <4>3, <1>4 DEF WithNodes
    <3> QED BY <3>1, <3>2
  <2>3. CASE b \in EdgeAdditions
    BY <2>3, <1>2, <1>4, <1>6
       DEF ApplyOperation, AddEdge, EdgeAdditions, WithNodes, CanvasStateData
  <2>4. CASE b \in EdgeDeletions
    BY <2>4, <1>2, <1>4, <1>6
       DEF ApplyOperation, DeleteEdge, EdgeDeletions, WithNodes, CanvasStateData
  <2> QED BY <2>1, <2>2, <2>3, <2>4
<1> QED BY <1>1, <1>2, <1>6, <1>7 DEF Commute

\* What the other four do to the sets of a canvas, and to the ids in them.
AddNodeEffect(s, t, op) ==
    /\ t.edges = s.edges
    /\ t.nodes = IF HasNode(s, op.node.id) THEN s.nodes ELSE s.nodes \cup {op.node}
    /\ \A id : HasNode(t, id) <=> HasNode(s, id) \/ id = op.node.id

DeleteNodeEffect(s, t, op) ==
    /\ t.edges = IF HasNode(s, op.nodeId)
                 THEN {e \in s.edges : e.source # op.nodeId /\ e.target # op.nodeId}
                 ELSE s.edges
    /\ t.nodes = {n \in s.nodes : n.id # op.nodeId}
    /\ \A id : HasNode(t, id) <=> HasNode(s, id) /\ id # op.nodeId

AddEdgeEffect(s, t, op) ==
    /\ t.nodes = s.nodes
    /\ t.edges = IF /\ HasNode(s, op.edge.source) /\ HasNode(s, op.edge.target)
                    /\ ~HasEdge(s, op.edge.id)
                 THEN s.edges \cup {op.edge} ELSE s.edges
    /\ \A id : HasNode(t, id) <=> HasNode(s, id)

DeleteEdgeEffect(s, t, op) ==
    /\ t.nodes = s.nodes
    /\ t.edges = {e \in s.edges : e.id # op.edgeId}
    /\ \A id : HasNode(t, id) <=> HasNode(s, id)

LEMMA EffectsOfTheOthers ==
    ASSUME NEW s \in CanvasStateData, NEW op \in Operation
    PROVE  LET t == ApplyOperation(s, op)
           IN  /\ op \in NodeAdditions => AddNodeEffect(s, t, op)
               /\ op \in NodeDeletions => DeleteNodeEffect(s, t, op)
               /\ op \in EdgeAdditions => AddEdgeEffect(s, t, op)
               /\ op \in EdgeDeletions => DeleteEdgeEffect(s, t, op)
PROOF
<1>1. CASE op \in NodeAdditions
  BY <1>1
     DEF AddNodeEffect, NodeAdditions, NodeDeletions, EdgeAdditions, EdgeDeletions,
         ApplyOperation, AddNode,
              HasNode, CanvasStateData
<1>2. CASE op \in NodeDeletions
  BY <1>2
     DEF DeleteNodeEffect, NodeAdditions, NodeDeletions, EdgeAdditions, EdgeDeletions,
         ApplyOperation, DeleteNode,
              HasNode, CanvasStateData
<1>3. CASE op \in EdgeAdditions
  BY <1>3
     DEF AddEdgeEffect, NodeAdditions, NodeDeletions, EdgeAdditions, EdgeDeletions,
         ApplyOperation, AddEdge,
              HasNode, HasEdge, CanvasStateData
<1>4. CASE op \in EdgeDeletions
  BY <1>4
     DEF DeleteEdgeEffect, NodeAdditions, NodeDeletions, EdgeAdditions, EdgeDeletions,
         ApplyOperation, DeleteEdge,
              HasNode, CanvasStateData
<1> QED BY <1>1, <1>2, <1>3, <1>4

\* Adding and deleting items, in the four kinds' order: equal sets either way.
LEMMA TwoOthers ==
    ASSUME NEW s \in CanvasStateData, NEW a \in Operation, NEW b \in Operation, ~OrderMatters(a, b),
           \/ /\ a \in NodeAdditions
              /\ b \in NodeAdditions \cup NodeDeletions \cup EdgeAdditions \cup EdgeDeletions
           \/ a \in NodeDeletions /\ b \in NodeDeletions \cup EdgeAdditions \cup EdgeDeletions
           \/ a \in EdgeAdditions /\ b \in EdgeAdditions \cup EdgeDeletions
           \/ a \in EdgeDeletions /\ b \in EdgeDeletions
    PROVE  Commute(s, a, b)
PROOF
<1>1. PICK t \in CanvasStateData : t = ApplyOperation(s, a) /\ t.revision = s.revision
  BY ApplyOperationType
<1>2. PICK u \in CanvasStateData : u = ApplyOperation(s, b) /\ u.revision = s.revision
  BY ApplyOperationType
<1>3. PICK v \in CanvasStateData : v = ApplyOperation(t, b) /\ v.revision = t.revision
  BY ApplyOperationType
<1>4. PICK w \in CanvasStateData : w = ApplyOperation(u, a) /\ w.revision = u.revision
  BY ApplyOperationType
<1>5. v.nodes = w.nodes /\ v.edges = w.edges
  <2>1. CASE a \in NodeAdditions
    <3>1. AddNodeEffect(s, t, a) /\ AddNodeEffect(u, w, a)
      BY <1>1, <1>4, <2>1, EffectsOfTheOthers
    <3>2. CASE b \in NodeAdditions
      <4>1. AddNodeEffect(s, u, b) /\ AddNodeEffect(t, v, b)
        BY <1>2, <1>3, <3>2, EffectsOfTheOthers
      <4>2. a.node.id # b.node.id
        BY <2>1, <3>2 DEF OrderMatters, Overrides, NodesNamed, NodeAdditions
      <4> QED BY <3>1, <4>1, <4>2 DEF AddNodeEffect
    <3>3. CASE b \in NodeDeletions
      <4>1. DeleteNodeEffect(s, u, b) /\ DeleteNodeEffect(t, v, b)
        BY <1>2, <1>3, <3>3, EffectsOfTheOthers
      <4>2. a.node.id # b.nodeId
        BY <2>1, <3>3 DEF OrderMatters, Overrides, NodesNamed, NodeAdditions, NodeDeletions
      <4> QED BY <3>1, <4>1, <4>2 DEF AddNodeEffect, DeleteNodeEffect
    <3>4. CASE b \in EdgeAdditions
      <4>1. AddEdgeEffect(s, u, b) /\ AddEdgeEffect(t, v, b)
        BY <1>2, <1>3, <3>4, EffectsOfTheOthers
      <4>2. a.node.id # b.edge.source /\ a.node.id # b.edge.target
        BY <2>1, <3>4 DEF OrderMatters, Overrides, NodesNamed, NodeAdditions, EdgeAdditions
      <4> QED BY <3>1, <4>1, <4>2 DEF AddNodeEffect, AddEdgeEffect, HasEdge
    <3>5. CASE b \in EdgeDeletions
      <4>1. DeleteEdgeEffect(s, u, b) /\ DeleteEdgeEffect(t, v, b)
        BY <1>2, <1>3, <3>5, EffectsOfTheOthers
      <4> QED BY <3>1, <4>1 DEF AddNodeEffect, DeleteEdgeEffect
    <3> QED BY <2>1, <3>2, <3>3, <3>4, <3>5
       DEF NodeAdditions, NodeDeletions, EdgeAdditions, EdgeDeletions
  <2>2. CASE a \in NodeDeletions
    <3>1. DeleteNodeEffect(s, t, a) /\ DeleteNodeEffect(u, w, a)
      BY <1>1, <1>4, <2>2, EffectsOfTheOthers
    <3>2. CASE b \in NodeDeletions
      <4>1. DeleteNodeEffect(s, u, b) /\ DeleteNodeEffect(t, v, b)
        BY <1>2, <1>3, <3>2, EffectsOfTheOthers
      <4>2. CASE a.nodeId = b.nodeId
        BY <3>1, <4>1, <4>2 DEF DeleteNodeEffect
      <4>3. CASE a.nodeId # b.nodeId
        <5>1. HasNode(u, a.nodeId) <=> HasNode(s, a.nodeId)
          BY <4>1, <4>3 DEF DeleteNodeEffect
        <5>2. HasNode(t, b.nodeId) <=> HasNode(s, b.nodeId)
          BY <3>1, <4>3 DEF DeleteNodeEffect
        <5> QED BY <3>1, <4>1, <5>1, <5>2 DEF DeleteNodeEffect
      <4> QED BY <4>2, <4>3
    <3>3. CASE b \in EdgeAdditions
      <4>1. AddEdgeEffect(s, u, b) /\ AddEdgeEffect(t, v, b)
        BY <1>2, <1>3, <3>3, EffectsOfTheOthers
      <4>2. \A e \in s.edges : e.id = b.edge.id => e.source = b.edge.source /\ e.target = b.edge.target
        BY <3>3 DEF EdgeAdditions, Edge, EdgeOf, CanvasStateData
      <4>3. v.nodes = w.nodes
        BY <3>1, <4>1 DEF DeleteNodeEffect, AddEdgeEffect
      <4>4. CASE ~HasNode(s, a.nodeId)
        <5>1. t.edges = s.edges /\ w.edges = u.edges
          BY <3>1, <4>1, <4>4 DEF DeleteNodeEffect, AddEdgeEffect
        <5>2. HasNode(t, b.edge.source) <=> HasNode(s, b.edge.source)
          BY <3>1, <4>4 DEF DeleteNodeEffect
        <5>3. HasNode(t, b.edge.target) <=> HasNode(s, b.edge.target)
          BY <3>1, <4>4 DEF DeleteNodeEffect
        <5> QED BY <4>1, <4>3, <5>1, <5>2, <5>3 DEF AddEdgeEffect, HasEdge
      <4>5. CASE HasNode(s, a.nodeId) /\ a.nodeId \in {b.edge.source, b.edge.target}
        <5>1. v.edges = t.edges
          BY <3>1, <4>1, <4>5 DEF DeleteNodeEffect, AddEdgeEffect
        <5>2. w.edges = {e \in u.edges : e.source # a.nodeId /\ e.target # a.nodeId}
          BY <3>1, <4>1, <4>5 DEF DeleteNodeEffect, AddEdgeEffect
        <5>3. t.edges = {e \in s.edges : e.source # a.nodeId /\ e.target # a.nodeId}
          BY <3>1, <4>5 DEF DeleteNodeEffect
        <5>4. u.edges = s.edges \/ u.edges = s.edges \cup {b.edge}
          BY <4>1 DEF AddEdgeEffect
        <5> QED BY <4>3, <4>5, <5>1, <5>2, <5>3, <5>4
      <4>6. CASE HasNode(s, a.nodeId) /\ a.nodeId # b.edge.source /\ a.nodeId # b.edge.target
        <5>1. t.edges = {e \in s.edges : e.source # a.nodeId /\ e.target # a.nodeId}
          BY <3>1, <4>6 DEF DeleteNodeEffect
        <5>2. w.edges = {e \in u.edges : e.source # a.nodeId /\ e.target # a.nodeId}
          BY <3>1, <4>1, <4>6 DEF DeleteNodeEffect, AddEdgeEffect
        <5>3. HasEdge(t, b.edge.id) <=> HasEdge(s, b.edge.id)
          BY <4>2, <4>6, <5>1 DEF HasEdge
        <5>4. /\ HasNode(t, b.edge.source) <=> HasNode(s, b.edge.source)
              /\ HasNode(t, b.edge.target) <=> HasNode(s, b.edge.target)
          BY <3>1, <4>6 DEF DeleteNodeEffect
        <5> QED BY <4>1, <4>3, <4>6, <5>1, <5>2, <5>3, <5>4 DEF AddEdgeEffect
      <4> QED BY <4>4, <4>5, <4>6
    <3>4. CASE b \in EdgeDeletions
      <4>1. DeleteEdgeEffect(s, u, b) /\ DeleteEdgeEffect(t, v, b)
        BY <1>2, <1>3, <3>4, EffectsOfTheOthers
      <4> QED BY <3>1, <4>1 DEF DeleteNodeEffect, DeleteEdgeEffect
    <3> QED BY <2>2, <3>2, <3>3, <3>4
       DEF NodeAdditions, NodeDeletions, EdgeAdditions, EdgeDeletions
  <2>3. CASE a \in EdgeAdditions
    <3>1. AddEdgeEffect(s, t, a) /\ AddEdgeEffect(u, w, a)
      BY <1>1, <1>4, <2>3, EffectsOfTheOthers
    <3>2. CASE b \in EdgeAdditions
      <4>1. AddEdgeEffect(s, u, b) /\ AddEdgeEffect(t, v, b)
        BY <1>2, <1>3, <3>2, EffectsOfTheOthers
      <4>2. a.edge.id # b.edge.id
        BY <2>3, <3>2 DEF OrderMatters, Overrides, EdgeAdditions
      <4> QED BY <3>1, <4>1, <4>2 DEF AddEdgeEffect, HasEdge
    <3>3. CASE b \in EdgeDeletions
      <4>1. DeleteEdgeEffect(s, u, b) /\ DeleteEdgeEffect(t, v, b)
        BY <1>2, <1>3, <3>3, EffectsOfTheOthers
      <4>2. a.edge.id # b.edgeId
        BY <2>3, <3>3 DEF OrderMatters, Overrides, EdgeAdditions, EdgeDeletions
      <4> QED BY <3>1, <4>1, <4>2 DEF AddEdgeEffect, DeleteEdgeEffect, HasEdge
    <3> QED BY <2>3, <3>2, <3>3 DEF NodeAdditions, NodeDeletions, EdgeAdditions, EdgeDeletions
  <2>4. CASE a \in EdgeDeletions /\ b \in EdgeDeletions
    <3>1. DeleteEdgeEffect(s, t, a) /\ DeleteEdgeEffect(u, w, a)
      BY <1>1, <1>4, <2>4, EffectsOfTheOthers
    <3>2. DeleteEdgeEffect(s, u, b) /\ DeleteEdgeEffect(t, v, b)
      BY <1>2, <1>3, <2>4, EffectsOfTheOthers
    <3> QED BY <3>1, <3>2 DEF DeleteEdgeEffect
  <2> QED BY <2>1, <2>2, <2>3, <2>4
<1> QED BY <1>1, <1>2, <1>3, <1>4, <1>5 DEF Commute, CanvasStateData

LEMMA OperationsCommute ==
    ASSUME NEW s \in CanvasStateData, NEW a \in Operation, NEW b \in Operation,
           ~OrderMatters(a, b)
    PROVE  ApplyOperation(ApplyOperation(s, a), b) = ApplyOperation(ApplyOperation(s, b), a)
PROOF
<1>1. ~OrderMatters(b, a)
  BY DEF OrderMatters
<1>2. Commute(s, b, a) <=> Commute(s, a, b)
  BY DEF Commute
<1> DEFINE Others == NodeAdditions \cup NodeDeletions \cup EdgeAdditions \cup EdgeDeletions
<1>3. \A op \in Operation : op \in NodeMoves \cup NodeUpdates \/ op \in Others
  BY
     DEF Operation, NodeMoves, NodeUpdates, NodeAdditions, NodeDeletions, EdgeAdditions,
         EdgeDeletions
<1>4. CASE a \in NodeMoves \cup NodeUpdates /\ b \in NodeMoves \cup NodeUpdates
  BY <1>4, TwoChanges DEF Commute
<1>5. CASE a \in NodeMoves \cup NodeUpdates /\ b \in Others
  BY <1>5, ChangeAndOther DEF Commute
<1>6. CASE b \in NodeMoves \cup NodeUpdates /\ a \in Others
  BY <1>1, <1>2, <1>6, ChangeAndOther DEF Commute
<1>7. CASE a \in Others /\ b \in Others
  BY <1>1, <1>2, <1>7, TwoOthers DEF Commute
<1> QED BY <1>3, <1>4, <1>5, <1>6, <1>7

LEMMA EmptyCanvasOK == EmptyCanvas \in CanvasStateData /\ WellFormed(EmptyCanvas)
BY DEF WellFormed, EmptyCanvas, UniqueNodeIds, UniqueEdgeIds, NoDanglingEdges, CanvasStateData
-----------------------------------------------------------------------------
(* What a replica applies without the server's checks must fit it.         *)

FitsOp(s, op) ==
    /\ op.type = "addNode" => ~HasNode(s, op.node.id)
    /\ op.type = "addEdge" => /\ HasNode(s, op.edge.source)
                              /\ HasNode(s, op.edge.target)
                              /\ ~HasEdge(s, op.edge.id)

\* An operation that fits still fits after one that does not touch its items.
LEMMA StillFits ==
    ASSUME NEW s \in CanvasStateData, NEW a \in Operation, NEW b \in Operation,
           FitsOp(s, a), ~Clashing(a, b)
    PROVE  FitsOp(ApplyOperation(s, b), a)
PROOF
<1>1. PICK t \in CanvasStateData : t = ApplyOperation(s, b)
  BY ApplyOperationType
<1>2. CASE b \in NodeMoves \cup NodeUpdates
  <2>1. PICK f \in [Node -> Node] :
           /\ \A n \in Node : f[n].id = n.id
           /\ t = WithNodes(s, {f[n] : n \in s.nodes})
    BY <1>1, <1>2, ChangeIsApplied
  <2>2. s.nodes \subseteq Node
    BY DEF CanvasStateData
  <2>3. /\ \A id : HasNode(t, id) <=> HasNode(s, id)
        /\ \A id : HasEdge(t, id) <=> HasEdge(s, id)
    BY <2>1, <2>2 DEF WithNodes, HasNode, HasEdge
  <2> QED BY <1>1, <2>3 DEF FitsOp
<1>3. CASE b \in NodeAdditions
  <2>1. AddNodeEffect(s, t, b)
    BY <1>1, <1>3, EffectsOfTheOthers
  <2>2. a.type = "addNode" => a.node.id # b.node.id
    BY <1>3 DEF Clashing, OrderMatters, Overrides, NodesNamed, NodeAdditions
  <2> QED BY <1>1, <2>1, <2>2 DEF FitsOp, AddNodeEffect, HasEdge
<1>4. CASE b \in NodeDeletions
  <2>1. DeleteNodeEffect(s, t, b)
    BY <1>1, <1>4, EffectsOfTheOthers
  <2>2. a.type = "addEdge" => b.nodeId # a.edge.source /\ b.nodeId # a.edge.target
    BY <1>4 DEF Clashing, DeletesEndOf, NodesNamed, NodeDeletions
  <2>3. t.edges \subseteq s.edges
    BY <2>1 DEF DeleteNodeEffect
  <2>4. \A id : HasEdge(t, id) => HasEdge(s, id)
    BY <2>3 DEF HasEdge
  <2> QED BY <1>1, <2>1, <2>2, <2>4 DEF FitsOp, DeleteNodeEffect
<1>5. CASE b \in EdgeAdditions
  <2>1. AddEdgeEffect(s, t, b)
    BY <1>1, <1>5, EffectsOfTheOthers
  <2>2. a.type = "addEdge" => a.edge.id # b.edge.id
    BY <1>5 DEF Clashing, OrderMatters, Overrides, EdgeAdditions
  <2>3. \A id : id # b.edge.id /\ HasEdge(t, id) => HasEdge(s, id)
    BY <2>1 DEF AddEdgeEffect, HasEdge
  <2> QED BY <1>1, <2>1, <2>2, <2>3 DEF FitsOp, AddEdgeEffect
<1>6. CASE b \in EdgeDeletions
  <2>1. DeleteEdgeEffect(s, t, b)
    BY <1>1, <1>6, EffectsOfTheOthers
  <2>2. \A id : HasEdge(t, id) => HasEdge(s, id)
    BY <2>1 DEF DeleteEdgeEffect, HasEdge
  <2> QED BY <1>1, <2>1, <2>2 DEF FitsOp, DeleteEdgeEffect
<1> QED BY <1>2, <1>3, <1>4, <1>5, <1>6
    DEF Operation, NodeMoves, NodeUpdates, NodeAdditions, NodeDeletions, EdgeAdditions, EdgeDeletions

LEMMA ClashingIsSymmetric ==
    ASSUME NEW a, NEW b
    PROVE  Clashing(a, b) <=> Clashing(b, a)
BY DEF Clashing, OrderMatters

-----------------------------------------------------------------------------
(* Numbers up to n, from the first to the next one.                        *)

LEMMA UpToN ==
    ASSUME NEW n \in Nat, NEW S, 0 \in S, \A i \in 1..n : i - 1 \in S => i \in S
    PROVE  \A i \in 0..n : i \in S
PROOF
<1> SUFFICES ASSUME NEW k \in 0..n, k \notin S PROVE FALSE
  OBVIOUS
<1> DEFINE T == {i \in 0..n : i \notin S}
<1>1. T \subseteq Nat /\ T # {}
  OBVIOUS
<1>2. PICK i \in T : \A j \in T : <<j, i>> \notin OpToRel(<, Nat)
  BY <1>1, NatLessThanWellFounded, WFMin
<1>3. i # 0 /\ i \in 1..n
  OBVIOUS
<1>4. i - 1 \in T
  <2>1. i \notin S /\ i - 1 \in 0..n
    BY <1>3
  <2>2. i - 1 \notin S
    BY <1>3, <2>1
  <2> QED BY <2>1, <2>2
<1>5. <<i - 1, i>> \in OpToRel(<, Nat)
  BY <1>3 DEF OpToRel
<1> QED BY <1>2, <1>4, <1>5
=============================================================================
