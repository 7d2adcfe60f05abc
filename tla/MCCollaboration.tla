-------------------------- MODULE MCCollaboration ---------------------------
(***************************************************************************)
(* Small instances of Collaboration: two clients, two nodes and the edge   *)
(* between them, a third node to add.                                      *)
(***************************************************************************)
EXTENDS Collaboration

MCEnds == [ab |-> <<"a", "b">>]
MCSanitize == [plain |-> "plain", raw |-> "escaped", escaped |-> "escaped"]

NodeAt(id, pos) == [id |-> id, position |-> pos, label |-> "plain"]
Linked == [nodes |-> {NodeAt("a", "left"), NodeAt("b", "left")},
           edges |-> {EdgeOf("ab", "sync")}]
JustA == [nodes |-> {NodeAt("a", "left")}, edges |-> {}]

StartLinked == AtRevision(Linked, 3)

Add(id) == [type |-> "addNode", node |-> NodeAt(id, "left")]
Delete(id) == [type |-> "deleteNode", nodeId |-> id]
Move(id, pos) == [type |-> "moveNode", nodeId |-> id, position |-> pos]
Rename(id, l) == [type |-> "updateNode", nodeId |-> id, label |-> l]
Connect(t) == [type |-> "addEdge", edge |-> EdgeOf("ab", t)]
Disconnect == [type |-> "deleteEdge", edgeId |-> "ab"]

AllKinds == {Add("c"), Add("b"), Delete("b"), Move("a", "right"), Move("b", "right"),
             Rename("a", "escaped"), Connect("sync"), Connect("async"), Disconnect}

RestoreA == {JustA}
=============================================================================
