---------------------------- MODULE MCCanvasSync ----------------------------
(***************************************************************************)
(* Small instances of CanvasSync: two nodes and an edge, one or two rooms. *)
(***************************************************************************)
EXTENDS CanvasSync, TLC

MCEnds == [ab |-> <<"a", "b">>]
MCSanitize == [l |-> "l"]

NodeAt(id, pos) == [id |-> id, position |-> pos, label |-> "l"]
OnlyA == [nodes |-> {NodeAt("a", "left")}, edges |-> {}]
Linked == [nodes |-> {NodeAt("a", "left"), NodeAt("b", "left")},
           edges |-> {EdgeOf("ab", "sync")}]

Add(id) == [type |-> "addNode", node |-> NodeAt(id, "left")]
Delete(id) == [type |-> "deleteNode", nodeId |-> id]
Move(id) == [type |-> "moveNode", nodeId |-> id, position |-> "right"]
Connect == [type |-> "addEdge", edge |-> EdgeOf("ab", "sync")]

AddBoth == {Add("a"), Add("b")}
EditLinked == {Delete("b"), Connect}
MoveA == {Move("a")}

\* Room states to start from.
Cold == {[live |-> Nil, durable |-> Nil]}
ColdLinked == {[live |-> Nil, durable |-> AtRevision(Linked, 1)]}
Warm == {[live |-> EmptyCanvas, durable |-> Nil]}
WarmA == {[live |-> AtRevision(OnlyA, 1), durable |-> AtRevision(OnlyA, 1)]}
WarmLinked == {[live |-> AtRevision(Linked, 1), durable |-> AtRevision(Linked, 1)]}
AnyCold == Cold \cup ColdLinked
AnyStart == AnyCold \cup WarmA \cup
            {[live |-> AtRevision(OnlyA, 2), durable |-> AtRevision(Linked, 1)]}

NoContent == {}
SnapshotA == {OnlyA}
SnapshotEmpty == {[nodes |-> {}, edges |-> {}]}
DraftA == {OnlyA}

\* Budgets: of each kind of request, of requests in all, of expiries, crashes
\* and failed commands.
B(op, join, leave, restore, save, snapshot, request, expire, crash, fault) ==
    [op |-> op, join |-> join, leave |-> leave, restore |-> restore,
     save |-> save, snapshot |-> snapshot, request |-> request,
     expire |-> expire, crash |-> crash, fault |-> fault]

BudgetSequential == B(3, 1, 1, 1, 0, 1, 6, 1, 0, 0)
BudgetConcurrent == B(2, 1, 1, 1, 1, 1, 3, 1, 1, 1)
BudgetOps        == B(2, 0, 0, 0, 0, 0, 2, 0, 0, 0)
BudgetLiveness   == B(2, 0, 1, 0, 0, 0, 3, 0, 1, 1)
BudgetWarm       == B(3, 1, 1, 1, 0, 0, 4, 0, 0, 0)

ProcSymmetry == Permutations(Procs)
=============================================================================
