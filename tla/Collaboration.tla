---------------------------- MODULE Collaboration ----------------------------
(***************************************************************************)
(* Users editing one canvas: the replica each client keeps                 *)
(* (useCollaboration.ts, canvasStore.ts, Canvas.tsx), the messages between *)
(* clients and gateway (canvas.gateway.ts), and the live canvas.           *)
(*                                                                         *)
(* A client applies its own edit at once and sends it; the server applies  *)
(* it, answers the sender and sends it on to everyone else in the room,    *)
(* and each of them applies it to what it has by then.  The live canvas is *)
(* the one CanvasSync promises when requests do not overlap (LiveCanvas):  *)
(* an operation is one step.  A join and a restore also await PostgreSQL   *)
(* between reading or writing the live canvas and answering; with Overlap  *)
(* the server handles other requests meanwhile.                            *)
(***************************************************************************)
EXTENDS Canvas, Sequences

CONSTANTS
    Clients,
    LateJoiners,    \* clients that are not in the room yet
    Nil,
    Edits,          \* the operations users perform
    Restorable,     \* the contents users restore
    Start,          \* the live canvas at the beginning
    Overlap,        \* whether requests overlap with a join or a restore
    MaxEdits, MaxRestores

ASSUME CollaborationAssumption ==
    /\ LateJoiners \subseteq Clients
    /\ Edits \subseteq Operation
    /\ Restorable \subseteq Content
    /\ Start \in CanvasStateData
    /\ Overlap \in BOOLEAN
    /\ MaxEdits \in Nat /\ MaxRestores \in Nat
    /\ Nil \notin [kind : {"roomState", "canvasRestored"}, canvas : CanvasStateData]

\* Rooms and snapshots hold what applyOperation made, which is well formed
\* (Canvas, CanvasSync).
ASSUME WellFormedAssumption ==
    WellFormed(Start) /\ \A c \in Restorable : WellFormed(c)

VARIABLES
    live,       \* the server's canvas
    inRoom,     \* clients whose socket is in the Socket.IO room
    answering,  \* [Clients -> message or Nil]: the answer a join or restore of
                \* the client will send once its awaits are over
    up,         \* [Clients -> messages to the server, in order]
    down,       \* [Clients -> messages to the client, in order]
    replica,    \* [Clients -> canvas]: nodes and edges of the client's
                \* canvasStore, and its serverRevision
    joined,     \* clients that have had a roomState: they can edit
    edits, restores,    \* how many there have been
    clash       \* history: an edit met another it had not seen, on one item

server == <<live, inRoom, answering>>
client == <<replica, joined, edits, restores, clash>>
vars == <<live, inRoom, answering, up, down, replica, joined, edits, restores, clash>>

OpMsg(op) == [kind |-> "canvasOperation", op |-> op]
RestoreMsg(c) == [kind |-> "canvasRestore", content |-> c]
JoinMsg == [kind |-> "joinRoom"]

Ack(rev) == [kind |-> "operationAck", revision |-> rev]
Broadcast(op, rev) == [kind |-> "operationBroadcast", op |-> op, revision |-> rev]
RoomState(s) == [kind |-> "roomState", canvas |-> s]
CanvasRestored(s) == [kind |-> "canvasRestored", canvas |-> s]

-----------------------------------------------------------------------------
(* The client.                                                             *)

ApplyRemoteKeepingEdges(s, op) ==
    IF op.type = "deleteNode" THEN DeleteNodeOnly(s, op.nodeId)
    ELSE ApplyOperation(s, op)

\* onOperationBroadcast: unlike the server's applyOperation, nothing is checked
\* and the label is not sanitized.
ApplyRemote(s, op) ==
    CASE op.type = "addNode" -> [s EXCEPT !.nodes = @ \cup {op.node}]
      [] op.type = "deleteNode" ->
            [s EXCEPT !.nodes = {n \in @ : n.id # op.nodeId},
                      !.edges = {e \in @ : op.nodeId \notin {e.source, e.target}}]
      [] op.type = "updateNode" ->
            [s EXCEPT !.nodes =
                {IF n.id = op.nodeId THEN [n EXCEPT !.label = op.label] ELSE n : n \in @}]
      [] op.type = "addEdge" -> [s EXCEPT !.edges = @ \cup {op.edge}]
      [] OTHER -> ApplyOperation(s, op)     \* moveNode, deleteEdge

\* What a user can do to the canvas on the screen: new items get unused ids,
\* the others are there.
CanEdit(s, op) ==
    CASE op.type = "addNode" -> ~HasNode(s, op.node.id)
      [] op.type = "addEdge" -> /\ HasNode(s, op.edge.source)
                                /\ HasNode(s, op.edge.target)
                                /\ ~HasEdge(s, op.edge.id)
      [] op.type = "deleteEdge" -> HasEdge(s, op.edgeId)
      [] OTHER -> HasNode(s, op.nodeId)

\* Messages of others that c has not seen: still on their way to the server,
\* held by a handler, or on their way to c.
Unseen(c) ==
    (UNION {{up[d][i] : i \in DOMAIN up[d]} : d \in Clients \ {c}})
    \cup ({answering[d] : d \in Clients \ {c}} \ {Nil})
    \cup {down[c][i] : i \in DOMAIN down[c]}

ClashesUnseen(c, op) ==
    \E m \in Unseen(c) :
        \/ m.kind \in {"canvasOperation", "operationBroadcast"} /\ Clashing(op, m.op)
        \/ m.kind \in {"canvasRestore", "canvasRestored"}

\* handleAddNode, handleConnect, handleContextMenuDelete...: the store first,
\* then emitOperation.
Edit(c) ==
    /\ c \in joined
    /\ edits < MaxEdits
    /\ \E op \in Edits :
          /\ CanEdit(replica[c], op)
          /\ replica' = [replica EXCEPT ![c] = ApplyRemote(@, op)]
          /\ up' = [up EXCEPT ![c] = Append(@, OpMsg(op))]
          /\ clash' = (clash \/ ClashesUnseen(c, op))
    /\ edits' = edits + 1
    /\ UNCHANGED <<server, down, joined, restores>>

\* SnapshotsPanel handleRestore: the client's revision stays as it is.
RestoreSnapshot(c) ==
    /\ c \in joined
    /\ restores < MaxRestores
    /\ \E s \in Restorable :
          /\ replica' = [replica EXCEPT ![c] = AtRevision(s, @.revision)]
          /\ up' = [up EXCEPT ![c] = Append(@, RestoreMsg(s))]
    /\ clash' = (clash \/ \E m \in Unseen(c) : m.kind # "joinRoom")
    /\ restores' = restores + 1
    /\ UNCHANGED <<server, down, joined, edits>>

Receive(c, kind) ==
    /\ down[c] # <<>>
    /\ Head(down[c]).kind = kind
    /\ down' = [down EXCEPT ![c] = Tail(@)]

OnOperationAck(c) ==
    /\ Receive(c, "operationAck")
    /\ replica' = [replica EXCEPT ![c].revision = Head(down[c]).revision]
    /\ UNCHANGED <<server, up, joined, edits, restores, clash>>

OnOperationBroadcast(c) ==
    /\ Receive(c, "operationBroadcast")
    /\ LET m == Head(down[c])
       IN replica' = [replica EXCEPT ![c] =
                        [ApplyRemote(@, m.op) EXCEPT !.revision = m.revision]]
    /\ UNCHANGED <<server, up, joined, edits, restores, clash>>

OnRoomState(c) ==
    /\ Receive(c, "roomState")
    /\ replica' = [replica EXCEPT ![c] = Head(down[c]).canvas]
    /\ joined' = joined \cup {c}
    /\ UNCHANGED <<server, up, edits, restores, clash>>

OnCanvasRestored(c) ==
    /\ Receive(c, "canvasRestored")
    /\ replica' = [replica EXCEPT ![c] = Head(down[c]).canvas]
    /\ UNCHANGED <<server, up, joined, edits, restores, clash>>

-----------------------------------------------------------------------------
(* The gateway.                                                            *)

\* The server takes the next message of c.  (A client's join or restore waits
\* for the answer to its previous one: the model keeps one answer per client.)
Handle(c, kind) ==
    /\ up[c] # <<>>
    /\ Head(up[c]).kind = kind
    /\ Overlap \/ \A d \in Clients : answering[d] = Nil
    /\ kind = "canvasOperation" \/ answering[c] = Nil
    /\ up' = [up EXCEPT ![c] = Tail(@)]

Unnumbered(c) == c
NumberedOne(c) == AtRevision(c, 1)

\* A canvas with content c becomes the live one.
Successor(c) == AtRevision(c, live.revision + 1)

SendOwn(c, own, others) == down' = [down EXCEPT ![c] = Append(@, own)]

\* socket.emit to c with own, socket.to(room).emit with others.
Send(c, own, others) ==
    down' = [d \in Clients |-> IF d = c THEN Append(down[d], own)
                               ELSE IF d \in inRoom THEN Append(down[d], others)
                               ELSE down[d]]

HandleCanvasOperation(c) ==
    /\ Handle(c, "canvasOperation")
    /\ LET op == Head(up[c]).op
           new == Successor(ApplyOperation(live, op))
       IN  /\ live' = new
           /\ Send(c, Ack(new.revision), Broadcast(op, new.revision))
    /\ UNCHANGED <<inRoom, answering, client>>

Enter(c) == inRoom' = inRoom \cup {c}

\* socket.join, then the live canvas is read, and later sent.
HandleJoinRoom(c) ==
    /\ Handle(c, "joinRoom")
    /\ Enter(c)
    /\ answering' = [answering EXCEPT ![c] = RoomState(live)]
    /\ UNCHANGED <<live, down, client>>

HandleCanvasRestore(c) ==
    /\ Handle(c, "canvasRestore")
    /\ LET new == Successor(Head(up[c]).content)
       IN  /\ live' = new
           /\ answering' = [answering EXCEPT ![c] = CanvasRestored(new)]
    /\ UNCHANGED <<inRoom, down, client>>

Answer(c) ==
    /\ answering[c] # Nil
    /\ LET m == answering[c]
       IN IF m.kind = "roomState"
          THEN down' = [down EXCEPT ![c] = Append(@, m)]
          ELSE Send(c, Ack(m.canvas.revision), m)
    /\ answering' = [answering EXCEPT ![c] = Nil]
    /\ UNCHANGED <<live, inRoom, up, client>>

-----------------------------------------------------------------------------

Init ==
    /\ live = Start
    /\ inRoom = Clients \ LateJoiners
    /\ answering = [c \in Clients |-> Nil]
    /\ up = [c \in Clients |-> IF c \in LateJoiners THEN <<JoinMsg>> ELSE <<>>]
    /\ down = [c \in Clients |-> <<>>]
    /\ replica = [c \in Clients |-> IF c \in LateJoiners THEN EmptyCanvas ELSE Start]
    /\ joined = inRoom
    /\ edits = 0 /\ restores = 0
    /\ clash = FALSE

ClientNext(c) == \/ Edit(c) \/ RestoreSnapshot(c) \/ OnOperationAck(c)
                 \/ OnOperationBroadcast(c) \/ OnRoomState(c) \/ OnCanvasRestored(c)
GatewayNext(c) == \/ HandleCanvasOperation(c) \/ HandleJoinRoom(c)
                  \/ HandleCanvasRestore(c) \/ Answer(c)
Next == \E c \in Clients : ClientNext(c) \/ GatewayNext(c)

Spec == Init /\ [][Next]_vars

-----------------------------------------------------------------------------
(* Properties.                                                             *)

TypeOK ==
    /\ live \in CanvasStateData
    /\ inRoom \subseteq Clients
    /\ joined \subseteq Clients
    /\ replica \in [Clients -> CanvasStateData]
    /\ edits \in 0..MaxEdits /\ restores \in 0..MaxRestores
    /\ clash \in BOOLEAN

\* Nothing is on its way.
Quiet == \A c \in Clients : up[c] = <<>> /\ down[c] = <<>> /\ answering[c] = Nil

\* Once nothing is on its way every client shows the server's canvas (README:17
\* "ensuring everyone converges to the same state").
Converged == Quiet => \A c \in Clients : replica[c] = live

\* The same, unless two users changed one item out of sight of each other.
UnclashingEditsConverge == ~clash => Converged

\* A client never shows an edge without its ends or two items with one id, not
\* even on the way, unless two users changed one item out of sight of each
\* other: messages reach it in an order in which its unchecked updates
\* (useCollaboration.ts:140-179) do what the server's checked ones did.
ReplicasWellFormed == ~clash => \A c \in Clients : WellFormed(replica[c])

\* The revision a client sends with its edits never goes back: acknowledgements,
\* broadcasts, room states and restored canvases reach it in the order of their
\* revisions (useCollaboration.ts:133, 192, 199).
ClientRevisionNeverGoesBack ==
    [][\A c \in Clients : replica'[c].revision >= replica[c].revision]_vars
=============================================================================
