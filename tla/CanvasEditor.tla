---------------------------- MODULE CanvasEditor -----------------------------
(***************************************************************************)
(* One user's canvas on the screen: the handlers of Canvas.tsx and         *)
(* BaseNode.tsx over canvasStore.ts, with what stays open between them: a  *)
(* new edge whose type is being chosen, a context menu, a label being      *)
(* edited, and the flag isApplyingRemote that a broadcast leaves set until *)
(* a timer of 0 ms clears it.  The others in the room are one environment  *)
(* that changes the server's canvas.                                       *)
(*                                                                         *)
(* Edges are a sequence here, because handleConnect takes the last one for *)
(* the new one.                                                            *)
(***************************************************************************)
EXTENDS Canvas, Sequences, SequencesExt

CONSTANTS
    Nil,
    Pending,        \* the type of an edge whose type is not chosen yet
    Blank,          \* a text of white space
    Start,          \* the canvas at the beginning
    RemoteEdits,    \* what the others do
    Restorable,     \* the contents they restore
    MaxOwn, MaxRemote

ASSUME EditorAssumption ==
    /\ Pending \notin EdgeTypes /\ Blank \notin Labels
    /\ Nil \notin [connection : EdgeIds, edge : EdgeIds]
    /\ RemoteEdits \subseteq Operation
    /\ {Start} \cup Restorable \subseteq Content
    /\ \A c \in {Start} \cup Restorable :
          /\ WellFormed(c) /\ IsFiniteSet(c.edges)
          \* Labels come from the catalogue or through sanitizeText (ot.ts:61).  A
          \* manual save can store one as it was typed; it is not among these.
          /\ \A n \in c.nodes : Sanitize[n.label] = n.label
    /\ \A op \in RemoteEdits : op.type = "addNode" => Sanitize[op.node.label] = op.node.label
    /\ MaxOwn \in Nat /\ MaxRemote \in Nat

VARIABLES
    nodes, edges,       \* canvasStore
    applying, timers,   \* isApplyingRemote, and the timers that will clear it
    popup, menu, label, \* pendingConnection, contextMenu, and BaseNode's labelInput
    server, up, down,   \* the live canvas, and the messages on the socket
    used,               \* the ids that nodes have or had: the clock gives new ones
    own, remote,        \* how much the user and the others have done
    past                \* what went wrong in a known way

store == <<nodes, edges>>
flag == <<applying, timers>>
open == <<popup, menu, label>>
room == <<server, down, used, remote>>
vars == <<store, flag, open, room, up, own, past>>

-----------------------------------------------------------------------------
(* canvasStore.ts, over React Flow's addEdge and applyChanges.             *)

EdgeIdsOf(es) == {e.id : e \in ToSet(es)}
NodeIdsOf(c) == {n.id : n \in c.nodes}
Here(id) == \E n \in nodes : n.id = id

\* The entries of a list at some of its places.
Entries(es, places) ==
    LET upto[i \in 0 .. Len(es)] ==
          IF i = 0 THEN <<>>
          ELSE IF i \in places THEN Append(upto[i - 1], es[i]) ELSE upto[i - 1]
    IN  upto[Len(es)]

Without(es, id) == Entries(es, {i \in DOMAIN es : es[i].id # id})
Untouched(es, id) == es
Touches(e, id) == id \in {e.source, e.target}
Detached(es, id) == Entries(es, {i \in DOMAIN es : ~Touches(es[i], id)})
WithoutNode(ns, id) == {n \in ns : n.id # id}
Moved(ns, id, pos) == {IF n.id = id THEN [n EXCEPT !.position = pos] ELSE n : n \in ns}
Labelled(ns, id, text) == {IF n.id = id THEN [n EXCEPT !.label = text] ELSE n : n \in ns}

\* A connection that exists already is not added again.
Connected(es, id, type) == IF id \in EdgeIdsOf(es) THEN es ELSE Append(es, EdgeOf(id, type))

\* The page is a function of the store: the editor of a label goes with its node.
Shows(ns, es) ==
    /\ nodes' = ns /\ edges' = es
    /\ label' = IF label # Nil /\ ~\E n \in ns : n.id = label.node THEN Nil ELSE label

Act == own < MaxOwn /\ own' = own + 1
Note(what) == past' = past \cup what

\* An operation that meets one it has not seen, on one item.
Crosses(op) == \E i \in DOMAIN down : down[i].type = "replace" \/ Clashing(op, down[i])
Crossing(ops) == IF \E i \in DOMAIN ops : Crosses(ops[i]) THEN {"crossed"} ELSE {}

Send(ops) == up' = up \o ops /\ Note(Crossing(ops))
SendUnlessApplying(ops) ==
    IF applying THEN Note({"muted"}) /\ UNCHANGED up ELSE Send(ops)

-----------------------------------------------------------------------------
(* Nodes.  Mouse actions end the editing of a label, close the menu, and   *)
(* do not reach the canvas below an open popup; the delete key does.       *)

Free == popup = Nil /\ menu = Nil /\ label = Nil

\* handleAddNode, handleDrop: the clock gives a new id, the catalogue a label.
AddNodeHere(n) ==
    /\ Free /\ Act
    /\ Sanitize[n.label] = n.label
    /\ n.id \notin used /\ used' = used \cup {n.id}
    /\ Shows(nodes \cup {n}, edges)
    /\ Send(<<[type |-> "addNode", node |-> n]>>)
    /\ UNCHANGED <<flag, popup, menu, server, down, remote>>

\* The end of a drag (handleNodesChange).
DragNode(id, pos) ==
    /\ Free /\ Act /\ Here(id)
    /\ Shows(Moved(nodes, id, pos), edges)
    /\ SendUnlessApplying(<<[type |-> "moveNode", nodeId |-> id, position |-> pos]>>)
    /\ UNCHANGED <<flag, popup, menu, room>>

DeleteEdgeOp(id) == [type |-> "deleteEdge", edgeId |-> id]
DeleteNodeOp(id) == [type |-> "deleteNode", nodeId |-> id]

\* The delete key: React Flow removes the edges of a selected node, then the node.
DeleteSelectedNode(id) ==
    /\ label = Nil /\ Act /\ Here(id)
    /\ LET gone == Entries(edges, {i \in DOMAIN edges : Touches(edges[i], id)})
       IN  SendUnlessApplying([i \in DOMAIN gone |-> DeleteEdgeOp(gone[i].id)]
                              \o <<DeleteNodeOp(id)>>)
    /\ Shows(WithoutNode(nodes, id), Detached(edges, id))
    /\ UNCHANGED <<flag, popup, menu, room>>

DeleteSelectedEdge(id) ==
    /\ label = Nil /\ Act /\ id \in EdgeIdsOf(edges)
    /\ \A e \in ToSet(edges) : e.id = id => e.edgeType # Pending
    /\ SendUnlessApplying(<<DeleteEdgeOp(id)>>)
    /\ Shows(nodes, Without(edges, id))
    /\ UNCHANGED <<flag, popup, menu, room>>

OpenMenu(id) ==
    /\ Free /\ Act /\ (Here(id) \/ id \in EdgeIdsOf(edges))
    /\ menu' = id
    /\ UNCHANGED <<store, flag, popup, label, room, up, past>>

CloseMenu ==
    /\ menu # Nil
    /\ menu' = Nil
    /\ UNCHANGED <<store, flag, popup, label, room, up, own, past>>

\* handleContextMenuDelete: whatever has become of the target.
MenuDelete ==
    /\ menu # Nil
    /\ IF menu \in NodeIds
       THEN /\ Shows(WithoutNode(nodes, menu), Detached(edges, menu))
            /\ Send(<<DeleteNodeOp(menu)>>)
       ELSE /\ Shows(nodes, Without(edges, menu))
            /\ Send(<<DeleteEdgeOp(menu)>>)
    /\ menu' = Nil
    /\ UNCHANGED <<flag, popup, room, own>>

-----------------------------------------------------------------------------
(* Edges.                                                                  *)

\* handleConnect: a pending edge, and the popup for the last edge of the list.
\* When the connection exists, that is an edge that was there before.
Connect(id) ==
    /\ Free /\ Act /\ Here(Ends[id][1]) /\ Here(Ends[id][2])
    /\ edges' = Connected(edges, id, Pending)
    /\ popup' = [connection |-> id, edge |-> Last(edges').id]
    /\ Note(IF id \in EdgeIdsOf(edges) THEN {"connected twice"} ELSE {})
    /\ UNCHANGED <<nodes, flag, menu, label, room, up>>

\* Behind the popup an end of its connection has gone.
Overtaken ==
    IF \A k \in 1..2 : Here(Ends[popup.connection][k]) THEN {} ELSE {"end gone"}

\* handleEdgeTypeSelect: the pending edge gives way to one with its type, which
\* is sent.
SelectEdgeType(type) ==
    /\ popup # Nil
    /\ LET rest == Connected(Without(edges, popup.edge), popup.connection, type)
           sent == [type |-> "addEdge", edge |-> [Last(rest) EXCEPT !.edgeType = type]]
       IN  /\ edges' = rest
           /\ up' = Append(up, sent)
           /\ Note(Crossing(<<sent>>) \cup Overtaken)
    /\ popup' = Nil
    /\ UNCHANGED <<nodes, flag, menu, label, room, own>>

KeepPending(es, id) == es
DropLast(es, id) == IF es = <<>> THEN es ELSE Front(es)
Discarded(es, id) == Without(es, id)

\* A click beside the popup.
ClosePopup ==
    /\ popup # Nil
    /\ edges' = Discarded(edges, popup.edge)
    /\ popup' = Nil
    /\ UNCHANGED <<nodes, flag, menu, label, room, up, own, past>>

-----------------------------------------------------------------------------
(* Labels (BaseNode.tsx).                                                  *)

LabelOf(id) == (CHOOSE n \in nodes : n.id = id).label

StartEdit(id) ==
    /\ Free /\ Act /\ Here(id)
    /\ label' = [node |-> id, text |-> LabelOf(id), typed |-> FALSE]
    /\ UNCHANGED <<store, flag, popup, menu, room, up, past>>

TypeLabel(text) ==
    /\ label # Nil /\ ~label.typed
    /\ label' = [label EXCEPT !.text = text, !.typed = TRUE]
    /\ UNCHANGED <<store, flag, popup, menu, room, up, own, past>>

UnlessBlank == label.text # Blank
Changed == label.text # Blank /\ label.text # LabelOf(label.node)

\* commitEdit, on Enter or when the focus goes: the text as it was when the
\* editing began may be out of date by now.
CommitEdit ==
    /\ label # Nil
    /\ IF Changed
       THEN LET op == [type |-> "updateNode", nodeId |-> label.node, label |-> label.text]
            IN  /\ nodes' = Labelled(nodes, op.nodeId, op.label)
                /\ up' = Append(up, op)
                /\ Note(Crossing(<<op>>) \cup (IF label.typed THEN {} ELSE {"untyped"}))
       ELSE UNCHANGED <<nodes, up, past>>
    /\ label' = Nil
    /\ UNCHANGED <<edges, flag, popup, menu, room, own>>

CancelEdit ==
    /\ label # Nil
    /\ label' = Nil
    /\ UNCHANGED <<store, flag, popup, menu, room, up, own, past>>

-----------------------------------------------------------------------------
(* The socket, the server and the others.                                  *)

HandleOperation ==
    /\ up # <<>>
    /\ server' = ApplyOperation(server, Head(up))
    /\ up' = Tail(up)
    /\ UNCHANGED <<store, flag, open, down, used, remote, own, past>>

CanEdit(s, op) ==
    CASE op.type = "addNode" -> ~HasNode(s, op.node.id)
      [] op.type = "addEdge" -> /\ HasNode(s, op.edge.source) /\ HasNode(s, op.edge.target)
                                /\ ~HasEdge(s, op.edge.id)
      [] op.type = "deleteEdge" -> HasEdge(s, op.edgeId)
      [] OTHER -> HasNode(s, op.nodeId)

OthersEdit ==
    /\ remote < MaxRemote /\ remote' = remote + 1
    /\ \E op \in RemoteEdits :
          /\ CanEdit(server, op)
          /\ op.type = "addNode" => op.node.id \notin used
          /\ used' = IF op.type = "addNode" THEN used \cup {op.node.id} ELSE used
          /\ server' = ApplyOperation(server, op)
          /\ down' = Append(down, op)
          /\ Note(IF \E i \in DOMAIN up : Clashing(op, up[i]) THEN {"crossed"} ELSE {})
    /\ UNCHANGED <<store, flag, open, up, own>>

OthersRestore ==
    /\ remote < MaxRemote /\ remote' = remote + 1
    /\ \E c \in Restorable :
          /\ server' = c
          /\ down' = Append(down, [type |-> "replace", content |-> c])
    /\ Note(IF up = <<>> THEN {} ELSE {"crossed"})
    /\ UNCHANGED <<store, flag, open, up, used, own>>

Message == Head(down)

\* The edge that is being chosen arrives from somebody else.
Doubled(ids) == IF popup # Nil /\ popup.edge \in ids THEN {"edge doubled"} ELSE {}

\* So does a name for the node whose label is being edited.
Renamed(ids) == IF label # Nil /\ label.node \in ids THEN {"renamed"} ELSE {}

\* onOperationBroadcast.
OnOperationBroadcast ==
    /\ down # <<>> /\ Message.type # "replace"
    /\ down' = Tail(down)
    /\ applying' = TRUE /\ timers' = timers + 1
    /\ CASE Message.type = "addEdge" -> Shows(nodes, Append(edges, Message.edge))
         [] Message.type = "deleteEdge" -> Shows(nodes, Without(edges, Message.edgeId))
         [] Message.type = "deleteNode" ->
                Shows(WithoutNode(nodes, Message.nodeId), Detached(edges, Message.nodeId))
         [] Message.type = "addNode" -> Shows(nodes \cup {Message.node}, edges)
         [] Message.type = "moveNode" -> Shows(Moved(nodes, Message.nodeId, Message.position), edges)
         [] Message.type = "updateNode" ->
                Shows(Labelled(nodes, Message.nodeId, Message.label), edges)
    /\ Note(CASE Message.type = "addEdge" -> Doubled({Message.edge.id})
              [] Message.type = "updateNode" -> Renamed({Message.nodeId})
              [] OTHER -> {})
    /\ UNCHANGED <<popup, menu, server, used, remote, up, own>>

StillApplying == applying
Cleared == FALSE

\* setTimeout(..., 0): the first timer of several clears the flag for all.
TimerFires ==
    /\ timers > 0
    /\ timers' = timers - 1
    /\ applying' = Cleared
    /\ UNCHANGED <<store, open, room, up, own, past>>

\* onCanvasRestored, and onRoomState after a reconnect.
OnCanvasReplaced ==
    /\ down # <<>> /\ Message.type = "replace"
    /\ down' = Tail(down)
    /\ Shows(Message.content.nodes, SetToSeq(Message.content.edges))
    /\ Note(Doubled({e.id : e \in Message.content.edges})
            \cup Renamed({n.id : n \in Message.content.nodes}))
    /\ UNCHANGED <<flag, popup, menu, server, used, remote, up, own>>

-----------------------------------------------------------------------------

Init ==
    /\ nodes = Start.nodes /\ edges = SetToSeq(Start.edges)
    /\ applying = FALSE /\ timers = 0
    /\ popup = Nil /\ menu = Nil /\ label = Nil
    /\ server = Start /\ up = <<>> /\ down = <<>>
    /\ used = UNION {NodeIdsOf(c) : c \in {Start} \cup Restorable}
    /\ own = 0 /\ remote = 0 /\ past = {}

Next ==
    \/ \E n \in Node : AddNodeHere(n)
    \/ \E id \in NodeIds : \/ DeleteSelectedNode(id) \/ StartEdit(id)
                           \/ \E pos \in Positions : DragNode(id, pos)
    \/ \E id \in EdgeIds : DeleteSelectedEdge(id) \/ Connect(id)
    \/ \E id \in NodeIds \cup EdgeIds : OpenMenu(id)
    \/ CloseMenu \/ MenuDelete
    \/ \E type \in EdgeTypes : SelectEdgeType(type)
    \/ ClosePopup
    \/ \E text \in Labels \cup {Blank} : TypeLabel(text)
    \/ CommitEdit \/ CancelEdit
    \/ HandleOperation \/ OthersEdit \/ OthersRestore
    \/ OnOperationBroadcast \/ TimerFires \/ OnCanvasReplaced

Spec == Init /\ [][Next]_vars

-----------------------------------------------------------------------------
(* Properties.                                                             *)

\* The page holds nodes and edges, only its own one may be pending, and what is
\* open on it is about something that was there.
TypeOK ==
    /\ nodes \subseteq Node /\ server \in Content
    /\ ToSet(edges) \subseteq Edge \cup {EdgeOf(i, Pending) : i \in EdgeIds}
    /\ popup = Nil \/ popup \in [connection : EdgeIds, edge : EdgeIds]
    /\ menu \in NodeIds \cup EdgeIds \cup {Nil}
    /\ label = Nil \/ Here(label.node)
    /\ timers = 0 => ~applying

Excused(kinds) == past \cap kinds # {}
Known == {"muted", "crossed", "connected twice", "edge doubled", "end gone"}

\* Everything done on the page reaches the server, and everything done by others
\* the page, whatever was open when it came: once no message is on its way they
\* agree.  The known exceptions: a deletion or a move while a broadcast is being
\* applied (useCollaboration.ts:182), two connections of the same handles
\* (Canvas.tsx:171), an edge that loses an end or gets a twin behind its popup,
\* and edits that cross on one item.
PageAgreesWithServer ==
    up = <<>> /\ down = <<>> /\ popup = Nil /\ ~Excused(Known) =>
        /\ {[n EXCEPT !.label = Sanitize[@]] : n \in nodes} = server.nodes
        /\ ToSet(edges) = server.edges /\ IsInjective(edges)

\* A pending edge is on the page only below the popup that was opened for it, and
\* never on the server: choosing a type and dismissing the popup both remove it.
PendingGoesWithItsPopup ==
    /\ \A e \in ToSet(edges) : e.edgeType = Pending => popup # Nil /\ popup.edge = e.id
    /\ \A e \in server.edges : e.edgeType # Pending

\* Closing the popup either way takes no edge away that had its type, whatever
\* came in behind it (Canvas.tsx:171 takes the last edge for the new one).
PopupSparesTypedEdges ==
    [][popup # Nil /\ popup' = Nil /\ ~Excused({"connected twice", "edge doubled"}) =>
          {e \in ToSet(edges) : e.edgeType # Pending} \subseteq ToSet(edges')]_vars

\* Leaving the editor of a label sends a text that was not typed in it only when
\* somebody else renamed the node meanwhile (BaseNode.tsx:115 compares the old
\* text with the new label, and would put the old one back).
OnlyTypedLabelsAreSent == Excused({"untyped"}) => Excused({"renamed"})
=============================================================================
