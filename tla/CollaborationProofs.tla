------------------------- MODULE CollaborationProofs -------------------------
(***************************************************************************)
(* Replicas converge, for any number of clients, edits and restores, when  *)
(* the server handles one request after another.                           *)
(*                                                                         *)
(* What a client will see once it has heard everything that is on its way  *)
(* to it, and what the server will hold once it has taken everything that  *)
(* is on its way from that client, are one canvas (Meet).  An edit is      *)
(* applied at one end of the first way and appended to the second: that it *)
(* still meets is OperationsCommute, message by message.                   *)
(***************************************************************************)
EXTENDS Collaboration, CanvasProofs, SequenceTheorems, TLAPS

-----------------------------------------------------------------------------
(* Messages.                                                               *)

UpMsgs ==
    {OpMsg(op) : op \in Edits} \cup {RestoreMsg(s) : s \in Restorable} \cup {JoinMsg}
Answers ==
    {RoomState(s) : s \in CanvasStateData} \cup {CanvasRestored(s) : s \in CanvasStateData}
DownMsgs ==
    {Ack(n) : n \in Nat} \cup {Broadcast(op, n) : op \in Edits, n \in Nat} \cup Answers

\* The revision a message brings to its client.
RevisionOf(m) ==
    IF m.kind \in {"operationAck", "operationBroadcast"} THEN m.revision ELSE m.canvas.revision

Carries(m) == m.kind \in {"canvasOperation", "operationBroadcast"}

\* What client c will get when the answer m to client d goes out.
Due(c, d, m, room) == m # Nil /\ (c = d \/ (m.kind = "canvasRestored" /\ c \in room))
Share(c, d, m) ==
    IF c = d /\ m.kind = "canvasRestored" THEN Ack(m.canvas.revision) ELSE m

-----------------------------------------------------------------------------
(* Invariants.                                                             *)

TypeInv ==
    /\ TypeOK
    /\ up \in [Clients -> Seq(UpMsgs)]
    /\ down \in [Clients -> Seq(DownMsgs)]
    /\ answering \in [Clients -> Answers \cup {Nil}]

\* One answer is owed at a time, and it holds the canvas as it still is.
SoleAnswer(owed, s) ==
    /\ \A c, d \in Clients : owed[c] # Nil /\ owed[d] # Nil => c = d
    /\ \A c \in Clients : owed[c] # Nil => owed[c].canvas = s

OnlyJoins(q) == \A i \in DOMAIN q : q[i].kind = "joinRoom"

\* A client that is not in the room has nothing but its join on the way; one
\* that is has joined, or its roomState is the first thing it will hear.
Arrived(c, q, p, m, room, there) ==
    /\ c \notin room => q = <<JoinMsg>> /\ p = <<>> /\ m = Nil /\ c \notin there
    /\ c \in room => \A i \in DOMAIN q : q[i].kind # "joinRoom"
    /\ \A i \in DOMAIN p : p[i].kind = "roomState" => i = 1 /\ c \notin there
    /\ m # Nil /\ m.kind = "roomState" => p = <<>> /\ c \notin there

\* Everything c will hear: what is on its way, and its share of the answer owed.
Coming(c, q, owed, room) ==
    IF \E d \in Clients : Due(c, d, owed[d], room)
    THEN LET d == CHOOSE d \in Clients : Due(c, d, owed[d], room)
         IN  Append(q, Share(c, d, owed[d]))
    ELSE q

\* From revision n, the messages of q lead up to revision l.
Climbs(n, q, l) ==
    /\ \A i \in DOMAIN q : n <= RevisionOf(q[i]) /\ RevisionOf(q[i]) <= l
    /\ \A i, j \in DOMAIN q : i < j => RevisionOf(q[i]) <= RevisionOf(q[j])
    /\ IF q = <<>> THEN n = l ELSE RevisionOf(q[Len(q)]) = l

Sequential == ~Overlap

OrderInv ==
    /\ TypeInv
    /\ SoleAnswer(answering, live)
    /\ \A c \in Clients : Arrived(c, up[c], down[c], answering[c], inRoom, joined)
    /\ \A c \in inRoom :
          Climbs(replica[c].revision, Coming(c, down[c], answering, inRoom), live.revision)
    /\ \A c \in Clients \ inRoom : replica[c] = EmptyCanvas

-----------------------------------------------------------------------------
(* The way a canvas takes through a queue of messages.                     *)

Msgs == UpMsgs \cup DownMsgs

\* Revisions aside.
Pure(s) == AtRevision(s, 0)

\* What a message does to the canvas at the end of its way, and when the client,
\* which checks nothing, does the same as the server.
Effect(s, m) ==
    IF Carries(m) THEN ApplyOperation(s, m.op)
    ELSE IF m.kind = "canvasRestore" THEN Pure(m.content)
    ELSE IF m.kind \in {"roomState", "canvasRestored"} THEN Pure(m.canvas)
    ELSE s

Fits(s, m) == Carries(m) => FitsOp(s, m.op)

Path(x, s, q) ==
    /\ x \in [0..Len(q) -> CanvasStateData]
    /\ x[0] = s
    /\ \A i \in 1..Len(q) : Fits(x[i - 1], q[i]) /\ x[i] = Effect(x[i - 1], q[i])

\* From s through p, and from t through q, to one canvas.
Meet(s, p, t, q) ==
    \E x, y : Path(x, s, p) /\ Path(y, t, q) /\ x[Len(p)] = y[Len(q)]

\* Messages that do not touch what op touches.
Harmless(m, op) ==
    /\ m.kind \in {"canvasOperation", "operationBroadcast", "operationAck", "joinRoom"}
    /\ Carries(m) => ~Clashing(op, m.op)

LEMMA MessageTypes ==
    /\ \A m \in Msgs : Carries(m) => m.op \in Edits /\ m.op \in Operation
    /\ \A m \in Msgs : m.kind = "canvasRestore" => m.content \in Content
    /\ \A m \in Msgs : m.kind \in {"roomState", "canvasRestored"} => m.canvas \in CanvasStateData
PROOF
<1>1. Edits \subseteq Operation /\ Restorable \subseteq Content
  BY CollaborationAssumption
<1> QED BY <1>1 DEF Msgs, UpMsgs, DownMsgs, Answers, OpMsg, RestoreMsg, JoinMsg, Ack, Broadcast,
                    RoomState, CanvasRestored, Carries

LEMMA PureType ==
    /\ \A s \in CanvasStateData : Pure(s) \in CanvasStateData /\ Pure(s).revision = 0
    /\ \A c \in Content : Pure(c) \in CanvasStateData
BY DEF Pure, AtRevision, CanvasStateData, Content

LEMMA EffectType ==
    ASSUME NEW s \in CanvasStateData, NEW m \in Msgs
    PROVE  Effect(s, m) \in CanvasStateData
PROOF
<1>1. CASE Carries(m)
  BY <1>1, MessageTypes, ApplyOperationType DEF Effect
<1>2. CASE ~Carries(m)
  BY <1>2, MessageTypes, PureType DEF Effect
<1> QED BY <1>1, <1>2

LEMMA PathStart ==
    ASSUME NEW s \in CanvasStateData
    PROVE  Path([i \in 0..0 |-> s], s, <<>>)
BY DEF Path

LEMMA PathTail ==
    ASSUME NEW q \in Seq(Msgs), q # <<>>, NEW s, NEW x, Path(x, s, q)
    PROVE  /\ Fits(s, Head(q))
           /\ Path([i \in 0..Len(q) - 1 |-> x[i + 1]], Effect(s, Head(q)), Tail(q))
PROOF
<1>1. /\ Len(q) \in Nat /\ Len(q) >= 1 /\ Head(q) = q[1]
      /\ Len(Tail(q)) = Len(q) - 1
      /\ \A i \in 1..Len(q) - 1 : Tail(q)[i] = q[i + 1]
  OBVIOUS
<1>2. Fits(s, Head(q)) /\ x[1] = Effect(s, Head(q))
  BY <1>1 DEF Path
<1> DEFINE y == [i \in 0..Len(q) - 1 |-> x[i + 1]]
<1>3. y \in [0..Len(Tail(q)) -> CanvasStateData] /\ y[0] = Effect(s, Head(q))
  BY <1>1, <1>2 DEF Path
<1>4. ASSUME NEW i \in 1..Len(Tail(q))
      PROVE  Fits(y[i - 1], Tail(q)[i]) /\ y[i] = Effect(y[i - 1], Tail(q)[i])
  <2>1. y[i - 1] = x[i] /\ y[i] = x[i + 1] /\ Tail(q)[i] = q[i + 1] /\ i + 1 \in 1..Len(q)
    BY <1>1
  <2>2. Fits(x[(i + 1) - 1], q[i + 1]) /\ x[i + 1] = Effect(x[(i + 1) - 1], q[i + 1])
    BY <2>1 DEF Path
  <2>3. (i + 1) - 1 = i
    BY <1>1
  <2> QED BY <2>1, <2>2, <2>3
<1> QED BY <1>2, <1>3, <1>4 DEF Path

LEMMA PathAppend ==
    ASSUME NEW q \in Seq(Msgs), NEW s, NEW x, Path(x, s, q),
           NEW m \in Msgs, Fits(x[Len(q)], m)
    PROVE  Path([i \in 0..Len(q) + 1 |-> IF i <= Len(q) THEN x[i] ELSE Effect(x[Len(q)], m)],
                s, Append(q, m))
PROOF
<1>1. Len(q) \in Nat /\ Len(Append(q, m)) = Len(q) + 1
  OBVIOUS
<1>2. /\ \A i \in 1..Len(q) : Append(q, m)[i] = q[i]
      /\ Append(q, m)[Len(q) + 1] = m
  OBVIOUS
<1> DEFINE y == [i \in 0..Len(q) + 1 |-> IF i <= Len(q) THEN x[i] ELSE Effect(x[Len(q)], m)]
<1>3. y \in [0..Len(q) + 1 -> CanvasStateData] /\ y[0] = s
  BY <1>1, EffectType DEF Path
<1>4. ASSUME NEW i \in 1..Len(q) + 1
      PROVE  Fits(y[i - 1], Append(q, m)[i]) /\ y[i] = Effect(y[i - 1], Append(q, m)[i])
  <2>1. CASE i <= Len(q)
    <3>1. y[i - 1] = x[i - 1] /\ y[i] = x[i] /\ Append(q, m)[i] = q[i] /\ i \in 1..Len(q)
      BY <1>1, <1>2, <2>1
    <3> QED BY <3>1 DEF Path
  <2>2. CASE i = Len(q) + 1
    <3>1. y[i - 1] = x[Len(q)] /\ y[i] = Effect(x[Len(q)], m) /\ Append(q, m)[i] = m
      BY <1>1, <1>2, <2>2
    <3> QED BY <3>1
  <2> QED BY <1>1, <2>1, <2>2
<1> QED BY <1>1, <1>3, <1>4 DEF Path

\* An operation applied at the start of a way through harmless messages, with
\* which it commutes, is applied all along it.
LEMMA PathUnder ==
    ASSUME NEW q \in Seq(Msgs), NEW s, NEW x, Path(x, s, q),
           NEW op \in Operation, FitsOp(s, op), \A i \in 1..Len(q) : Harmless(q[i], op)
    PROVE  /\ \A i \in 0..Len(q) : FitsOp(x[i], op)
           /\ Path([i \in 0..Len(q) |-> ApplyOperation(x[i], op)], ApplyOperation(s, op), q)
PROOF
<1>1. Len(q) \in Nat /\ \A i \in 1..Len(q) : q[i] \in Msgs
  OBVIOUS
<1>2. ASSUME NEW i \in 1..Len(q)
      PROVE  /\ x[i - 1] \in CanvasStateData /\ q[i] \in Msgs /\ Harmless(q[i], op)
             /\ Fits(x[i - 1], q[i]) /\ x[i] = Effect(x[i - 1], q[i])
  BY <1>1 DEF Path
<1>3. \A i \in 0..Len(q) : FitsOp(x[i], op)
  <2> DEFINE S == {i \in 0..Len(q) : FitsOp(x[i], op)}
  <2>1. 0 \in S
    BY <1>1 DEF Path
  <2>2. ASSUME NEW i \in 1..Len(q), i - 1 \in S PROVE i \in S
    <3>1. CASE Carries(q[i])
      BY <1>2, <2>2, <3>1, MessageTypes, StillFits DEF Effect, Harmless
    <3>2. CASE ~Carries(q[i])
      <4>1. x[i] = x[i - 1]
        BY <1>2, <3>2 DEF Effect, Harmless
      <4> QED BY <2>2, <4>1
    <3> QED BY <3>1, <3>2
  <2> HIDE DEF S
  <2>3. \A i \in 0..Len(q) : i \in S
    BY <1>1, <2>1, <2>2, UpToN
  <2> QED BY <2>3 DEF S
<1> DEFINE y == [i \in 0..Len(q) |-> ApplyOperation(x[i], op)]
<1>4. y \in [0..Len(q) -> CanvasStateData] /\ y[0] = ApplyOperation(s, op)
  BY <1>1, ApplyOperationType DEF Path
<1>5. ASSUME NEW i \in 1..Len(q)
      PROVE  Fits(y[i - 1], q[i]) /\ y[i] = Effect(y[i - 1], q[i])
  <2>1. y[i - 1] = ApplyOperation(x[i - 1], op) /\ y[i] = ApplyOperation(x[i], op)
    BY <1>1
  <2>2. CASE Carries(q[i])
    <3>1. q[i].op \in Operation /\ ~Clashing(op, q[i].op) /\ ~Clashing(q[i].op, op)
      BY <1>2, <2>2, MessageTypes, ClashingIsSymmetric DEF Harmless
    <3>2. x[i] = ApplyOperation(x[i - 1], q[i].op) /\ FitsOp(x[i - 1], q[i].op)
      BY <1>2, <2>2 DEF Effect, Fits
    <3>3. FitsOp(y[i - 1], q[i].op)
      BY <1>2, <2>1, <3>1, <3>2, StillFits
    <3>4. ~OrderMatters(op, q[i].op)
      BY <3>1 DEF Clashing
    <3>5. y[i] = ApplyOperation(y[i - 1], q[i].op)
      BY <1>2, <2>1, <3>1, <3>2, <3>4, OperationsCommute
    <3> QED BY <2>2, <3>3, <3>5 DEF Fits, Effect
  <2>3. CASE ~Carries(q[i])
    <3>1. x[i] = x[i - 1]
      BY <1>2, <2>3 DEF Effect, Harmless
    <3>2. Effect(y[i - 1], q[i]) = y[i - 1]
      BY <1>2, <2>3 DEF Effect, Harmless
    <3> QED BY <2>1, <2>3, <3>1, <3>2 DEF Fits
  <2> QED BY <2>2, <2>3
<1> QED BY <1>3, <1>4, <1>5 DEF Path

-----------------------------------------------------------------------------
(* Two ways that meet go on meeting.                                       *)

LEMMA MeetSymmetric ==
    ASSUME NEW s, NEW p, NEW t, NEW q, Meet(s, p, t, q)
    PROVE  Meet(t, q, s, p)
BY DEF Meet

LEMMA MeetAtOnce ==
    ASSUME NEW s \in CanvasStateData
    PROVE  Meet(s, <<>>, s, <<>>)
BY PathStart DEF Meet

LEMMA MeetAtLast ==
    ASSUME NEW s, NEW t, Meet(s, <<>>, t, <<>>)
    PROVE  s = t
BY DEF Meet, Path

\* The first message of a way takes effect.
LEMMA MeetHead ==
    ASSUME NEW s, NEW p \in Seq(Msgs), p # <<>>, NEW t, NEW q, Meet(s, p, t, q)
    PROVE  Fits(s, Head(p)) /\ Meet(Effect(s, Head(p)), Tail(p), t, q)
PROOF
<1>1. PICK x, y : Path(x, s, p) /\ Path(y, t, q) /\ x[Len(p)] = y[Len(q)]
  BY DEF Meet
<1>2. /\ Fits(s, Head(p))
      /\ Path([i \in 0..Len(p) - 1 |-> x[i + 1]], Effect(s, Head(p)), Tail(p))
  BY <1>1, PathTail
<1>3. Len(p) \in Nat /\ Len(p) >= 1 /\ Len(Tail(p)) = Len(p) - 1
  OBVIOUS
<1>4. [i \in 0..Len(p) - 1 |-> x[i + 1]][Len(Tail(p))] = x[Len(p)]
  BY <1>3
<1> QED BY <1>1, <1>2, <1>4 DEF Meet

\* An operation at the start of one way and at the end of the other.
LEMMA MeetUnder ==
    ASSUME NEW s, NEW p \in Seq(Msgs), NEW t, NEW q \in Seq(Msgs), Meet(s, p, t, q),
           NEW m \in Msgs, Carries(m), FitsOp(s, m.op),
           \A i \in 1..Len(p) : Harmless(p[i], m.op)
    PROVE  Meet(ApplyOperation(s, m.op), p, t, Append(q, m))
PROOF
<1>1. PICK x, y : Path(x, s, p) /\ Path(y, t, q) /\ x[Len(p)] = y[Len(q)]
  BY DEF Meet
<1>2. Len(p) \in Nat /\ Len(q) \in Nat /\ Len(Append(q, m)) = Len(q) + 1
  OBVIOUS
<1>3. m.op \in Operation
  BY MessageTypes
<1> DEFINE v == [i \in 0..Len(p) |-> ApplyOperation(x[i], m.op)]
           w == [i \in 0..Len(q) + 1 |-> IF i <= Len(q) THEN y[i] ELSE Effect(y[Len(q)], m)]
<1>4. FitsOp(x[Len(p)], m.op) /\ Path(v, ApplyOperation(s, m.op), p)
  BY <1>1, <1>2, <1>3, PathUnder
<1>5. Path(w, t, Append(q, m))
  BY <1>1, <1>4, PathAppend DEF Fits
<1>6. v[Len(p)] = ApplyOperation(x[Len(p)], m.op) /\ w[Len(q) + 1] = Effect(y[Len(q)], m)
  BY <1>2
<1>7. v[Len(p)] = w[Len(Append(q, m))]
  BY <1>1, <1>2, <1>6 DEF Effect
<1> QED BY <1>4, <1>5, <1>7 DEF Meet

\* A message that changes nothing.
LEMMA MeetIdle ==
    ASSUME NEW s, NEW p \in Seq(Msgs), NEW t, NEW q, Meet(s, p, t, q),
           NEW m \in Msgs, m.kind = "operationAck"
    PROVE  Meet(s, Append(p, m), t, q)
PROOF
<1>1. PICK x, y : Path(x, s, p) /\ Path(y, t, q) /\ x[Len(p)] = y[Len(q)]
  BY DEF Meet
<1>2. Len(p) \in Nat /\ Len(Append(p, m)) = Len(p) + 1
  OBVIOUS
<1>3. Fits(x[Len(p)], m) /\ Effect(x[Len(p)], m) = x[Len(p)]
  BY DEF Fits, Effect, Carries
<1> DEFINE w == [i \in 0..Len(p) + 1 |-> IF i <= Len(p) THEN x[i] ELSE Effect(x[Len(p)], m)]
<1>4. Path(w, s, Append(p, m))
  BY <1>1, <1>3, PathAppend
<1>5. w[Len(Append(p, m))] = x[Len(p)]
  BY <1>2, <1>3
<1> QED BY <1>1, <1>4, <1>5 DEF Meet

Replaces(m) == m.kind \in {"canvasRestore", "roomState", "canvasRestored"}

\* A canvas that replaces what a way leads to is met at once.
LEMMA MeetReplaced ==
    ASSUME NEW s, NEW p, NEW t, NEW q \in Seq(Msgs), Meet(s, p, t, q),
           NEW m \in Msgs, Replaces(m), NEW r \in CanvasStateData, r = Effect(s, m)
    PROVE  Meet(r, <<>>, t, Append(q, m))
PROOF
<1>1. PICK y : Path(y, t, q)
  BY DEF Meet
<1>2. Len(q) \in Nat /\ Len(Append(q, m)) = Len(q) + 1
  OBVIOUS
<1>3. Fits(y[Len(q)], m) /\ Effect(y[Len(q)], m) = r
  BY DEF Fits, Effect, Carries, Replaces
<1> DEFINE w == [i \in 0..Len(q) + 1 |-> IF i <= Len(q) THEN y[i] ELSE Effect(y[Len(q)], m)]
           x == [i \in 0..0 |-> r]
<1>4. Path(w, t, Append(q, m))
  BY <1>1, <1>3, PathAppend
<1>5. Path(x, r, <<>>)
  BY PathStart
<1>6. w[Len(Append(q, m))] = r /\ x[Len(<<>>)] = r
  BY <1>2, <1>3
<1> QED BY <1>4, <1>5, <1>6 DEF Meet

-----------------------------------------------------------------------------
(* The client's unchecked update.                                          *)

PlainLabels == \A op \in Edits : op.type = "updateNode" => Sanitize[op.label] = op.label

\* On a well-formed canvas that an operation fits the client does what the server
\* does, whatever the revision.
LEMMA RemoteIsChecked ==
    ASSUME PlainLabels, NEW s \in CanvasStateData, WellFormed(s), NEW op \in Edits, FitsOp(s, op)
    PROVE  ApplyRemote(s, op) = ApplyOperation(s, op)
PROOF
<1>0. op \in Operation
  BY CollaborationAssumption
<1>1. CASE op \in NodeAdditions
  BY <1>1 DEF NodeAdditions, FitsOp, ApplyRemote, ApplyOperation, AddNode
<1>2. CASE op \in NodeDeletions
  <2>1. ApplyRemote(s, op) = [s EXCEPT !.nodes = {n \in @ : n.id # op.nodeId},
                                       !.edges = {e \in @ : op.nodeId \notin {e.source, e.target}}]
    BY <1>2 DEF NodeDeletions, ApplyRemote
  <2>2. ApplyOperation(s, op) = DeleteNode(s, op.nodeId)
    BY <1>2 DEF NodeDeletions, ApplyOperation
  <2>3. CASE HasNode(s, op.nodeId)
    BY <2>1, <2>2, <2>3 DEF DeleteNode, CanvasStateData
  <2>4. CASE ~HasNode(s, op.nodeId)
    <3>1. {n \in s.nodes : n.id # op.nodeId} = s.nodes
      BY <2>4 DEF HasNode
    <3>2. {e \in s.edges : op.nodeId \notin {e.source, e.target}} = s.edges
      BY <2>4 DEF WellFormed, NoDanglingEdges
    <3> QED BY <2>1, <2>2, <2>4, <3>1, <3>2 DEF DeleteNode, CanvasStateData
  <2> QED BY <2>3, <2>4
<1>3. CASE op \in NodeMoves
  BY <1>3 DEF NodeMoves, ApplyRemote
<1>4. CASE op \in NodeUpdates
  <2>1. Sanitize[op.label] = op.label
    BY <1>4 DEF PlainLabels, NodeUpdates
  <2> QED BY <1>4, <2>1 DEF NodeUpdates, ApplyRemote, ApplyOperation, UpdateNode
<1>5. CASE op \in EdgeAdditions
  BY <1>5 DEF EdgeAdditions, FitsOp, ApplyRemote, ApplyOperation, AddEdge
<1>6. CASE op \in EdgeDeletions
  BY <1>6 DEF EdgeDeletions, ApplyRemote
<1> QED BY <1>0, <1>1, <1>2, <1>3, <1>4, <1>5, <1>6
    DEF Operation, NodeMoves, NodeUpdates, NodeAdditions, NodeDeletions, EdgeAdditions, EdgeDeletions

\* Whatever the canvas, it answers one, at the revision it was given.
LEMMA RemoteType ==
    ASSUME NEW s \in CanvasStateData, NEW op \in Operation
    PROVE  ApplyRemote(s, op) \in CanvasStateData /\ ApplyRemote(s, op).revision = s.revision
PROOF
<1>1. CASE op \in NodeAdditions
  BY <1>1 DEF NodeAdditions, ApplyRemote, CanvasStateData
<1>2. CASE op \in NodeDeletions
  BY <1>2 DEF NodeDeletions, ApplyRemote, CanvasStateData
<1>3. CASE op \in NodeMoves
  BY <1>3, ApplyOperationType DEF NodeMoves, ApplyRemote
<1>4. CASE op \in NodeUpdates
  <2>1. \A n \in Node : [n EXCEPT !.label = op.label] \in Node
    BY <1>4 DEF NodeUpdates, Node
  <2> QED BY <1>4, <2>1 DEF NodeUpdates, ApplyRemote, CanvasStateData
<1>5. CASE op \in EdgeAdditions
  BY <1>5 DEF EdgeAdditions, ApplyRemote, CanvasStateData
<1>6. CASE op \in EdgeDeletions
  BY <1>6, ApplyOperationType DEF EdgeDeletions, ApplyRemote
<1> QED BY <1>1, <1>2, <1>3, <1>4, <1>5, <1>6
    DEF Operation, NodeMoves, NodeUpdates, NodeAdditions, NodeDeletions, EdgeAdditions, EdgeDeletions

\* Operations neither read nor write the revision, nor do the conditions on them.
LEMMA RevisionsAside ==
    ASSUME NEW s \in CanvasStateData, NEW rev \in Nat, NEW op \in Operation
    PROVE  /\ AtRevision(s, rev) \in CanvasStateData
           /\ ApplyOperation(AtRevision(s, rev), op) = AtRevision(ApplyOperation(s, op), rev)
           /\ FitsOp(AtRevision(s, rev), op) <=> FitsOp(s, op)
           /\ WellFormed(AtRevision(s, rev)) <=> WellFormed(s)
           /\ AtRevision(s, rev).revision = rev
PROOF
<1>1. /\ AtRevision(s, rev) \in CanvasStateData
      /\ AtRevision(s, rev).nodes = s.nodes
      /\ AtRevision(s, rev).edges = s.edges
      /\ AtRevision(s, rev).revision = rev
  BY DEF AtRevision, CanvasStateData
<1>2. PICK t \in CanvasStateData : /\ t = AtRevision(s, rev)
                                   /\ t.nodes = s.nodes /\ t.edges = s.edges /\ t.revision = rev
  BY <1>1
<1>3. /\ \A id : HasNode(t, id) <=> HasNode(s, id)
      /\ \A id : HasEdge(t, id) <=> HasEdge(s, id)
  BY <1>2 DEF HasNode, HasEdge
<1>4. FitsOp(t, op) <=> FitsOp(s, op)
  BY <1>3 DEF FitsOp
<1>5. WellFormed(t) <=> WellFormed(s)
  BY <1>2, <1>3 DEF WellFormed, UniqueNodeIds, UniqueEdgeIds, NoDanglingEdges
<1>6. PICK u \in CanvasStateData : u = ApplyOperation(s, op)
  BY ApplyOperationType
<1>7. PICK v \in CanvasStateData : v = ApplyOperation(t, op) /\ v.revision = rev
  BY <1>2, ApplyOperationType
<1>8. v.nodes = u.nodes /\ v.edges = u.edges
  <2>1. CASE op \in NodeMoves \cup NodeUpdates
    <3>1. PICK f \in [Node -> Node] : \A w \in CanvasStateData :
             ApplyOperation(w, op) = WithNodes(w, {f[n] : n \in w.nodes})
      BY <2>1, ChangeIsApplied
    <3>2. u = WithNodes(s, {f[n] : n \in s.nodes}) /\ v = WithNodes(t, {f[n] : n \in t.nodes})
      BY <1>6, <1>7, <3>1
    <3> QED BY <1>2, <3>2 DEF WithNodes
  <2>2. CASE op \in NodeAdditions
    <3>1. AddNodeEffect(s, u, op) /\ AddNodeEffect(t, v, op)
      BY <2>2, <1>6, <1>7, EffectsOfTheOthers
    <3> QED BY <1>2, <1>3, <3>1 DEF AddNodeEffect
  <2>3. CASE op \in NodeDeletions
    <3>1. DeleteNodeEffect(s, u, op) /\ DeleteNodeEffect(t, v, op)
      BY <2>3, <1>6, <1>7, EffectsOfTheOthers
    <3> QED BY <1>2, <1>3, <3>1 DEF DeleteNodeEffect
  <2>4. CASE op \in EdgeAdditions
    <3>1. AddEdgeEffect(s, u, op) /\ AddEdgeEffect(t, v, op)
      BY <2>4, <1>6, <1>7, EffectsOfTheOthers
    <3> QED BY <1>2, <1>3, <3>1 DEF AddEdgeEffect
  <2>5. CASE op \in EdgeDeletions
    <3>1. DeleteEdgeEffect(s, u, op) /\ DeleteEdgeEffect(t, v, op)
      BY <2>5, <1>6, <1>7, EffectsOfTheOthers
    <3> QED BY <1>2, <1>3, <3>1 DEF DeleteEdgeEffect
  <2> QED BY <2>1, <2>2, <2>3, <2>4, <2>5
    DEF Operation, NodeMoves, NodeUpdates, NodeAdditions, NodeDeletions, EdgeAdditions, EdgeDeletions
<1>9. v = AtRevision(u, rev)
  BY <1>7, <1>8 DEF AtRevision, CanvasStateData
<1> QED BY <1>1, <1>2, <1>4, <1>5, <1>6, <1>7, <1>9

-----------------------------------------------------------------------------
(* Types.                                                                  *)

LEMMA UpTypes ==
    ASSUME NEW m \in UpMsgs
    PROVE  /\ m.kind \in {"canvasOperation", "canvasRestore", "joinRoom"}
           /\ m.kind = "canvasOperation" => m.op \in Edits /\ m = OpMsg(m.op)
           /\ m.kind = "canvasRestore" => m.content \in Restorable
           /\ m.kind = "joinRoom" => m = JoinMsg
BY DEF UpMsgs, OpMsg, RestoreMsg, JoinMsg

LEMMA DownTypes ==
    ASSUME NEW m \in DownMsgs
    PROVE  /\ m.kind \in {"operationAck", "operationBroadcast", "roomState", "canvasRestored"}
           /\ m.kind = "operationBroadcast" => m.op \in Edits
           /\ m.kind \in {"operationAck", "operationBroadcast"} => m.revision \in Nat
           /\ m.kind \in {"roomState", "canvasRestored"} =>
                 m.canvas \in CanvasStateData /\ m \in Answers
           /\ RevisionOf(m) \in Nat
BY DEF DownMsgs, Answers, Ack, Broadcast, RoomState, CanvasRestored, RevisionOf, CanvasStateData

LEMMA AnswerTypes ==
    /\ Nil \notin Answers
    /\ \A m \in Answers : /\ m \in DownMsgs
                          /\ m.kind \in {"roomState", "canvasRestored"}
                          /\ m.canvas \in CanvasStateData
                          /\ m.canvas.revision \in Nat
    /\ \A s \in CanvasStateData : RoomState(s) \in Answers /\ CanvasRestored(s) \in Answers
    /\ \A n \in Nat : Ack(n) \in DownMsgs
    /\ \A op \in Edits, n \in Nat : Broadcast(op, n) \in DownMsgs
PROOF
<1>1. Nil \notin Answers
  BY CollaborationAssumption DEF Answers, RoomState, CanvasRestored
<1>2. \A m \in Answers : /\ m \in DownMsgs
                         /\ m.kind \in {"roomState", "canvasRestored"}
                         /\ m.canvas \in CanvasStateData
                         /\ m.canvas.revision \in Nat
  BY DEF Answers, DownMsgs, RoomState, CanvasRestored, CanvasStateData
<1> QED BY <1>1, <1>2 DEF Answers, DownMsgs

LEMMA AtRevisionType ==
    ASSUME NEW rev \in Nat
    PROVE  /\ \A s \in CanvasStateData : AtRevision(s, rev) \in CanvasStateData
           /\ \A s \in Content : AtRevision(s, rev) \in CanvasStateData
           /\ \A s : AtRevision(s, rev).revision = rev
BY DEF AtRevision, CanvasStateData, Content

\* Who gets what when the server sends.
LEMMA SendEffect ==
    ASSUME TypeInv, NEW c \in Clients, NEW own \in DownMsgs, NEW others \in DownMsgs,
           Send(c, own, others)
    PROVE  /\ down' \in [Clients -> Seq(DownMsgs)]
           /\ down'[c] = Append(down[c], own)
           /\ \A d \in inRoom \ {c} : down'[d] = Append(down[d], others)
           /\ \A d \in Clients \ (inRoom \cup {c}) : down'[d] = down[d]
PROOF
<1>1. down \in [Clients -> Seq(DownMsgs)] /\ inRoom \subseteq Clients
  BY DEF TypeInv, TypeOK
<1> QED BY <1>1 DEF Send

LEMMA InitType ==
    ASSUME Init PROVE TypeInv
PROOF
<1>1. TypeOK
  <2>1. replica \in [Clients -> CanvasStateData]
    BY EmptyCanvasOK, CollaborationAssumption DEF Init
  <2>2. live \in CanvasStateData /\ inRoom \subseteq Clients /\ joined \subseteq Clients
    BY CollaborationAssumption DEF Init
  <2>3. edits = 0 /\ restores = 0 /\ clash = FALSE
    BY Zenon DEF Init
  <2>4. edits \in 0..MaxEdits /\ restores \in 0..MaxRestores /\ clash \in BOOLEAN
    <3>1. MaxEdits \in Nat /\ MaxRestores \in Nat
      BY CollaborationAssumption
    <3>2. 0 \in 0..MaxEdits /\ 0 \in 0..MaxRestores
      BY <3>1
    <3> QED BY <2>3, <3>2
  <2> QED BY <2>1, <2>2, <2>4 DEF TypeOK
<1>2. up \in [Clients -> Seq(UpMsgs)]
  <2>1. JoinMsg \in UpMsgs
    BY DEF UpMsgs
  <2>2. <<JoinMsg>> \in Seq(UpMsgs) /\ <<>> \in Seq(UpMsgs)
    BY <2>1
  <2> QED BY <2>2 DEF Init
<1>3. down \in [Clients -> Seq(DownMsgs)] /\ answering \in [Clients -> Answers \cup {Nil}]
  BY DEF Init
<1> QED BY <1>1, <1>2, <1>3 DEF TypeInv

LEMMA EditType ==
    ASSUME TypeInv, NEW c \in Clients, Edit(c) PROVE TypeInv'
PROOF
<1>1. PICK op \in Edits : /\ replica' = [replica EXCEPT ![c] = ApplyRemote(@, op)]
                          /\ up' = [up EXCEPT ![c] = Append(@, OpMsg(op))]
                          /\ clash' = (clash \/ ClashesUnseen(c, op))
  BY DEF Edit
<1>2. op \in Operation /\ OpMsg(op) \in UpMsgs
  BY CollaborationAssumption DEF UpMsgs
<1>3. replica' \in [Clients -> CanvasStateData]
  BY <1>1, <1>2, RemoteType DEF TypeInv, TypeOK
<1>4. up' \in [Clients -> Seq(UpMsgs)]
  BY <1>1, <1>2 DEF TypeInv
<1>5. edits' \in 0..MaxEdits
  BY CollaborationAssumption DEF Edit, TypeInv, TypeOK
<1>6. clash' \in BOOLEAN
  BY <1>1
<1> QED BY <1>3, <1>4, <1>5, <1>6 DEF Edit, server, TypeInv, TypeOK

LEMMA RestoreSnapshotType ==
    ASSUME TypeInv, NEW c \in Clients, RestoreSnapshot(c) PROVE TypeInv'
PROOF
<1>1. PICK s \in Restorable : /\ replica' = [replica EXCEPT ![c] = AtRevision(s, @.revision)]
                              /\ up' = [up EXCEPT ![c] = Append(@, RestoreMsg(s))]
  BY DEF RestoreSnapshot
<1>2. s \in Content /\ RestoreMsg(s) \in UpMsgs
  BY CollaborationAssumption DEF UpMsgs
<1>3. replica' \in [Clients -> CanvasStateData]
  BY <1>1, <1>2, AtRevisionType DEF TypeInv, TypeOK, CanvasStateData
<1>4. up' \in [Clients -> Seq(UpMsgs)]
  BY <1>1, <1>2 DEF TypeInv
<1>5. restores' \in 0..MaxRestores
  BY CollaborationAssumption DEF RestoreSnapshot, TypeInv, TypeOK
<1>6. clash' \in BOOLEAN
  BY DEF RestoreSnapshot
<1> QED BY <1>3, <1>4, <1>5, <1>6 DEF RestoreSnapshot, server, TypeInv, TypeOK

\* A client that hears of a message has what its replica makes of it, and the
\* revision the message brings.
Heard(s, m) ==
    IF m.kind = "operationAck" THEN s
    ELSE IF m.kind = "operationBroadcast" THEN ApplyRemote(s, m.op)
    ELSE m.canvas

Hears(c) ==
    /\ down[c] # <<>>
    /\ down' = [down EXCEPT ![c] = Tail(@)]
    /\ replica' = [replica EXCEPT ![c] =
                     AtRevision(Heard(replica[c], Head(down[c])), RevisionOf(Head(down[c])))]
    /\ joined' = IF Head(down[c]).kind = "roomState" THEN joined \cup {c} ELSE joined
    /\ UNCHANGED <<server, up, edits, restores, clash>>

LEMMA HearsOne ==
    ASSUME TypeInv, NEW c \in Clients,
           OnOperationAck(c) \/ OnOperationBroadcast(c) \/ OnRoomState(c) \/ OnCanvasRestored(c)
    PROVE  Hears(c)
PROOF
<1>0. /\ replica[c] \in CanvasStateData /\ replica \in [Clients -> CanvasStateData]
      /\ down[c] \in Seq(DownMsgs)
  BY DEF TypeInv, TypeOK
<1>1. CASE OnOperationAck(c)
  <2>1. replica' = [replica EXCEPT ![c] = [@ EXCEPT !.revision = Head(down[c]).revision]]
    BY <1>1 DEF OnOperationAck
  <2>2. [replica[c] EXCEPT !.revision = Head(down[c]).revision]
           = AtRevision(replica[c], Head(down[c]).revision)
    BY <1>0 DEF AtRevision, CanvasStateData
  <2> QED BY <1>1, <2>1, <2>2 DEF OnOperationAck, Receive, Hears, Heard, RevisionOf
<1>2. CASE OnOperationBroadcast(c)
  <2>1. Head(down[c]).op \in Operation
    BY <1>0, <1>2, DownTypes, CollaborationAssumption DEF OnOperationBroadcast, Receive
  <2>2. ApplyRemote(replica[c], Head(down[c]).op) \in CanvasStateData
    BY <1>0, <2>1, RemoteType
  <2>3. [ApplyRemote(replica[c], Head(down[c]).op) EXCEPT !.revision = Head(down[c]).revision]
           = AtRevision(ApplyRemote(replica[c], Head(down[c]).op), Head(down[c]).revision)
    BY <2>2 DEF AtRevision, CanvasStateData
  <2> QED BY <1>2, <2>3 DEF OnOperationBroadcast, Receive, Hears, Heard, RevisionOf
<1>3. ASSUME Head(down[c]).kind \in {"roomState", "canvasRestored"}, down[c] # <<>>
      PROVE  Head(down[c]).canvas
               = AtRevision(Heard(replica[c], Head(down[c])), RevisionOf(Head(down[c])))
  <2>1. Head(down[c]).canvas \in CanvasStateData
    BY <1>0, <1>3, DownTypes
  <2> QED BY <1>3, <2>1 DEF AtRevision, Heard, RevisionOf, CanvasStateData
<1>4. CASE OnRoomState(c)
  BY <1>3, <1>4 DEF OnRoomState, Receive, Hears
<1>5. CASE OnCanvasRestored(c)
  BY <1>3, <1>5 DEF OnCanvasRestored, Receive, Hears
<1> QED BY <1>1, <1>2, <1>4, <1>5

LEMMA HeardType ==
    ASSUME NEW s \in CanvasStateData, NEW m \in DownMsgs
    PROVE  Heard(s, m) \in CanvasStateData
BY DownTypes, RemoteType, CollaborationAssumption DEF Heard

LEMMA HearsType ==
    ASSUME TypeInv, NEW c \in Clients, Hears(c) PROVE TypeInv'
PROOF
<1>1. Head(down[c]) \in DownMsgs /\ Tail(down[c]) \in Seq(DownMsgs) /\ replica[c] \in CanvasStateData
  BY DEF Hears, TypeInv, TypeOK
<1>2. AtRevision(Heard(replica[c], Head(down[c])), RevisionOf(Head(down[c]))) \in CanvasStateData
  BY <1>1, HeardType, DownTypes, AtRevisionType
<1>3. replica' \in [Clients -> CanvasStateData] /\ down' \in [Clients -> Seq(DownMsgs)]
  BY <1>1, <1>2 DEF Hears, TypeInv, TypeOK
<1> QED BY <1>3 DEF Hears, server, TypeInv, TypeOK

LEMMA HandleEffect ==
    ASSUME TypeInv, NEW c \in Clients, NEW kind, Handle(c, kind)
    PROVE  /\ up[c] # <<>> /\ Head(up[c]) \in UpMsgs /\ Head(up[c]).kind = kind
           /\ Tail(up[c]) \in Seq(UpMsgs)
           /\ up' = [up EXCEPT ![c] = Tail(up[c])]
           /\ up' \in [Clients -> Seq(UpMsgs)]
           /\ Sequential => \A d \in Clients : answering[d] = Nil
PROOF
<1>1. up[c] \in Seq(UpMsgs) /\ up[c] # <<>>
  BY DEF Handle, TypeInv
<1>2. Head(up[c]) \in UpMsgs /\ Tail(up[c]) \in Seq(UpMsgs)
  BY <1>1
<1> QED BY <1>1, <1>2 DEF Handle, TypeInv, Sequential

LEMMA SuccessorType ==
    ASSUME TypeInv
    PROVE  /\ \A s \in CanvasStateData \cup Content : Successor(s) \in CanvasStateData
           /\ \A s : Successor(s).revision = live.revision + 1
           /\ live.revision \in Nat /\ live.revision + 1 \in Nat
PROOF
<1>1. live.revision \in Nat /\ live.revision + 1 \in Nat
  BY DEF TypeInv, TypeOK, CanvasStateData
<1> QED BY <1>1, AtRevisionType DEF Successor

LEMMA HandleCanvasOperationType ==
    ASSUME TypeInv, NEW c \in Clients, HandleCanvasOperation(c) PROVE TypeInv'
PROOF
<1>1. PICK op : op = Head(up[c]).op
  OBVIOUS
<1>2. /\ up' \in [Clients -> Seq(UpMsgs)] /\ op \in Edits /\ op \in Operation
  BY <1>1, HandleEffect, UpTypes, CollaborationAssumption DEF HandleCanvasOperation
<1>3. PICK new : new = Successor(ApplyOperation(live, op))
  OBVIOUS
<1>4. new \in CanvasStateData /\ new.revision \in Nat
  BY <1>2, <1>3, ApplyOperationType, SuccessorType DEF TypeInv, TypeOK
<1>5. live' = new /\ Send(c, Ack(new.revision), Broadcast(op, new.revision))
  BY <1>1, <1>3 DEF HandleCanvasOperation
<1>6. down' \in [Clients -> Seq(DownMsgs)]
  BY <1>2, <1>4, <1>5, SendEffect, AnswerTypes
<1> QED BY <1>2, <1>4, <1>5, <1>6 DEF HandleCanvasOperation, client, TypeInv, TypeOK

LEMMA HandleJoinRoomType ==
    ASSUME TypeInv, NEW c \in Clients, HandleJoinRoom(c) PROVE TypeInv'
PROOF
<1>1. up' \in [Clients -> Seq(UpMsgs)]
  BY HandleEffect DEF HandleJoinRoom
<1>2. answering' \in [Clients -> Answers \cup {Nil}]
  BY AnswerTypes DEF HandleJoinRoom, TypeInv, TypeOK
<1> QED BY <1>1, <1>2 DEF HandleJoinRoom, Enter, client, TypeInv, TypeOK

LEMMA HandleCanvasRestoreType ==
    ASSUME TypeInv, NEW c \in Clients, HandleCanvasRestore(c) PROVE TypeInv'
PROOF
<1>1. PICK new : new = Successor(Head(up[c]).content)
  OBVIOUS
<1>2. up' \in [Clients -> Seq(UpMsgs)] /\ Head(up[c]).content \in Content
  BY HandleEffect, UpTypes, CollaborationAssumption DEF HandleCanvasRestore
<1>3. new \in CanvasStateData
  BY <1>1, <1>2, SuccessorType
<1>4. live' = new /\ answering' = [answering EXCEPT ![c] = CanvasRestored(new)]
  BY <1>1 DEF HandleCanvasRestore
<1>5. answering' \in [Clients -> Answers \cup {Nil}]
  BY <1>3, <1>4, AnswerTypes DEF TypeInv
<1> QED BY <1>2, <1>3, <1>4, <1>5 DEF HandleCanvasRestore, client, TypeInv, TypeOK

LEMMA AnswerEffect ==
    ASSUME TypeInv, NEW c \in Clients, Answer(c)
    PROVE  /\ answering[c] \in Answers /\ answering[c] # Nil
           /\ down' \in [Clients -> Seq(DownMsgs)]
           /\ answering' = [answering EXCEPT ![c] = Nil]
           /\ \A d \in inRoom \cup {c} :
                 down'[d] = IF Due(d, c, answering[c], inRoom)
                            THEN Append(down[d], Share(d, c, answering[c])) ELSE down[d]
           /\ \A d \in Clients \ (inRoom \cup {c}) : down'[d] = down[d]
PROOF
<1>1. answering[c] \in Answers /\ answering[c] # Nil
  BY DEF Answer, TypeInv
<1>2. answering[c] \in DownMsgs /\ Ack(answering[c].canvas.revision) \in DownMsgs
  BY <1>1, AnswerTypes
<1>3. answering' = [answering EXCEPT ![c] = Nil]
  BY DEF Answer
<1>4. down \in [Clients -> Seq(DownMsgs)] /\ inRoom \subseteq Clients
  BY DEF TypeInv, TypeOK
<1>5. CASE answering[c].kind = "roomState"
  <2>1. down' = [down EXCEPT ![c] = Append(@, answering[c])]
    BY <1>5 DEF Answer
  <2>2. /\ Due(c, c, answering[c], inRoom) /\ Share(c, c, answering[c]) = answering[c]
        /\ \A d \in Clients \ {c} : ~Due(d, c, answering[c], inRoom)
    BY <1>1, <1>5 DEF Due, Share
  <2> QED BY <1>1, <1>2, <1>3, <1>4, <2>1, <2>2
<1>6. CASE answering[c].kind # "roomState"
  <2>1. answering[c].kind = "canvasRestored"
    BY <1>1, <1>6, AnswerTypes
  <2>2. Send(c, Ack(answering[c].canvas.revision), answering[c])
    BY <1>6 DEF Answer
  <2>3. /\ Due(c, c, answering[c], inRoom)
        /\ Share(c, c, answering[c]) = Ack(answering[c].canvas.revision)
        /\ \A d \in inRoom \ {c} : /\ Due(d, c, answering[c], inRoom)
                                   /\ Share(d, c, answering[c]) = answering[c]
    BY <1>1, <2>1 DEF Due, Share
  <2>4. /\ down' \in [Clients -> Seq(DownMsgs)]
        /\ down'[c] = Append(down[c], Ack(answering[c].canvas.revision))
        /\ \A d \in inRoom \ {c} : down'[d] = Append(down[d], answering[c])
        /\ \A d \in Clients \ (inRoom \cup {c}) : down'[d] = down[d]
    BY <1>2, <2>2, SendEffect
  <2> QED BY <1>1, <1>3, <2>3, <2>4
<1> QED BY <1>5, <1>6

LEMMA AnswerType ==
    ASSUME TypeInv, NEW c \in Clients, Answer(c) PROVE TypeInv'
PROOF
<1>1. answering' \in [Clients -> Answers \cup {Nil}] /\ down' \in [Clients -> Seq(DownMsgs)]
  BY AnswerEffect DEF TypeInv
<1> QED BY <1>1 DEF Answer, client, TypeInv, TypeOK

\* What a step of the system is.
LEMMA NextCases ==
    ASSUME TypeInv, Next
    PROVE  \E c \in Clients : \/ Edit(c) \/ RestoreSnapshot(c) \/ Hears(c)
                              \/ HandleCanvasOperation(c) \/ HandleJoinRoom(c)
                              \/ HandleCanvasRestore(c) \/ Answer(c)
BY HearsOne DEF Next, ClientNext, GatewayNext

LEMMA TypeStep ==
    ASSUME TypeInv, [Next]_vars PROVE TypeInv'
PROOF
<1>1. CASE Next
  BY <1>1, NextCases, EditType, RestoreSnapshotType, HearsType, HandleCanvasOperationType,
     HandleJoinRoomType, HandleCanvasRestoreType, AnswerType
<1>2. CASE UNCHANGED vars
  BY <1>2 DEF vars, TypeInv, TypeOK
<1> QED BY <1>1, <1>2

\* Every canvas, message and replica is one the code's types describe, through
\* the client's unchecked updates too (useCollaboration.ts:140-199).
THEOREM CollaborationTypes == Spec => []TypeOK
PROOF
<1>1. TypeInv => TypeOK
  BY DEF TypeInv
<1> QED BY <1>1, InitType, TypeStep, PTL DEF Spec

-----------------------------------------------------------------------------
(* What is coming to a client.                                             *)

LEMMA ComingDue ==
    ASSUME NEW c, NEW q, NEW owed, NEW room, NEW s, SoleAnswer(owed, s),
           NEW d \in Clients, Due(c, d, owed[d], room)
    PROVE  Coming(c, q, owed, room) = Append(q, Share(c, d, owed[d]))
PROOF
<1>1. \A e \in Clients : Due(c, e, owed[e], room) => e = d
  BY DEF SoleAnswer, Due
<1>2. (CHOOSE e \in Clients : Due(c, e, owed[e], room)) = d
  BY <1>1
<1> QED BY <1>2 DEF Coming

LEMMA ComingNothing ==
    ASSUME NEW c, NEW q, NEW owed, NEW room, \A d \in Clients : ~Due(c, d, owed[d], room)
    PROVE  Coming(c, q, owed, room) = q
BY DEF Coming

LEMMA ShareType ==
    ASSUME NEW c, NEW d, NEW m \in Answers
    PROVE  Share(c, d, m) \in DownMsgs /\ RevisionOf(Share(c, d, m)) = m.canvas.revision
BY AnswerTypes DEF Share, Ack, RevisionOf

LEMMA ComingIs ==
    ASSUME NEW c, NEW owed \in [Clients -> Answers \cup {Nil}], NEW room
    PROVE  \/ \A q : Coming(c, q, owed, room) = q
           \/ \E m \in DownMsgs : \A q : Coming(c, q, owed, room) = Append(q, m)
PROOF
<1>1. CASE \A d \in Clients : ~Due(c, d, owed[d], room)
  BY <1>1, ComingNothing
<1>2. CASE \E d \in Clients : Due(c, d, owed[d], room)
  <2>1. PICK d \in Clients :
           /\ Due(c, d, owed[d], room)
           /\ d = CHOOSE e \in Clients : Due(c, e, owed[e], room)
    BY <1>2
  <2>2. \A q : Coming(c, q, owed, room) = Append(q, Share(c, d, owed[d]))
    BY <1>2, <2>1 DEF Coming
  <2>3. PICK m \in DownMsgs : m = Share(c, d, owed[d])
    BY <2>1, ShareType DEF Due
  <2> QED BY <2>2, <2>3
<1> QED BY <1>1, <1>2

LEMMA ComingType ==
    ASSUME NEW c, NEW q \in Seq(DownMsgs), NEW owed \in [Clients -> Answers \cup {Nil}], NEW room
    PROVE  Coming(c, q, owed, room) \in Seq(DownMsgs)
PROOF
<1>1. CASE \A p : Coming(c, p, owed, room) = p
  BY <1>1
<1>2. CASE \E m \in DownMsgs : \A p : Coming(c, p, owed, room) = Append(p, m)
  <2>1. PICK m \in DownMsgs : \A p : Coming(c, p, owed, room) = Append(p, m)
    BY <1>2
  <2>2. Append(q, m) \in Seq(DownMsgs)
    OBVIOUS
  <2> QED BY <2>1, <2>2
<1>3. \/ \A p : Coming(c, p, owed, room) = p
      \/ \E m \in DownMsgs : \A p : Coming(c, p, owed, room) = Append(p, m)
  BY ComingIs
<1> QED BY <1>1, <1>2, <1>3

LEMMA ComingHead ==
    ASSUME NEW c, NEW q \in Seq(DownMsgs), q # <<>>,
           NEW owed \in [Clients -> Answers \cup {Nil}], NEW room
    PROVE  Coming(c, q, owed, room) # <<>> /\ Head(Coming(c, q, owed, room)) = Head(q)
PROOF
<1>1. CASE \A p : Coming(c, p, owed, room) = p
  BY <1>1
<1>2. CASE \E m \in DownMsgs : \A p : Coming(c, p, owed, room) = Append(p, m)
  <2>1. PICK m \in DownMsgs : \A p : Coming(c, p, owed, room) = Append(p, m)
    BY <1>2
  <2>2. Append(q, m) # <<>> /\ Head(Append(q, m)) = Head(q)
    OBVIOUS
  <2> QED BY <2>1, <2>2
<1>3. \/ \A p : Coming(c, p, owed, room) = p
      \/ \E m \in DownMsgs : \A p : Coming(c, p, owed, room) = Append(p, m)
  BY ComingIs
<1> QED BY <1>1, <1>2, <1>3

LEMMA ComingTail ==
    ASSUME NEW c, NEW q \in Seq(DownMsgs), q # <<>>,
           NEW owed \in [Clients -> Answers \cup {Nil}], NEW room
    PROVE  Tail(Coming(c, q, owed, room)) = Coming(c, Tail(q), owed, room)
PROOF
<1>1. CASE \A p : Coming(c, p, owed, room) = p
  BY <1>1
<1>2. CASE \E m \in DownMsgs : \A p : Coming(c, p, owed, room) = Append(p, m)
  <2>1. PICK m \in DownMsgs : \A p : Coming(c, p, owed, room) = Append(p, m)
    BY <1>2
  <2>2. Tail(Append(q, m)) = Append(Tail(q), m)
    OBVIOUS
  <2>3. Coming(c, q, owed, room) = Append(q, m) /\ Coming(c, Tail(q), owed, room) = Append(Tail(q), m)
    BY <2>1, Zenon
  <2> QED BY <2>2, <2>3
<1>3. \/ \A p : Coming(c, p, owed, room) = p
      \/ \E m \in DownMsgs : \A p : Coming(c, p, owed, room) = Append(p, m)
  BY ComingIs
<1> QED BY <1>1, <1>2, <1>3

LEMMA ClimbsTail ==
    ASSUME NEW n \in Nat, NEW l \in Nat, NEW q \in Seq(DownMsgs), q # <<>>, Climbs(n, q, l)
    PROVE  n <= RevisionOf(Head(q)) /\ Climbs(RevisionOf(Head(q)), Tail(q), l)
PROOF
<1>1. /\ Head(q) = q[1] /\ Len(q) \in Nat /\ Len(q) >= 1
      /\ Tail(q) \in Seq(DownMsgs) /\ Len(Tail(q)) = Len(q) - 1
      /\ \A i \in 1..Len(q) - 1 : Tail(q)[i] = q[i + 1]
  OBVIOUS
<1>2. n <= RevisionOf(Head(q))
  BY <1>1 DEF Climbs
<1>3. \A i \in DOMAIN Tail(q) : /\ RevisionOf(Head(q)) <= RevisionOf(Tail(q)[i])
                                /\ RevisionOf(Tail(q)[i]) <= l
  <2> TAKE i \in DOMAIN Tail(q)
  <2>1. i \in 1..Len(q) - 1 /\ i + 1 \in 1..Len(q) /\ 1 \in 1..Len(q) /\ 1 < i + 1
    BY <1>1
  <2> QED BY <1>1, <2>1 DEF Climbs
<1>4. \A i, j \in DOMAIN Tail(q) : i < j => RevisionOf(Tail(q)[i]) <= RevisionOf(Tail(q)[j])
  <2> TAKE i, j \in DOMAIN Tail(q)
  <2> HAVE i < j
  <2>1. i \in 1..Len(q) - 1 /\ j \in 1..Len(q) - 1 /\ i + 1 \in 1..Len(q) /\ j + 1 \in 1..Len(q)
        /\ i + 1 < j + 1
    BY <1>1
  <2> QED BY <1>1, <2>1 DEF Climbs
<1>5. IF Tail(q) = <<>> THEN RevisionOf(Head(q)) = l ELSE RevisionOf(Tail(q)[Len(Tail(q))]) = l
  <2>1. RevisionOf(q[Len(q)]) = l
    BY DEF Climbs
  <2>2. CASE Len(q) = 1
    <3>1. Tail(q) = <<>>
      <4>1. Len(Tail(q)) = 0
        BY <1>1, <2>2
      <4> QED BY <1>1, <4>1, EmptySeq
    <3> QED BY <1>1, <2>1, <2>2, <3>1
  <2>3. CASE Len(q) > 1
    <3>1. Len(q) - 1 \in 1..Len(q) - 1 /\ (Len(q) - 1) + 1 = Len(q)
      BY <1>1, <2>3
    <3>2. Tail(q)[Len(Tail(q))] = q[Len(q)]
      BY <1>1, <3>1
    <3>3. Tail(q) # <<>>
      <4> SUFFICES ASSUME Tail(q) = <<>> PROVE FALSE
        OBVIOUS
      <4>1. Len(Tail(q)) = Len(<<>>)
        BY Zenon
      <4>2. Len(<<>>) = 0
        BY EmptySeq
      <4> QED BY <1>1, <2>3, <4>1, <4>2
    <3> QED BY <2>1, <3>2, <3>3
  <2> QED BY <1>1, <2>2, <2>3
<1> QED BY <1>2, <1>3, <1>4, <1>5 DEF Climbs

LEMMA ClimbsAppend ==
    ASSUME NEW n \in Nat, NEW l \in Nat, NEW q \in Seq(DownMsgs), Climbs(n, q, l),
           NEW m \in DownMsgs, NEW top \in Nat, l <= top, RevisionOf(m) = top
    PROVE  Climbs(n, Append(q, m), top)
PROOF
<1>1. /\ Len(q) \in Nat /\ Append(q, m) # <<>> /\ DOMAIN Append(q, m) = 1..Len(q) + 1
      /\ Len(Append(q, m)) = Len(q) + 1 /\ DOMAIN q = 1..Len(q)
      /\ \A i \in 1..Len(q) : Append(q, m)[i] = q[i] /\ q[i] \in DownMsgs
      /\ Append(q, m)[Len(q) + 1] = m
  OBVIOUS
<1>2. n <= l
  <2>1. CASE q = <<>>
    BY <2>1 DEF Climbs
  <2>2. CASE q # <<>>
    <3>1. Len(q) \in 1..Len(q)
      BY <1>1, <2>2
    <3> QED BY <1>1, <3>1 DEF Climbs
  <2> QED BY <2>1, <2>2
<1>3. \A i \in 1..Len(q) : /\ n <= RevisionOf(q[i]) /\ RevisionOf(q[i]) <= l
                           /\ RevisionOf(q[i]) \in Nat
  BY <1>1, DownTypes DEF Climbs
<1>4. \A i \in 1..Len(q) + 1 : /\ n <= RevisionOf(Append(q, m)[i])
                               /\ RevisionOf(Append(q, m)[i]) <= top
  <2> TAKE i \in 1..Len(q) + 1
  <2>1. CASE i \in 1..Len(q)
    BY <1>1, <1>3, <2>1
  <2>2. CASE i = Len(q) + 1
    BY <1>1, <1>2, <2>2
  <2> QED BY <1>1, <2>1, <2>2
<1>5. \A i, j \in 1..Len(q) + 1 :
         i < j => RevisionOf(Append(q, m)[i]) <= RevisionOf(Append(q, m)[j])
  <2> TAKE i, j \in 1..Len(q) + 1
  <2> HAVE i < j
  <2>1. i \in 1..Len(q)
    BY <1>1
  <2>2. CASE j \in 1..Len(q)
    BY <1>1, <2>1, <2>2 DEF Climbs
  <2>3. CASE j = Len(q) + 1
    BY <1>1, <1>3, <2>1, <2>3
  <2> QED BY <1>1, <2>2, <2>3
<1> QED BY <1>1, <1>4, <1>5 DEF Climbs

-----------------------------------------------------------------------------
(* Revisions reach a client in order.                                      *)

\* An edit or a restore of c, with the message it sends.
Adds(c, m) ==
    /\ c \in joined
    /\ m \in UpMsgs /\ m.kind # "joinRoom"
    /\ up' = [up EXCEPT ![c] = Append(@, m)]
    /\ replica'[c].revision = replica[c].revision
    /\ \A d \in Clients \ {c} : replica'[d] = replica[d]
    /\ UNCHANGED <<server, down, joined>>

LEMMA AddsOne ==
    ASSUME TypeInv, NEW c \in Clients, Edit(c) \/ RestoreSnapshot(c)
    PROVE  \E m \in UpMsgs : Adds(c, m)
PROOF
<1>0. replica \in [Clients -> CanvasStateData] /\ replica[c].revision \in Nat
  BY DEF TypeInv, TypeOK, CanvasStateData
<1>1. CASE Edit(c)
  <2>1. PICK op \in Edits : /\ replica' = [replica EXCEPT ![c] = ApplyRemote(@, op)]
                            /\ up' = [up EXCEPT ![c] = Append(@, OpMsg(op))]
    BY <1>1 DEF Edit
  <2>2. OpMsg(op) \in UpMsgs /\ OpMsg(op).kind # "joinRoom"
    BY DEF UpMsgs, OpMsg
  <2>3. replica'[c] = ApplyRemote(replica[c], op) /\ \A d \in Clients \ {c} : replica'[d] = replica[d]
    BY <1>0, <2>1
  <2>4. replica'[c].revision = replica[c].revision
    BY <1>0, <2>3, RemoteType, CollaborationAssumption
  <2> QED BY <1>1, <2>1, <2>2, <2>3, <2>4 DEF Edit, Adds
<1>2. CASE RestoreSnapshot(c)
  <2>1. PICK s \in Restorable : /\ replica' = [replica EXCEPT ![c] = AtRevision(s, @.revision)]
                                /\ up' = [up EXCEPT ![c] = Append(@, RestoreMsg(s))]
    BY <1>2 DEF RestoreSnapshot
  <2>2. RestoreMsg(s) \in UpMsgs /\ RestoreMsg(s).kind # "joinRoom"
    BY DEF UpMsgs, RestoreMsg
  <2>3. /\ replica'[c] = AtRevision(s, replica[c].revision)
        /\ \A d \in Clients \ {c} : replica'[d] = replica[d]
    BY <1>0, <2>1
  <2>4. replica'[c].revision = replica[c].revision
    BY <1>0, <2>3, AtRevisionType
  <2> QED BY <1>2, <2>1, <2>2, <2>3, <2>4 DEF RestoreSnapshot, Adds
<1> QED BY <1>1, <1>2

LEMMA OrderInit ==
    ASSUME Init PROVE OrderInv
PROOF
<1>1. TypeInv
  BY InitType
<1>2. /\ live = Start /\ inRoom = Clients \ LateJoiners /\ joined = inRoom
      /\ answering = [c \in Clients |-> Nil]
      /\ up = [c \in Clients |-> IF c \in LateJoiners THEN <<JoinMsg>> ELSE <<>>]
      /\ down = [c \in Clients |-> <<>>]
      /\ replica = [c \in Clients |-> IF c \in LateJoiners THEN EmptyCanvas ELSE Start]
  BY Zenon DEF Init
<1>3. SoleAnswer(answering, live)
  BY <1>2 DEF SoleAnswer
<1>4. ASSUME NEW c \in Clients
      PROVE  Arrived(c, up[c], down[c], answering[c], inRoom, joined)
  <2>1. /\ down[c] = <<>> /\ answering[c] = Nil
        /\ c \notin inRoom => up[c] = <<JoinMsg>>
        /\ c \in inRoom => up[c] = <<>>
    BY <1>2
  <2> QED BY <1>2, <2>1 DEF Arrived
<1>5. ASSUME NEW c \in inRoom
      PROVE  Climbs(replica[c].revision, Coming(c, down[c], answering, inRoom), live.revision)
  <2>1. \A d \in Clients : ~Due(c, d, answering[d], inRoom)
    BY <1>2 DEF Due
  <2>2. Coming(c, down[c], answering, inRoom) = <<>> /\ replica[c] = live
    BY <1>2, <2>1, ComingNothing
  <2> QED BY <2>2 DEF Climbs
<1>6. \A c \in Clients \ inRoom : replica[c] = EmptyCanvas
  BY <1>2
<1> QED BY <1>1, <1>3, <1>4, <1>5, <1>6 DEF OrderInv

LEMMA OrderAdds ==
    ASSUME OrderInv, TypeInv', NEW c \in Clients, NEW m \in UpMsgs, Adds(c, m)
    PROVE  OrderInv'
PROOF
<1>1. /\ UNCHANGED <<live, inRoom, answering, down, joined>>
      /\ c \in inRoom /\ inRoom \subseteq Clients
  BY DEF Adds, server, OrderInv, Arrived, TypeInv, TypeOK
<1>2. ASSUME NEW d \in Clients
      PROVE  Arrived(d, up'[d], down'[d], answering'[d], inRoom', joined')
  <2>0. Arrived(d, up[d], down[d], answering[d], inRoom, joined) /\ up \in [Clients -> Seq(UpMsgs)]
    BY DEF OrderInv, TypeInv
  <2>1. CASE d = c
    <3>1. up'[d] = Append(up[d], m) /\ m.kind # "joinRoom" /\ up[d] \in Seq(UpMsgs)
      BY <2>0, <2>1 DEF Adds
    <3>2. \A i \in DOMAIN Append(up[d], m) :
             Append(up[d], m)[i] = m \/ (i \in DOMAIN up[d] /\ Append(up[d], m)[i] = up[d][i])
      BY <3>1
    <3> QED BY <1>1, <2>0, <2>1, <3>1, <3>2 DEF Arrived
  <2>2. CASE d # c
    <3>1. up'[d] = up[d]
      BY <2>0, <2>2 DEF Adds
    <3> QED BY <1>1, <2>0, <3>1
  <2> QED BY <2>1, <2>2
<1>3. ASSUME NEW d \in inRoom'
      PROVE  Climbs(replica'[d].revision, Coming(d, down'[d], answering', inRoom'), live'.revision)
  <2>1. replica'[d].revision = replica[d].revision
    BY <1>1 DEF Adds
  <2>2. Climbs(replica[d].revision, Coming(d, down[d], answering, inRoom), live.revision)
    BY <1>1 DEF OrderInv
  <2> QED BY <1>1, <2>1, <2>2
<1>4. \A d \in Clients \ inRoom' : replica'[d] = EmptyCanvas
  BY <1>1 DEF Adds, OrderInv
<1>5. SoleAnswer(answering', live')
  BY <1>1 DEF OrderInv
<1> QED BY <1>2, <1>3, <1>4, <1>5 DEF OrderInv

LEMMA OrderHears ==
    ASSUME OrderInv, TypeInv', NEW c \in Clients, Hears(c)
    PROVE  OrderInv'
PROOF
<1>1. /\ UNCHANGED <<live, inRoom, answering, up>>
      /\ down[c] # <<>> /\ down[c] \in Seq(DownMsgs)
      /\ down'[c] = Tail(down[c]) /\ \A d \in Clients \ {c} : down'[d] = down[d]
      /\ inRoom \subseteq Clients /\ replica[c] \in CanvasStateData
  BY DEF Hears, server, OrderInv, TypeInv, TypeOK
<1>2. c \in inRoom
  BY <1>1 DEF OrderInv, Arrived
<1>3. PICK m \in DownMsgs : m = Head(down[c])
  BY <1>1
<1>4. /\ replica'[c] = AtRevision(Heard(replica[c], m), RevisionOf(m))
      /\ \A d \in Clients \ {c} : replica'[d] = replica[d]
  BY <1>3 DEF Hears, OrderInv, TypeInv, TypeOK
<1>5. ASSUME NEW d \in Clients
      PROVE  Arrived(d, up'[d], down'[d], answering'[d], inRoom', joined')
  <2>0. Arrived(d, up[d], down[d], answering[d], inRoom, joined)
    BY DEF OrderInv
  <2>1. CASE d = c
    <3>1. \A i \in DOMAIN Tail(down[c]) :
             i + 1 \in DOMAIN down[c] /\ Tail(down[c])[i] = down[c][i + 1] /\ i + 1 # 1
      BY <1>1
    <3>2. \A i \in DOMAIN Tail(down[c]) : Tail(down[c])[i].kind # "roomState"
      BY <2>0, <2>1, <3>1 DEF Arrived
    <3>3. answering[c] # Nil => answering[c].kind # "roomState"
      BY <1>1, <2>0, <2>1 DEF Arrived
    <3> QED BY <1>1, <1>2, <2>0, <2>1, <3>2, <3>3 DEF Arrived
  <2>2. CASE d # c
    <3>1. d \in joined' <=> d \in joined
      BY <2>2 DEF Hears
    <3> QED BY <1>1, <2>0, <2>2, <3>1 DEF Arrived
  <2> QED BY <2>1, <2>2
<1>6. ASSUME NEW d \in inRoom'
      PROVE  Climbs(replica'[d].revision, Coming(d, down'[d], answering', inRoom'), live'.revision)
  <2>0. Climbs(replica[d].revision, Coming(d, down[d], answering, inRoom), live.revision)
    BY <1>1 DEF OrderInv
  <2>1. CASE d = c
    <3>1. answering \in [Clients -> Answers \cup {Nil}]
      BY DEF OrderInv, TypeInv
    <3>2. PICK w \in Seq(DownMsgs) :
             /\ w = Coming(c, down[c], answering, inRoom) /\ w # <<>>
             /\ Head(w) = Head(down[c])
             /\ Tail(w) = Coming(c, Tail(down[c]), answering, inRoom)
      BY <1>1, <3>1, ComingType, ComingHead, ComingTail
    <3>3. Head(w) = m
      BY <1>3, <3>2
    <3>4. replica[c].revision \in Nat /\ live.revision \in Nat
      BY <1>1 DEF OrderInv, TypeInv, TypeOK, CanvasStateData
    <3>5. Climbs(RevisionOf(m), Tail(w), live.revision)
      BY <2>0, <2>1, <3>2, <3>3, <3>4, ClimbsTail
    <3>6. replica'[c].revision = RevisionOf(m)
      BY <1>3, <1>4, DownTypes, AtRevisionType
    <3> QED BY <1>1, <2>1, <3>2, <3>5, <3>6
  <2>2. CASE d # c
    <3>1. down'[d] = down[d] /\ replica'[d] = replica[d]
      BY <1>1, <1>4, <2>2
    <3> QED BY <1>1, <2>0, <3>1
  <2> QED BY <2>1, <2>2
<1>7. \A d \in Clients \ inRoom' : replica'[d] = EmptyCanvas
  BY <1>1, <1>2, <1>4 DEF OrderInv
<1>8. SoleAnswer(answering', live')
  BY <1>1 DEF OrderInv
<1> QED BY <1>5, <1>6, <1>7, <1>8 DEF OrderInv

LEMMA OrderOperation ==
    ASSUME Sequential, OrderInv, TypeInv', NEW c \in Clients, HandleCanvasOperation(c)
    PROVE  OrderInv'
PROOF
<1>1. TypeInv /\ Handle(c, "canvasOperation")
  BY DEF OrderInv, HandleCanvasOperation
<1>2. PICK op \in Edits : op = Head(up[c]).op
  BY <1>1, HandleEffect, UpTypes
<1>3. PICK new \in CanvasStateData : new = Successor(ApplyOperation(live, op))
  BY <1>1, <1>2, CollaborationAssumption, ApplyOperationType, SuccessorType DEF TypeInv, TypeOK
<1>4. /\ UNCHANGED <<inRoom, answering, replica, joined>>
      /\ live' = new /\ Send(c, Ack(new.revision), Broadcast(op, new.revision))
      /\ up' = [up EXCEPT ![c] = Tail(up[c])] /\ up[c] # <<>> /\ up[c] \in Seq(UpMsgs)
      /\ Head(up[c]).kind = "canvasOperation" /\ up \in [Clients -> Seq(UpMsgs)]
      /\ \A d \in Clients : answering[d] = Nil
      /\ inRoom \subseteq Clients
      /\ live.revision \in Nat /\ new.revision = live.revision + 1 /\ new.revision \in Nat
      /\ replica \in [Clients -> CanvasStateData]
  BY <1>1, <1>2, <1>3, HandleEffect, SuccessorType DEF HandleCanvasOperation, client, TypeInv, TypeOK
<1>5. c \in inRoom
  <2>1. Head(<<JoinMsg>>).kind = "joinRoom"
    BY DEF JoinMsg
  <2> QED BY <1>4, <2>1 DEF OrderInv, Arrived
<1>6. \A d \in inRoom : \E m \in DownMsgs : /\ down'[d] = Append(down[d], m)
                                           /\ m.kind # "roomState"
                                           /\ RevisionOf(m) = new.revision
  <2>1. Ack(new.revision) \in DownMsgs /\ Broadcast(op, new.revision) \in DownMsgs
    BY <1>4, AnswerTypes
  <2>2. /\ down'[c] = Append(down[c], Ack(new.revision))
        /\ \A d \in inRoom \ {c} : down'[d] = Append(down[d], Broadcast(op, new.revision))
    BY <1>1, <1>4, <2>1, SendEffect
  <2>3. \A m \in {Ack(new.revision), Broadcast(op, new.revision)} :
           m.kind # "roomState" /\ RevisionOf(m) = new.revision
    BY DEF Ack, Broadcast, RevisionOf
  <2> QED BY <2>1, <2>2, <2>3
<1>7. \A d \in Clients \ inRoom : down'[d] = down[d]
  <2>1. Ack(new.revision) \in DownMsgs /\ Broadcast(op, new.revision) \in DownMsgs
    BY <1>4, AnswerTypes
  <2> QED BY <1>1, <1>4, <1>5, <2>1, SendEffect
<1>8. ASSUME NEW d \in Clients
      PROVE  Arrived(d, up'[d], down'[d], answering'[d], inRoom', joined')
  <2>0. Arrived(d, up[d], down[d], answering[d], inRoom, joined) /\ down[d] \in Seq(DownMsgs)
    BY <1>1 DEF OrderInv, TypeInv
  <2>1. d \in inRoom => \A i \in DOMAIN up'[d] : up'[d][i].kind # "joinRoom"
    <3>1. CASE d = c
      <4>1. up'[d] = Tail(up[c]) /\ \A i \in DOMAIN Tail(up[c]) :
               i + 1 \in DOMAIN up[c] /\ Tail(up[c])[i] = up[c][i + 1]
        BY <1>4, <3>1
      <4> QED BY <1>5, <2>0, <3>1, <4>1 DEF Arrived
    <3>2. CASE d # c
      BY <1>4, <2>0, <3>2 DEF Arrived
    <3> QED BY <3>1, <3>2
  <2>2. CASE d \in inRoom
    <3>1. PICK m \in DownMsgs : down'[d] = Append(down[d], m) /\ m.kind # "roomState"
      BY <1>6, <2>2
    <3>2. \A i \in DOMAIN Append(down[d], m) :
             \/ Append(down[d], m)[i] = m
             \/ i \in DOMAIN down[d] /\ Append(down[d], m)[i] = down[d][i]
      BY <2>0
    <3> QED BY <1>4, <2>0, <2>1, <2>2, <3>1, <3>2 DEF Arrived
  <2>3. CASE d \notin inRoom
    <3>1. d # c /\ up'[d] = up[d] /\ down'[d] = down[d]
      BY <1>4, <1>5, <1>7, <2>3
    <3> QED BY <1>4, <2>0, <3>1
  <2> QED BY <2>2, <2>3
<1>9. ASSUME NEW d \in inRoom'
      PROVE  Climbs(replica'[d].revision, Coming(d, down'[d], answering', inRoom'), live'.revision)
  <2>0. d \in inRoom /\ \A e \in Clients : ~Due(d, e, answering[e], inRoom)
    BY <1>4 DEF Due
  <2>1. Climbs(replica[d].revision, down[d], live.revision)
    BY <2>0, ComingNothing DEF OrderInv
  <2>2. PICK m \in DownMsgs : down'[d] = Append(down[d], m) /\ RevisionOf(m) = new.revision
    BY <1>6, <2>0
  <2>3. replica[d].revision \in Nat /\ down[d] \in Seq(DownMsgs)
    BY <1>1, <1>4, <2>0 DEF CanvasStateData, TypeInv
  <2>4. Climbs(replica[d].revision, down'[d], new.revision)
    BY <1>4, <2>1, <2>2, <2>3, ClimbsAppend
  <2>5. Coming(d, down'[d], answering, inRoom) = down'[d]
    BY <2>0, ComingNothing
  <2> QED BY <1>4, <2>4, <2>5
<1>10. \A d \in Clients \ inRoom' : replica'[d] = EmptyCanvas
  BY <1>4 DEF OrderInv
<1>11. SoleAnswer(answering', live')
  BY <1>4 DEF SoleAnswer
<1> QED BY <1>8, <1>9, <1>10, <1>11 DEF OrderInv

LEMMA OrderJoin ==
    ASSUME Sequential, OrderInv, TypeInv', NEW c \in Clients, HandleJoinRoom(c)
    PROVE  OrderInv'
PROOF
<1>1. TypeInv /\ Handle(c, "joinRoom")
  BY DEF OrderInv, HandleJoinRoom
<1>2. PICK m \in Answers : m = RoomState(live)
  BY <1>1, AnswerTypes DEF TypeInv, TypeOK
<1>3. /\ UNCHANGED <<live, down, replica, joined>>
      /\ inRoom' = inRoom \cup {c}
      /\ up' = [up EXCEPT ![c] = Tail(up[c])] /\ up[c] # <<>> /\ up[c] \in Seq(UpMsgs)
      /\ Head(up[c]).kind = "joinRoom" /\ up \in [Clients -> Seq(UpMsgs)]
      /\ \A d \in Clients : answering[d] = Nil
      /\ \A d \in Clients : answering'[d] = IF d = c THEN m ELSE Nil
      /\ inRoom \subseteq Clients
      /\ live.revision \in Nat
      /\ m # Nil /\ m.kind = "roomState" /\ m.canvas = live
  BY <1>1, <1>2, HandleEffect, SuccessorType, AnswerTypes
     DEF HandleJoinRoom, Enter, client, TypeInv, TypeOK, RoomState
<1>4. c \notin inRoom /\ up[c] = <<JoinMsg>> /\ down[c] = <<>> /\ c \notin joined
  <2>1. Head(up[c]) = up[c][1] /\ 1 \in DOMAIN up[c]
    BY <1>3
  <2> QED BY <1>3, <2>1 DEF OrderInv, Arrived
<1>5. ASSUME NEW d \in Clients
      PROVE  Arrived(d, up'[d], down'[d], answering'[d], inRoom', joined')
  <2>0. Arrived(d, up[d], down[d], answering[d], inRoom, joined)
    BY DEF OrderInv
  <2>1. CASE d = c
    <3>1. up'[d] = <<>>
      BY <1>3, <1>4, <2>1
    <3> QED BY <1>3, <1>4, <2>1, <3>1 DEF Arrived
  <2>2. CASE d # c
    <3>1. up'[d] = up[d] /\ answering'[d] = Nil /\ (d \in inRoom' <=> d \in inRoom)
      BY <1>3, <2>2
    <3> QED BY <1>3, <2>0, <3>1 DEF Arrived
  <2> QED BY <2>1, <2>2
<1>6. SoleAnswer(answering', live')
  BY <1>3 DEF SoleAnswer
<1>7. ASSUME NEW d \in inRoom'
      PROVE  Climbs(replica'[d].revision, Coming(d, down'[d], answering', inRoom'), live'.revision)
  <2>1. CASE d = c
    <3>1. Due(c, c, answering'[c], inRoom') /\ Share(c, c, answering'[c]) = m
      BY <1>3 DEF Due, Share
    <3>2. Coming(c, down[c], answering', inRoom') = Append(<<>>, m)
      BY <1>4, <1>6, <3>1, ComingDue
    <3>3. replica[c].revision = 0
      BY <1>4 DEF OrderInv, EmptyCanvas
    <3>4. Climbs(0, <<>>, 0)
      BY DEF Climbs
    <3>5. Climbs(0, Append(<<>>, m), live.revision)
      <4>1. RevisionOf(m) = live.revision /\ m \in DownMsgs
        BY <1>2, <1>3, AnswerTypes DEF RevisionOf
      <4>2. <<>> \in Seq(DownMsgs) /\ 0 \in Nat /\ live.revision \in Nat /\ 0 <= live.revision
        BY <1>3
      <4> QED BY <3>4, <4>1, <4>2, ClimbsAppend
    <3> QED BY <1>3, <2>1, <3>2, <3>3, <3>5
  <2>2. CASE d # c
    <3>1. d \in inRoom /\ \A e \in Clients : ~Due(d, e, answering[e], inRoom)
      BY <1>3, <2>2 DEF Due
    <3>2. \A e \in Clients : ~Due(d, e, answering'[e], inRoom')
      BY <1>3, <2>2 DEF Due
    <3>3. Climbs(replica[d].revision, down[d], live.revision)
      BY <3>1, ComingNothing DEF OrderInv
    <3>4. Coming(d, down[d], answering', inRoom') = down[d]
      BY <3>2, ComingNothing
    <3> QED BY <1>3, <3>3, <3>4
  <2> QED BY <2>1, <2>2
<1>8. \A d \in Clients \ inRoom' : replica'[d] = EmptyCanvas
  BY <1>3 DEF OrderInv
<1> QED BY <1>5, <1>6, <1>7, <1>8 DEF OrderInv

LEMMA OrderRestore ==
    ASSUME Sequential, OrderInv, TypeInv', NEW c \in Clients, HandleCanvasRestore(c)
    PROVE  OrderInv'
PROOF
<1>1. TypeInv /\ Handle(c, "canvasRestore")
  BY DEF OrderInv, HandleCanvasRestore
<1>2. PICK new \in CanvasStateData : new = Successor(Head(up[c]).content)
  BY <1>1, HandleEffect, UpTypes, SuccessorType, CollaborationAssumption
<1>3. PICK m \in Answers : m = CanvasRestored(new)
  BY AnswerTypes
<1>4. /\ UNCHANGED <<inRoom, down, replica, joined>>
      /\ live' = new
      /\ up' = [up EXCEPT ![c] = Tail(up[c])] /\ up[c] # <<>> /\ up[c] \in Seq(UpMsgs)
      /\ Head(up[c]).kind = "canvasRestore" /\ up \in [Clients -> Seq(UpMsgs)]
      /\ \A d \in Clients : answering[d] = Nil
      /\ \A d \in Clients : answering'[d] = IF d = c THEN m ELSE Nil
      /\ inRoom \subseteq Clients /\ down \in [Clients -> Seq(DownMsgs)]
      /\ live.revision \in Nat /\ new.revision = live.revision + 1 /\ new.revision \in Nat
      /\ m # Nil /\ m.kind = "canvasRestored" /\ m.canvas = new
      /\ replica \in [Clients -> CanvasStateData]
  BY <1>1, <1>2, <1>3, HandleEffect, SuccessorType, AnswerTypes
     DEF HandleCanvasRestore, client, TypeInv, TypeOK, CanvasRestored
<1>5. c \in inRoom
  <2>1. Head(<<JoinMsg>>).kind = "joinRoom"
    BY DEF JoinMsg
  <2> QED BY <1>4, <2>1 DEF OrderInv, Arrived
<1>6. ASSUME NEW d \in Clients
      PROVE  Arrived(d, up'[d], down'[d], answering'[d], inRoom', joined')
  <2>0. Arrived(d, up[d], down[d], answering[d], inRoom, joined)
    BY DEF OrderInv
  <2>1. CASE d = c
    <3>1. up'[d] = Tail(up[c]) /\ \A i \in DOMAIN Tail(up[c]) :
             i + 1 \in DOMAIN up[c] /\ Tail(up[c])[i] = up[c][i + 1]
      BY <1>4, <2>1
    <3> QED BY <1>4, <1>5, <2>0, <2>1, <3>1 DEF Arrived
  <2>2. CASE d # c
    <3>1. up'[d] = up[d] /\ answering'[d] = Nil
      BY <1>4, <2>2
    <3> QED BY <1>4, <2>0, <3>1 DEF Arrived
  <2> QED BY <2>1, <2>2
<1>7. SoleAnswer(answering', live')
  BY <1>4 DEF SoleAnswer
<1>8. ASSUME NEW d \in inRoom'
      PROVE  Climbs(replica'[d].revision, Coming(d, down'[d], answering', inRoom'), live'.revision)
  <2>1. d \in inRoom /\ \A e \in Clients : ~Due(d, e, answering[e], inRoom)
    BY <1>4 DEF Due
  <2>2. Climbs(replica[d].revision, down[d], live.revision)
    BY <2>1, ComingNothing DEF OrderInv
  <2>3. Due(d, c, answering'[c], inRoom')
    BY <1>4, <2>1 DEF Due
  <2>4. PICK k \in DownMsgs : k = Share(d, c, m) /\ RevisionOf(k) = new.revision
    BY <1>4, ShareType
  <2>5. Coming(d, down[d], answering', inRoom') = Append(down[d], k)
    BY <1>4, <1>7, <2>3, <2>4, ComingDue
  <2>6. replica[d].revision \in Nat /\ down[d] \in Seq(DownMsgs)
    BY <1>4, <2>1 DEF CanvasStateData
  <2>7. Climbs(replica[d].revision, Append(down[d], k), new.revision)
    BY <1>4, <2>2, <2>4, <2>6, ClimbsAppend
  <2> QED BY <1>4, <2>5, <2>7
<1>9. \A d \in Clients \ inRoom' : replica'[d] = EmptyCanvas
  BY <1>4 DEF OrderInv
<1> QED BY <1>6, <1>7, <1>8, <1>9 DEF OrderInv

\* The answer that was coming is on its way.
LEMMA AnswerGoes ==
    ASSUME OrderInv, NEW c \in Clients, Answer(c)
    PROVE  /\ c \in inRoom /\ inRoom \subseteq Clients
           /\ UNCHANGED <<live, inRoom, up, replica, joined>>
           /\ \A d \in Clients : answering'[d] = Nil
           /\ \A d \in inRoom : down'[d] = Coming(d, down[d], answering, inRoom)
           /\ \A d \in inRoom : Coming(d, down'[d], answering', inRoom') = down'[d]
           /\ \A d \in Clients \ inRoom : down'[d] = down[d]
PROOF
<1>1. TypeInv /\ answering[c] \in Answers /\ answering[c] # Nil
  BY AnswerEffect DEF OrderInv
<1>2. c \in inRoom /\ inRoom \subseteq Clients
  BY <1>1 DEF OrderInv, Arrived, TypeInv, TypeOK
<1>3. UNCHANGED <<live, inRoom, up, replica, joined>>
  BY DEF Answer, client
<1>4. \A d \in Clients \ {c} : answering[d] = Nil
  BY <1>1 DEF OrderInv, SoleAnswer
<1>5. \A d \in Clients : answering'[d] = Nil
  BY <1>1, <1>4, AnswerEffect DEF TypeInv
<1>6. ASSUME NEW d \in inRoom
      PROVE  down'[d] = Coming(d, down[d], answering, inRoom)
  <2>1. CASE Due(d, c, answering[c], inRoom)
    <3>1. Coming(d, down[d], answering, inRoom) = Append(down[d], Share(d, c, answering[c]))
      BY <2>1, ComingDue DEF OrderInv
    <3> QED BY <1>1, <2>1, <3>1, AnswerEffect
  <2>2. CASE ~Due(d, c, answering[c], inRoom)
    <3>1. \A e \in Clients : ~Due(d, e, answering[e], inRoom)
      BY <1>4, <2>2 DEF Due
    <3> QED BY <1>1, <2>2, <3>1, AnswerEffect, ComingNothing
  <2> QED BY <2>1, <2>2
<1>7. \A d \in inRoom : Coming(d, down'[d], answering', inRoom') = down'[d]
  <2>1. \A d, e \in Clients : ~Due(d, e, answering'[e], inRoom')
    BY <1>5 DEF Due
  <2> QED BY <1>2, <2>1, ComingNothing
<1>8. \A d \in Clients \ inRoom : down'[d] = down[d]
  BY <1>1, <1>2, AnswerEffect
<1> QED BY <1>2, <1>3, <1>5, <1>6, <1>7, <1>8

LEMMA OrderAnswer ==
    ASSUME OrderInv, TypeInv', NEW c \in Clients, Answer(c)
    PROVE  OrderInv'
PROOF
<1>1. /\ UNCHANGED <<live, inRoom, up, replica, joined>>
      /\ c \in inRoom /\ inRoom \subseteq Clients
      /\ \A d \in Clients : answering'[d] = Nil
  BY AnswerGoes
<1>2. TypeInv /\ answering[c] \in Answers /\ answering[c] # Nil
  BY AnswerEffect DEF OrderInv
<1>3. ASSUME NEW d \in Clients
      PROVE  Arrived(d, up'[d], down'[d], answering'[d], inRoom', joined')
  <2>0. Arrived(d, up[d], down[d], answering[d], inRoom, joined) /\ down[d] \in Seq(DownMsgs)
    BY <1>2 DEF OrderInv, TypeInv
  <2>1. CASE down'[d] = down[d]
    BY <1>1, <2>0, <2>1 DEF Arrived
  <2>2. CASE down'[d] # down[d]
    <3>1. d \in inRoom \cup {c} /\ Due(d, c, answering[c], inRoom)
      BY <1>2, <2>2, AnswerEffect
    <3>2. PICK m \in DownMsgs : m = Share(d, c, answering[c])
      BY <1>2, ShareType
    <3>3. down'[d] = Append(down[d], m)
      BY <1>2, <3>1, <3>2, AnswerEffect
    <3>4. \A i \in DOMAIN Append(down[d], m) :
             \/ i = Len(down[d]) + 1 /\ Append(down[d], m)[i] = m
             \/ i \in DOMAIN down[d] /\ Append(down[d], m)[i] = down[d][i]
      BY <2>0
    <3>5. CASE m.kind # "roomState"
      BY <1>1, <2>0, <3>1, <3>3, <3>4, <3>5 DEF Arrived
    <3>6. CASE m.kind = "roomState"
      <4>1. d = c /\ answering[c].kind = "roomState"
        BY <1>2, <3>1, <3>2, <3>6, AnswerTypes DEF Due, Share, Ack
      <4>2. down[c] = <<>> /\ c \notin joined
        BY <1>2, <2>0, <4>1 DEF Arrived
      <4>3. \A i \in DOMAIN down'[d] : i = 1
        BY <3>3, <4>1, <4>2
      <4> QED BY <1>1, <2>0, <4>1, <4>2, <4>3 DEF Arrived
    <3> QED BY <3>5, <3>6
  <2> QED BY <2>1, <2>2
<1>4. ASSUME NEW d \in inRoom'
      PROVE  Climbs(replica'[d].revision, Coming(d, down'[d], answering', inRoom'), live'.revision)
  <2>1. d \in inRoom
    BY <1>1
  <2>2. Coming(d, down'[d], answering', inRoom') = Coming(d, down[d], answering, inRoom)
    BY <2>1, AnswerGoes
  <2>3. Climbs(replica[d].revision, Coming(d, down[d], answering, inRoom), live.revision)
    BY <2>1 DEF OrderInv
  <2> QED BY <1>1, <2>2, <2>3
<1>5. SoleAnswer(answering', live')
  BY <1>1 DEF SoleAnswer
<1>6. \A d \in Clients \ inRoom' : replica'[d] = EmptyCanvas
  BY <1>1 DEF OrderInv
<1> QED BY <1>3, <1>4, <1>5, <1>6 DEF OrderInv

LEMMA OrderStep ==
    ASSUME Sequential, OrderInv, [Next]_vars
    PROVE  OrderInv'
PROOF
<1>1. TypeInv /\ TypeInv'
  BY TypeStep DEF OrderInv
<1>2. CASE Next
  BY <1>1, <1>2, NextCases, AddsOne, OrderAdds, OrderHears, OrderOperation, OrderJoin, OrderRestore,
     OrderAnswer
<1>3. CASE UNCHANGED vars
  <2>1. UNCHANGED <<live, inRoom, answering, up, down, replica, joined>>
    BY <1>3 DEF vars
  <2> QED BY <1>1, <2>1 DEF OrderInv
<1> QED BY <1>2, <1>3

\* Under a server that handles one request of a room after another, for any
\* number of clients and whatever they do, the revision a client holds never goes
\* back: acknowledgements, broadcasts, room states and restored canvases reach it
\* in the order in which the server numbered them (useCollaboration.ts:133, 192,
\* 199; canvas.gateway.ts emits them in the order of its awaits).
THEOREM RevisionsClimb == Sequential => (Spec => ClientRevisionNeverGoesBack)
PROOF
<1> SUFFICES ASSUME Sequential PROVE Spec => ClientRevisionNeverGoesBack
  OBVIOUS
<1>1. Init => OrderInv
  BY OrderInit
<1>2. OrderInv /\ [Next]_vars => OrderInv'
  BY OrderStep
<1>3. OrderInv /\ [Next]_vars => [\A c \in Clients : replica'[c].revision >= replica[c].revision]_vars
  <2> SUFFICES ASSUME OrderInv, Next, NEW c \in Clients
               PROVE  replica'[c].revision >= replica[c].revision
    OBVIOUS
  <2>1. TypeInv /\ replica[c].revision \in Nat /\ live.revision \in Nat
    BY DEF OrderInv, TypeInv, TypeOK, CanvasStateData
  <2>2. PICK d \in Clients : \/ Edit(d) \/ RestoreSnapshot(d) \/ Hears(d)
                             \/ HandleCanvasOperation(d) \/ HandleJoinRoom(d)
                             \/ HandleCanvasRestore(d) \/ Answer(d)
    BY <2>1, NextCases
  <2>3. CASE replica'[c].revision = replica[c].revision
    BY <2>1, <2>3
  <2>4. CASE Hears(d)
    <3>1. down[d] \in Seq(DownMsgs) /\ down[d] # <<>> /\ replica \in [Clients -> CanvasStateData]
      BY <2>1, <2>4 DEF Hears, TypeInv, TypeOK
    <3>2. PICK m \in DownMsgs : m = Head(down[d])
      BY <3>1
    <3>3. /\ replica'[d] = AtRevision(Heard(replica[d], m), RevisionOf(m))
          /\ \A e \in Clients \ {d} : replica'[e] = replica[e]
      BY <2>4, <3>1, <3>2 DEF Hears
    <3>4. CASE c = d
      <4>1. c \in inRoom
        BY <3>1, <3>4 DEF OrderInv, Arrived
      <4>2. PICK w \in Seq(DownMsgs) : /\ w = Coming(c, down[c], answering, inRoom)
                                       /\ w # <<>> /\ Head(w) = m
        <5>1. answering \in [Clients -> Answers \cup {Nil}]
          BY <2>1 DEF TypeInv
        <5>2. down[c] \in Seq(DownMsgs) /\ down[c] # <<>> /\ m = Head(down[c])
          BY <3>1, <3>2, <3>4
        <5> QED BY <5>1, <5>2, ComingType, ComingHead
      <4>3. Climbs(replica[c].revision, w, live.revision)
        BY <4>1, <4>2 DEF OrderInv
      <4>4. replica[c].revision <= RevisionOf(m)
        BY <2>1, <4>2, <4>3, ClimbsTail
      <4>5. replica'[c].revision = RevisionOf(m) /\ RevisionOf(m) \in Nat
        BY <3>2, <3>3, <3>4, DownTypes, AtRevisionType
      <4> QED BY <2>1, <4>4, <4>5
    <3>5. CASE c # d
      BY <2>1, <3>3, <3>5
    <3> QED BY <3>4, <3>5
  <2>5. CASE Edit(d) \/ RestoreSnapshot(d)
    <3>1. replica'[c].revision = replica[c].revision
      BY <2>1, <2>5, AddsOne DEF Adds
    <3> QED BY <2>3, <3>1
  <2>6. CASE HandleCanvasOperation(d) \/ HandleJoinRoom(d) \/ HandleCanvasRestore(d) \/ Answer(d)
    <3>1. replica' = replica
      BY <2>6 DEF HandleCanvasOperation, HandleJoinRoom, HandleCanvasRestore, Answer, client
    <3> QED BY <2>3, <3>1
  <2> QED BY <2>2, <2>4, <2>5, <2>6
<1> QED BY <1>1, <1>2, <1>3, PTL DEF Spec, ClientRevisionNeverGoesBack

-----------------------------------------------------------------------------
(* Replicas and the live canvas meet.                                      *)

\* Of the operations on the way from two clients none clashes with the other.
Apart(p, q) ==
    \A i \in DOMAIN p, j \in DOMAIN q :
       Carries(p[i]) /\ Carries(q[j]) => ~Clashing(p[i].op, q[j].op)

\* A client whose restore is on its way, or is not answered.
Restoring(q, m) ==
    \/ m # Nil /\ m.kind = "canvasRestored"
    \/ \E i \in DOMAIN q : q[i].kind = "canvasRestore"

\* What no two clients have on the way while no edits have clashed.
Peace(ups, owed) ==
    \A c, d \in Clients :
       c # d => /\ Apart(ups[c], ups[d])
                /\ Restoring(ups[c], owed[c]) => OnlyJoins(ups[d])

\* Client c and the server are about to agree.
Agreeing(c, r, p, owed, room, s, q) == Meet(Pure(r), Coming(c, p, owed, room), Pure(s), q)

CanvasesOK(p) == \A i \in DOMAIN p : Replaces(p[i]) => WellFormed(p[i].canvas)

Unclashed ==
    /\ \A c \in Clients : WellFormed(replica[c])
    /\ Peace(up, answering)
    /\ \A c \in inRoom : Agreeing(c, replica[c], down[c], answering, inRoom, live, up[c])

ConvInv ==
    /\ OrderInv
    /\ WellFormed(live)
    /\ \A c \in Clients : CanvasesOK(down[c])
    /\ clash \/ Unclashed

LEMMA PurePure ==
    ASSUME NEW n
    PROVE  \A s : Pure(AtRevision(s, n)) = Pure(s)
BY DEF Pure, AtRevision

LEMMA PureWellFormed ==
    ASSUME NEW n \in Nat
    PROVE  /\ \A s \in CanvasStateData : WellFormed(AtRevision(s, n)) <=> WellFormed(s)
           /\ \A s \in Content : WellFormed(AtRevision(s, n)) <=> WellFormed(s)
BY DEF AtRevision, WellFormed, UniqueNodeIds, UniqueEdgeIds, NoDanglingEdges, HasNode

LEMMA PureOperation ==
    ASSUME NEW s \in CanvasStateData, NEW op \in Operation
    PROVE  /\ Pure(ApplyOperation(s, op)) = ApplyOperation(Pure(s), op)
           /\ FitsOp(Pure(s), op) <=> FitsOp(s, op)
BY RevisionsAside DEF Pure

\* What a client makes of a message is what the message stands for.
LEMMA HeardIsEffect ==
    ASSUME PlainLabels, NEW s \in CanvasStateData, WellFormed(s),
           NEW m \in DownMsgs, Fits(Pure(s), m), Replaces(m) => WellFormed(m.canvas)
    PROVE  Pure(Heard(s, m)) = Effect(Pure(s), m) /\ WellFormed(Heard(s, m))
PROOF
<1>1. CASE m.kind = "operationAck"
  BY <1>1 DEF Heard, Effect, Carries
<1>2. CASE m.kind = "operationBroadcast"
  <2>1. Carries(m) /\ m.op \in Edits /\ m.op \in Operation
    BY <1>2, DownTypes, CollaborationAssumption DEF Carries
  <2>2. FitsOp(s, m.op)
    BY <2>1, PureOperation DEF Fits
  <2>3. Heard(s, m) = ApplyOperation(s, m.op)
    BY <1>2, <2>1, <2>2, RemoteIsChecked DEF Heard
  <2>4. Effect(Pure(s), m) = ApplyOperation(Pure(s), m.op)
    BY <2>1 DEF Effect
  <2> QED BY <2>1, <2>3, <2>4, PureOperation, ApplyOperationWellFormed
<1>3. CASE m.kind \in {"roomState", "canvasRestored"}
  <2>1. Heard(s, m) = m.canvas /\ Effect(Pure(s), m) = Pure(m.canvas) /\ Replaces(m)
    BY <1>3 DEF Heard, Effect, Carries, Replaces
  <2> QED BY <2>1
<1> QED BY <1>1, <1>2, <1>3, DownTypes

LEMMA TailsParts ==
    ASSUME NEW S, NEW q \in Seq(S), q # <<>>
    PROVE  \A i \in DOMAIN Tail(q) : i + 1 \in DOMAIN q /\ Tail(q)[i] = q[i + 1]
OBVIOUS

\* There is peace while messages are taken off the ways...
LEMMA PeaceShrinks ==
    ASSUME NEW ups, NEW owed, NEW ups2, NEW owed2, Peace(ups, owed),
           \A c \in Clients : \A i \in DOMAIN ups2[c] : \E j \in DOMAIN ups[c] : ups2[c][i] = ups[c][j],
           \A c \in Clients : Restoring(ups2[c], owed2[c]) => Restoring(ups[c], owed[c])
    PROVE  Peace(ups2, owed2)
PROOF
<1> SUFFICES ASSUME NEW c \in Clients, NEW d \in Clients, c # d
             PROVE  /\ Apart(ups2[c], ups2[d])
                    /\ Restoring(ups2[c], owed2[c]) => OnlyJoins(ups2[d])
  BY DEF Peace
<1>1. Apart(ups[c], ups[d]) /\ (Restoring(ups[c], owed[c]) => OnlyJoins(ups[d]))
  BY DEF Peace
<1>2. Apart(ups2[c], ups2[d])
  BY <1>1 DEF Apart
<1>3. Restoring(ups2[c], owed2[c]) => OnlyJoins(ups2[d])
  BY <1>1 DEF OnlyJoins
<1> QED BY <1>2, <1>3

LEMMA PeaceTail ==
    ASSUME NEW ups \in [Clients -> Seq(UpMsgs)], NEW owed, NEW c \in Clients, ups[c] # <<>>,
           NEW owed2, Peace(ups, owed),
           NEW ups2, ups2[c] = Tail(ups[c]), \A d \in Clients \ {c} : ups2[d] = ups[d],
           \A d \in Clients : owed2[d] # Nil /\ owed2[d].kind = "canvasRestored" =>
                                 Restoring(ups[d], owed[d])
    PROVE  Peace(ups2, owed2)
PROOF
<1>1. ASSUME NEW d \in Clients, NEW i \in DOMAIN ups2[d]
      PROVE  \E j \in DOMAIN ups[d] : ups2[d][i] = ups[d][j]
  <2>1. CASE d = c
    <3>1. ups2[d] = Tail(ups[c]) /\ ups[c] \in Seq(UpMsgs)
      BY <2>1
    <3>2. i \in DOMAIN Tail(ups[c])
      BY <3>1
    <3>3. i + 1 \in DOMAIN ups[c] /\ Tail(ups[c])[i] = ups[c][i + 1]
      BY <3>1, <3>2, TailsParts
    <3> QED BY <2>1, <3>1, <3>3
  <2>2. CASE d # c
    BY <2>2
  <2> QED BY <2>1, <2>2
<1>2. \A d \in Clients : Restoring(ups2[d], owed2[d]) => Restoring(ups[d], owed[d])
  BY <1>1 DEF Restoring
<1>3. \A d \in Clients : \A i \in DOMAIN ups2[d] : \E j \in DOMAIN ups[d] : ups2[d][i] = ups[d][j]
  BY <1>1
<1> QED BY <1>2, <1>3, PeaceShrinks, Zenon

\* ...and while only what does not clash is added to them.
LEMMA PeaceAdds ==
    ASSUME NEW ups \in [Clients -> Seq(UpMsgs)], NEW owed, NEW c \in Clients, NEW m \in UpMsgs,
           Peace(ups, owed),
           NEW ups2, ups2 = [ups EXCEPT ![c] = Append(@, m)],
           \A d \in Clients \ {c} : ~Restoring(ups[d], owed[d]),
           m.kind = "canvasRestore" => \A d \in Clients \ {c} : OnlyJoins(ups[d]),
           \A d \in Clients \ {c} : \A i \in DOMAIN ups[d] :
              Carries(m) /\ Carries(ups[d][i]) => ~Clashing(m.op, ups[d][i].op)
    PROVE  Peace(ups2, owed)
PROOF
<1>1. /\ ups[c] \in Seq(UpMsgs) /\ ups2[c] = Append(ups[c], m)
      /\ \A d \in Clients \ {c} : ups2[d] = ups[d]
  OBVIOUS
<1>2. \A i \in DOMAIN Append(ups[c], m) :
         \/ Append(ups[c], m)[i] = m
         \/ i \in DOMAIN ups[c] /\ Append(ups[c], m)[i] = ups[c][i]
  BY <1>1
<1>3. ASSUME NEW d \in Clients \ {c}
      PROVE  Apart(ups2[c], ups2[d]) /\ Apart(ups2[d], ups2[c])
  <2>1. Apart(ups[c], ups[d])
    BY DEF Peace
  <2>2. Apart(ups2[c], ups2[d])
    BY <1>1, <1>2, <2>1 DEF Apart
  <2> QED BY <2>2, ClashingIsSymmetric DEF Apart
<1>4. ASSUME NEW d \in Clients \ {c}, Restoring(ups2[c], owed[c])
      PROVE  OnlyJoins(ups2[d])
  <2>1. CASE m.kind = "canvasRestore"
    BY <1>1, <2>1
  <2>2. CASE m.kind # "canvasRestore"
    <3>1. Restoring(ups[c], owed[c])
      BY <1>1, <1>2, <1>4, <2>2 DEF Restoring
    <3> QED BY <1>1, <3>1 DEF Peace
  <2> QED BY <2>1, <2>2
<1>5. \A d \in Clients \ {c} : ~Restoring(ups2[d], owed[d])
  BY <1>1
<1>6. \A d, e \in Clients \ {c} : d # e => Apart(ups2[d], ups2[e])
  BY <1>1 DEF Peace
<1> QED BY <1>3, <1>4, <1>5, <1>6 DEF Peace

LEMMA ConvInit ==
    ASSUME Init PROVE ConvInv
PROOF
<1>1. OrderInv
  BY OrderInit
<1>2. /\ live = Start /\ inRoom = Clients \ LateJoiners
      /\ answering = [c \in Clients |-> Nil]
      /\ up = [c \in Clients |-> IF c \in LateJoiners THEN <<JoinMsg>> ELSE <<>>]
      /\ down = [c \in Clients |-> <<>>]
      /\ replica = [c \in Clients |-> IF c \in LateJoiners THEN EmptyCanvas ELSE Start]
  BY Zenon DEF Init
<1>3. WellFormed(Start) /\ WellFormed(EmptyCanvas) /\ Start \in CanvasStateData
  BY WellFormedAssumption, EmptyCanvasOK, CollaborationAssumption
<1>4. \A c \in Clients : CanvasesOK(down[c])
  BY <1>2 DEF CanvasesOK
<1>5. \A c \in Clients : WellFormed(replica[c])
  BY <1>2, <1>3
<1>6. Peace(up, answering)
  <2>1. \A c \in Clients : \A i \in DOMAIN up[c] : up[c][i].kind = "joinRoom"
    <3> TAKE c \in Clients
    <3>1. up[c] = <<JoinMsg>> \/ up[c] = <<>>
      BY <1>2
    <3> QED BY <3>1 DEF JoinMsg
  <2>2. \A c \in Clients : answering[c] = Nil
    BY <1>2
  <2> QED BY <2>1, <2>2 DEF Peace, Apart, Restoring, Carries
<1>7. ASSUME NEW c \in inRoom
      PROVE  Agreeing(c, replica[c], down[c], answering, inRoom, live, up[c])
  <2>1. \A d \in Clients : ~Due(c, d, answering[d], inRoom)
    BY <1>2 DEF Due
  <2>2. Coming(c, down[c], answering, inRoom) = <<>> /\ replica[c] = live /\ up[c] = <<>>
    BY <1>2, <2>1, ComingNothing
  <2>3. Pure(live) \in CanvasStateData
    BY <1>2, <1>3, PureType
  <2> QED BY <2>2, <2>3, MeetAtOnce DEF Agreeing
<1> QED BY <1>1, <1>2, <1>3, <1>4, <1>5, <1>6, <1>7 DEF ConvInv, Unclashed

LEMMA UnseenAre ==
    ASSUME NEW c \in Clients
    PROVE  /\ \A i \in DOMAIN down[c] : down[c][i] \in Unseen(c)
           /\ \A d \in Clients \ {c} : answering[d] # Nil => answering[d] \in Unseen(c)
           /\ \A d \in Clients \ {c} : \A i \in DOMAIN up[d] : up[d][i] \in Unseen(c)
PROOF
<1> DEFINE Out(d) == {up[d][i] : i \in DOMAIN up[d]}
<1>1. PICK outs, owed, in :
         /\ outs = {Out(d) : d \in Clients \ {c}}
         /\ owed = {answering[d] : d \in Clients \ {c}}
         /\ in = {down[c][i] : i \in DOMAIN down[c]}
  OBVIOUS
<1>2. Unseen(c) = (UNION outs) \cup (owed \ {Nil}) \cup in
  BY <1>1 DEF Unseen
<1>3. \A i \in DOMAIN down[c] : down[c][i] \in in
  BY <1>1
<1>4. \A d \in Clients \ {c} : answering[d] \in owed
  BY <1>1
<1>5. \A d \in Clients \ {c} : Out(d) \in outs /\ \A i \in DOMAIN up[d] : up[d][i] \in Out(d)
  BY <1>1
<1> HIDE DEF Out
<1>6. \A d \in Clients \ {c} : \A i \in DOMAIN up[d] : up[d][i] \in UNION outs
  BY <1>5
<1>7. /\ \A x \in UNION outs : x \in Unseen(c)
      /\ \A x \in owed : x # Nil => x \in Unseen(c)
      /\ \A x \in in : x \in Unseen(c)
  <2>1. \A x : x \in Unseen(c) <=> x \in UNION outs \/ (x \in owed /\ x \notin {Nil}) \/ x \in in
    BY <1>2, Zenon
  <2> QED BY <2>1, Zenon
<1> QED BY <1>3, <1>4, <1>6, <1>7, Zenon

\* What others have on the way to c, and to the server, while c edits without
\* clashing with it.
LEMMA EditSeesAll ==
    ASSUME NEW c \in Clients, NEW op, ~ClashesUnseen(c, op)
    PROVE  /\ \A i \in DOMAIN down[c] : /\ down[c][i].kind # "canvasRestored"
                                        /\ Carries(down[c][i]) => ~Clashing(op, down[c][i].op)
           /\ \A d \in Clients \ {c} :
                 /\ answering[d] # Nil => answering[d].kind # "canvasRestored"
                 /\ \A i \in DOMAIN up[d] : /\ up[d][i].kind # "canvasRestore"
                                            /\ Carries(up[d][i]) => ~Clashing(op, up[d][i].op)
PROOF
<1>1. \A m \in Unseen(c) : /\ Carries(m) => ~Clashing(op, m.op)
                          /\ m.kind \notin {"canvasRestore", "canvasRestored"}
  BY DEF ClashesUnseen, Carries
<1>2. \A i \in DOMAIN down[c] : down[c][i] \in Unseen(c)
  BY UnseenAre
<1>3. \A d \in Clients \ {c} : answering[d] # Nil => answering[d] \in Unseen(c)
  BY UnseenAre
<1>4. \A d \in Clients \ {c} : \A i \in DOMAIN up[d] : up[d][i] \in Unseen(c)
  BY UnseenAre
<1> QED BY <1>1, <1>2, <1>3, <1>4

LEMMA RestoreSeesAll ==
    ASSUME TypeInv, NEW c \in Clients, \A m \in Unseen(c) : m.kind = "joinRoom"
    PROVE  /\ down[c] = <<>>
           /\ \A d \in Clients \ {c} : answering[d] = Nil /\ OnlyJoins(up[d])
PROOF
<1>1. down[c] = <<>>
  <2> SUFFICES ASSUME down[c] # <<>> PROVE FALSE
    OBVIOUS
  <2>1. 1 \in DOMAIN down[c] /\ down[c][1] \in DownMsgs
    BY DEF TypeInv
  <2>2. down[c][1] \in Unseen(c)
    BY <2>1, UnseenAre
  <2> QED BY <2>1, <2>2, DownTypes
<1>2. ASSUME NEW d \in Clients \ {c} PROVE answering[d] = Nil
  <2> SUFFICES ASSUME answering[d] # Nil PROVE FALSE
    OBVIOUS
  <2>1. answering[d] \in Answers /\ answering[d] \in Unseen(c)
    BY UnseenAre DEF TypeInv
  <2> QED BY <2>1, AnswerTypes
<1>3. \A d \in Clients \ {c} : \A i \in DOMAIN up[d] : up[d][i] \in Unseen(c)
  BY UnseenAre
<1> QED BY <1>1, <1>2, <1>3 DEF OnlyJoins

\* What is coming to c in its own answer and all it has on the way.
LEMMA ComingFrom ==
    ASSUME OrderInv, NEW c \in Clients, NEW q
    PROVE  \/ Coming(c, q, answering, inRoom) = q
           \/ \E d \in Clients : /\ answering[d] \in Answers
                                 /\ d # c => answering[d].kind = "canvasRestored"
                                 /\ Coming(c, q, answering, inRoom)
                                       = Append(q, Share(c, d, answering[d]))
PROOF
<1>1. CASE \A d \in Clients : ~Due(c, d, answering[d], inRoom)
  BY <1>1, ComingNothing
<1>2. CASE \E d \in Clients : Due(c, d, answering[d], inRoom)
  <2>1. PICK d \in Clients : Due(c, d, answering[d], inRoom)
    BY <1>2
  <2>2. Coming(c, q, answering, inRoom) = Append(q, Share(c, d, answering[d]))
    BY <2>1, ComingDue DEF OrderInv
  <2>3. answering[d] \in Answers
    BY <2>1 DEF Due, OrderInv, TypeInv
  <2> QED BY <2>1, <2>2, <2>3 DEF Due
<1> QED BY <1>1, <1>2

LEMMA ConvEdit ==
    ASSUME PlainLabels, ConvInv, OrderInv', NEW c \in Clients, Edit(c)
    PROVE  ConvInv'
PROOF
<1>1. PICK op \in Edits : /\ CanEdit(replica[c], op)
                          /\ replica' = [replica EXCEPT ![c] = ApplyRemote(@, op)]
                          /\ up' = [up EXCEPT ![c] = Append(@, OpMsg(op))]
                          /\ clash' = (clash \/ ClashesUnseen(c, op))
  BY DEF Edit
<1>2. /\ UNCHANGED <<live, inRoom, answering, down>> /\ c \in joined /\ c \in inRoom
      /\ inRoom \subseteq Clients /\ OrderInv /\ TypeInv
      /\ up \in [Clients -> Seq(UpMsgs)] /\ replica \in [Clients -> CanvasStateData]
      /\ live \in CanvasStateData
      /\ answering \in [Clients -> Answers \cup {Nil}] /\ down[c] \in Seq(DownMsgs)
  BY DEF Edit, server, ConvInv, OrderInv, Arrived, TypeInv, TypeOK
<1>3. op \in Operation /\ OpMsg(op) \in UpMsgs /\ Carries(OpMsg(op)) /\ OpMsg(op).op = op
      /\ OpMsg(op).kind = "canvasOperation"
  BY CollaborationAssumption DEF UpMsgs, OpMsg, Carries
<1>4. (WellFormed(live) /\ \A d \in Clients : CanvasesOK(down[d]))'
  BY <1>2 DEF ConvInv
<1>5. ASSUME ~clash, ~ClashesUnseen(c, op)
      PROVE  Unclashed'
  <2>0. Unclashed
    BY <1>5 DEF ConvInv
  <2>1. FitsOp(replica[c], op) /\ FitsOp(Pure(replica[c]), op)
    <3>1. FitsOp(replica[c], op)
      BY <1>1, <1>3 DEF CanEdit, FitsOp
    <3> QED BY <1>2, <1>3, <3>1, PureOperation
  <2>2. WellFormed(replica[c])
    BY <2>0 DEF Unclashed
  <2>3. /\ replica'[c] = ApplyOperation(replica[c], op)
        /\ \A d \in Clients \ {c} : replica'[d] = replica[d]
    BY <1>1, <1>2, <2>1, <2>2, RemoteIsChecked
  <2>4. \A d \in Clients : WellFormed(replica'[d])
    <3>1. WellFormed(replica'[c])
      BY <1>2, <1>3, <2>2, <2>3, ApplyOperationWellFormed
    <3> QED BY <2>0, <2>3, <3>1 DEF Unclashed
  <2>5. /\ \A d \in Clients \ {c} : ~Restoring(up[d], answering[d])
        /\ \A d \in Clients \ {c} : \A i \in DOMAIN up[d] :
              Carries(OpMsg(op)) /\ Carries(up[d][i]) => ~Clashing(OpMsg(op).op, up[d][i].op)
    BY <1>3, <1>5, EditSeesAll DEF Restoring
  <2>6. Peace(up', answering)
    BY <1>1, <1>2, <1>3, <2>0, <2>5, PeaceAdds DEF Unclashed
  <2>7. ASSUME NEW d \in inRoom \ {c}
        PROVE  Agreeing(d, replica'[d], down[d], answering, inRoom, live, up'[d])
    BY <1>1, <1>2, <2>0, <2>3, <2>7 DEF Unclashed
  <2>8. PICK w \in Seq(DownMsgs) : w = Coming(c, down[c], answering, inRoom)
    BY <1>2, ComingType
  <2>9. \A i \in 1..Len(w) : Harmless(w[i], op)
    <3>1. \A i \in DOMAIN down[c] : Harmless(down[c][i], op)
      <4> TAKE i \in DOMAIN down[c]
      <4>1. down[c][i] \in DownMsgs
        BY <1>2
      <4>2. down[c][i].kind # "roomState"
        BY <1>2 DEF OrderInv, Arrived
      <4>3. /\ down[c][i].kind # "canvasRestored"
            /\ Carries(down[c][i]) => ~Clashing(op, down[c][i].op)
        BY <1>5, EditSeesAll
      <4> QED BY <4>1, <4>2, <4>3, DownTypes DEF Harmless
    <3>2. CASE w = down[c]
      BY <1>2, <3>1, <3>2
    <3>3. CASE w # down[c]
      <4>1. PICK d \in Clients : /\ answering[d] \in Answers
                                 /\ d # c => answering[d].kind = "canvasRestored"
                                 /\ w = Append(down[c], Share(c, d, answering[d]))
        BY <1>2, <2>8, <3>3, ComingFrom
      <4>2. d = c
        BY <1>5, <4>1, EditSeesAll, AnswerTypes
      <4>3. answering[c].kind = "canvasRestored"
        BY <1>2, <4>1, <4>2, AnswerTypes DEF OrderInv, Arrived
      <4>4. PICK k \in DownMsgs : k = Share(c, d, answering[d]) /\ k.kind = "operationAck"
        BY <4>1, <4>2, <4>3, AnswerTypes DEF Share, Ack
      <4>5. Harmless(k, op)
        BY <4>4 DEF Harmless, Carries
      <4>6. \A i \in 1..Len(w) : w[i] = k \/ (i \in DOMAIN down[c] /\ w[i] = down[c][i])
        BY <1>2, <4>1, <4>4
      <4> QED BY <3>1, <4>5, <4>6
    <3> QED BY <3>2, <3>3
  <2>10. Agreeing(c, replica'[c], down[c], answering, inRoom, live, up'[c])
    <3>1. Meet(Pure(replica[c]), w, Pure(live), up[c])
      BY <1>2, <2>0, <2>8 DEF Unclashed, Agreeing
    <3>2. w \in Seq(Msgs) /\ up[c] \in Seq(Msgs) /\ OpMsg(op) \in Msgs
      BY <1>2, <1>3 DEF Msgs
    <3>3. Meet(ApplyOperation(Pure(replica[c]), op), w, Pure(live), Append(up[c], OpMsg(op)))
      BY <1>3, <2>1, <2>9, <3>1, <3>2, MeetUnder
    <3>4. Pure(replica'[c]) = ApplyOperation(Pure(replica[c]), op)
      BY <1>2, <1>3, <2>3, PureOperation
    <3>5. up'[c] = Append(up[c], OpMsg(op))
      BY <1>1, <1>2
    <3> QED BY <2>8, <3>3, <3>4, <3>5 DEF Agreeing
  <2>11. \A d \in inRoom : Agreeing(d, replica'[d], down[d], answering, inRoom, live, up'[d])
    BY <2>7, <2>10
  <2> QED BY <1>2, <2>4, <2>6, <2>11 DEF Unclashed
<1>6. clash' \/ Unclashed'
  BY <1>1, <1>5
<1> QED BY <1>4, <1>6 DEF ConvInv

LEMMA ConvRestore ==
    ASSUME ConvInv, OrderInv', NEW c \in Clients, RestoreSnapshot(c)
    PROVE  ConvInv'
PROOF
<1>1. PICK s \in Restorable : /\ replica' = [replica EXCEPT ![c] = AtRevision(s, @.revision)]
                              /\ up' = [up EXCEPT ![c] = Append(@, RestoreMsg(s))]
  BY DEF RestoreSnapshot
<1>2. /\ UNCHANGED <<live, inRoom, answering, down>> /\ c \in joined /\ c \in inRoom
      /\ inRoom \subseteq Clients /\ OrderInv /\ TypeInv
      /\ up \in [Clients -> Seq(UpMsgs)] /\ replica \in [Clients -> CanvasStateData]
      /\ live \in CanvasStateData
      /\ clash' = (clash \/ \E m \in Unseen(c) : m.kind # "joinRoom")
  BY DEF RestoreSnapshot, server, ConvInv, OrderInv, Arrived, TypeInv, TypeOK
<1>3. /\ s \in Content /\ WellFormed(s)
      /\ RestoreMsg(s) \in UpMsgs /\ ~Carries(RestoreMsg(s)) /\ RestoreMsg(s).content = s
      /\ RestoreMsg(s).kind = "canvasRestore"
  BY CollaborationAssumption, WellFormedAssumption DEF UpMsgs, RestoreMsg, Carries
<1>4. (WellFormed(live) /\ \A d \in Clients : CanvasesOK(down[d]))'
  BY <1>2 DEF ConvInv
<1>5. ASSUME ~clash, \A m \in Unseen(c) : m.kind = "joinRoom"
      PROVE  Unclashed'
  <2>0. Unclashed
    BY <1>5 DEF ConvInv
  <2>1. /\ down[c] = <<>>
        /\ \A d \in Clients \ {c} : answering[d] = Nil /\ OnlyJoins(up[d])
    BY <1>2, <1>5, RestoreSeesAll
  <2>2. replica[c].revision \in Nat
    BY <1>2 DEF CanvasStateData
  <2>3. /\ replica'[c] = AtRevision(s, replica[c].revision)
        /\ \A d \in Clients \ {c} : replica'[d] = replica[d]
    BY <1>1, <1>2
  <2>4. \A d \in Clients : WellFormed(replica'[d])
    <3>1. WellFormed(replica'[c])
      BY <1>3, <2>2, <2>3, PureWellFormed
    <3> QED BY <2>0, <2>3, <3>1 DEF Unclashed
  <2>5. \A d \in Clients \ {c} : ~Restoring(up[d], answering[d])
    BY <2>1 DEF Restoring, OnlyJoins
  <2>6. Peace(up', answering)
    BY <1>1, <1>2, <1>3, <2>0, <2>1, <2>5, PeaceAdds DEF Unclashed
  <2>7. ASSUME NEW d \in inRoom \ {c}
        PROVE  Agreeing(d, replica'[d], down[d], answering, inRoom, live, up'[d])
    BY <1>1, <1>2, <2>0, <2>3, <2>7 DEF Unclashed
  <2>8. Agreeing(c, replica'[c], down[c], answering, inRoom, live, up'[c])
    <3> DEFINE w == Coming(c, down[c], answering, inRoom)
    <3>1. Meet(Pure(replica[c]), w, Pure(live), up[c])
      BY <1>2, <2>0 DEF Unclashed, Agreeing
    <3>2. up[c] \in Seq(Msgs) /\ RestoreMsg(s) \in Msgs /\ Replaces(RestoreMsg(s))
      BY <1>2, <1>3 DEF Msgs, Replaces
    <3>3. Pure(s) \in CanvasStateData /\ Pure(s) = Effect(Pure(replica[c]), RestoreMsg(s))
      BY <1>3, PureType DEF Effect
    <3>4. Meet(Pure(s), <<>>, Pure(live), Append(up[c], RestoreMsg(s)))
      BY <3>1, <3>2, <3>3, MeetReplaced
    <3>5. Pure(replica'[c]) = Pure(s) /\ up'[c] = Append(up[c], RestoreMsg(s))
      BY <1>1, <1>2, <2>3, PurePure
    <3>6. CASE w = <<>>
      BY <3>4, <3>5, <3>6 DEF Agreeing
    <3>7. CASE w # <<>>
      <4>1. PICK d \in Clients : /\ answering[d] \in Answers
                                 /\ w = Append(down[c], Share(c, d, answering[d]))
        BY <1>2, <2>1, <3>7, ComingFrom
      <4>2. d = c
        BY <2>1, <4>1, AnswerTypes
      <4>3. answering[c].kind = "canvasRestored"
        BY <1>2, <4>1, <4>2, AnswerTypes DEF OrderInv, Arrived
      <4>4. PICK k \in DownMsgs : k = Share(c, d, answering[d]) /\ k.kind = "operationAck"
        BY <4>1, <4>2, <4>3, AnswerTypes DEF Share, Ack
      <4>5. Meet(Pure(s), Append(down[c], k), Pure(live), Append(up[c], RestoreMsg(s)))
        <5>1. k \in Msgs /\ k.kind = "operationAck"
          BY <4>4 DEF Msgs
        <5>2. Meet(Pure(s), down[c], Pure(live), Append(up[c], RestoreMsg(s)))
          BY <2>1, <3>4
        <5>3. down[c] \in Seq(Msgs)
          BY <2>1
        <5> QED BY <5>1, <5>2, <5>3, MeetIdle
      <4> QED BY <3>5, <4>1, <4>4, <4>5 DEF Agreeing
    <3> QED BY <3>6, <3>7
  <2>9. \A d \in inRoom : Agreeing(d, replica'[d], down[d], answering, inRoom, live, up'[d])
    BY <2>7, <2>8
  <2> QED BY <1>2, <2>4, <2>6, <2>9 DEF Unclashed
<1>6. clash' \/ Unclashed'
  BY <1>2, <1>5
<1> QED BY <1>4, <1>6 DEF ConvInv

LEMMA ConvHears ==
    ASSUME PlainLabels, ConvInv, OrderInv', NEW c \in Clients, Hears(c)
    PROVE  ConvInv'
PROOF
<1>1. /\ UNCHANGED <<live, inRoom, answering, up, clash>>
      /\ inRoom \subseteq Clients /\ OrderInv /\ TypeInv
      /\ down[c] # <<>> /\ down[c] \in Seq(DownMsgs)
      /\ down'[c] = Tail(down[c]) /\ \A d \in Clients \ {c} : down'[d] = down[d]
      /\ replica \in [Clients -> CanvasStateData] /\ live \in CanvasStateData
      /\ answering \in [Clients -> Answers \cup {Nil}]
  BY DEF Hears, server, ConvInv, OrderInv, TypeInv, TypeOK
<1>2. c \in inRoom
  BY <1>1 DEF OrderInv, Arrived
<1>3. PICK m \in DownMsgs : m = Head(down[c])
  BY <1>1
<1>4. /\ replica'[c] = AtRevision(Heard(replica[c], m), RevisionOf(m))
      /\ \A d \in Clients \ {c} : replica'[d] = replica[d]
  BY <1>1, <1>3 DEF Hears
<1>5. \A i \in DOMAIN Tail(down[c]) : i + 1 \in DOMAIN down[c] /\ Tail(down[c])[i] = down[c][i + 1]
  BY <1>1, TailsParts
<1>6. (WellFormed(live) /\ \A d \in Clients : CanvasesOK(down[d]))'
  <2>1. \A d \in Clients : CanvasesOK(down'[d])
    <3>1. CanvasesOK(down'[c])
      BY <1>1, <1>5 DEF ConvInv, CanvasesOK
    <3> QED BY <1>1, <3>1 DEF ConvInv
  <2> QED BY <1>1, <2>1 DEF ConvInv
<1>7. ASSUME ~clash
      PROVE  Unclashed'
  <2>0. Unclashed
    BY <1>7 DEF ConvInv
  <2>1. Replaces(m) => WellFormed(m.canvas)
    <3>1. 1 \in DOMAIN down[c] /\ m = down[c][1]
      BY <1>1, <1>3
    <3> QED BY <3>1 DEF ConvInv, CanvasesOK
  <2>2. PICK w \in Seq(DownMsgs) :
           /\ w = Coming(c, down[c], answering, inRoom) /\ w # <<>>
           /\ Head(w) = Head(down[c])
           /\ Tail(w) = Coming(c, Tail(down[c]), answering, inRoom)
    BY <1>1, ComingType, ComingHead, ComingTail
  <2>3. Meet(Pure(replica[c]), w, Pure(live), up[c])
    BY <1>2, <2>0, <2>2 DEF Unclashed, Agreeing
  <2>4. Fits(Pure(replica[c]), m) /\ Meet(Effect(Pure(replica[c]), m), Tail(w), Pure(live), up[c])
    <3>1. w \in Seq(Msgs) /\ Head(w) = m
      BY <1>3, <2>2 DEF Msgs
    <3> QED BY <2>2, <2>3, <3>1, MeetHead
  <2>5. replica[c] \in CanvasStateData /\ WellFormed(replica[c])
    BY <1>1, <2>0 DEF Unclashed
  <2>6. /\ Pure(Heard(replica[c], m)) = Effect(Pure(replica[c]), m)
        /\ WellFormed(Heard(replica[c], m)) /\ Heard(replica[c], m) \in CanvasStateData
    BY <2>1, <2>4, <2>5, HeardIsEffect, HeardType
  <2>7. Pure(replica'[c]) = Effect(Pure(replica[c]), m)
    BY <1>4, <2>6, PurePure
  <2>8. \A d \in Clients : WellFormed(replica'[d])
    <3>1. WellFormed(replica'[c])
      BY <1>4, <2>6, DownTypes, PureWellFormed
    <3> QED BY <1>4, <2>0, <3>1 DEF Unclashed
  <2>9. Agreeing(c, replica'[c], down'[c], answering, inRoom, live, up[c])
    BY <1>1, <2>2, <2>4, <2>7 DEF Agreeing
  <2>10. \A d \in inRoom \ {c} : Agreeing(d, replica'[d], down'[d], answering, inRoom, live, up[d])
    BY <1>1, <1>4, <2>0 DEF Unclashed
  <2>11. \A d \in inRoom : Agreeing(d, replica'[d], down'[d], answering, inRoom, live, up[d])
    BY <2>9, <2>10
  <2>12. Peace(up, answering)
    BY <2>0 DEF Unclashed
  <2> QED BY <1>1, <2>8, <2>11, <2>12 DEF Unclashed
<1>8. clash' \/ Unclashed'
  BY <1>1, <1>7
<1> QED BY <1>6, <1>8 DEF ConvInv

LEMMA ConvOperation ==
    ASSUME Sequential, ConvInv, OrderInv', NEW c \in Clients, HandleCanvasOperation(c)
    PROVE  ConvInv'
PROOF
<1>1. OrderInv /\ TypeInv /\ Handle(c, "canvasOperation")
  BY DEF ConvInv, OrderInv, HandleCanvasOperation
<1>2. PICK op \in Edits : op = Head(up[c]).op
  BY <1>1, HandleEffect, UpTypes
<1>3. PICK new \in CanvasStateData : new = Successor(ApplyOperation(live, op))
  BY <1>1, <1>2, CollaborationAssumption, ApplyOperationType, SuccessorType DEF TypeInv, TypeOK
<1>4. /\ UNCHANGED <<inRoom, answering, replica, clash>>
      /\ live' = new /\ Send(c, Ack(new.revision), Broadcast(op, new.revision))
      /\ up'[c] = Tail(up[c]) /\ \A d \in Clients \ {c} : up'[d] = up[d]
      /\ up[c] # <<>> /\ up \in [Clients -> Seq(UpMsgs)]
      /\ Head(up[c]).kind = "canvasOperation" /\ Head(up[c]) = up[c][1] /\ 1 \in DOMAIN up[c]
      /\ \A d \in Clients : answering[d] = Nil
      /\ inRoom \subseteq Clients /\ op \in Operation
      /\ live.revision \in Nat /\ new.revision = live.revision + 1 /\ new.revision \in Nat
      /\ replica \in [Clients -> CanvasStateData] /\ live \in CanvasStateData
      /\ down \in [Clients -> Seq(DownMsgs)]
  BY <1>1, <1>2, <1>3, HandleEffect, SuccessorType, CollaborationAssumption
     DEF HandleCanvasOperation, client, TypeInv, TypeOK
<1>5. c \in inRoom
  BY <1>1, <1>4 DEF OrderInv, Arrived, JoinMsg
<1>6. PICK ack \in DownMsgs, broadcast \in DownMsgs :
         ack = Ack(new.revision) /\ broadcast = Broadcast(op, new.revision)
  BY <1>4, AnswerTypes
<1>7. /\ down'[c] = Append(down[c], ack)
      /\ \A d \in inRoom \ {c} : down'[d] = Append(down[d], broadcast)
      /\ \A d \in Clients \ inRoom : down'[d] = down[d]
      /\ ack.kind = "operationAck" /\ ack \in Msgs
      /\ broadcast.kind = "operationBroadcast" /\ broadcast.op = op /\ Carries(broadcast)
      /\ broadcast \in Msgs
  BY <1>1, <1>4, <1>5, <1>6, SendEffect DEF Ack, Broadcast, Carries, Msgs
<1>8. \A d \in Clients : CanvasesOK(down'[d])
  <2> TAKE d \in Clients
  <2>0. down[d] \in Seq(DownMsgs) /\ CanvasesOK(down[d])
    BY <1>4 DEF ConvInv
  <2>1. ~Replaces(ack) /\ ~Replaces(broadcast)
    BY <1>7 DEF Replaces
  <2>2. CASE down'[d] = down[d]
    BY <2>0, <2>2
  <2>3. CASE down'[d] # down[d]
    <3>1. PICK m \in {ack, broadcast} : down'[d] = Append(down[d], m)
      BY <1>7, <2>3
    <3>2. m \in DownMsgs
      BY <3>1
    <3>3. \A i \in DOMAIN Append(down[d], m) :
             \/ Append(down[d], m)[i] = m
             \/ i \in DOMAIN down[d] /\ Append(down[d], m)[i] = down[d][i]
      BY <2>0, <3>2
    <3> QED BY <2>0, <2>1, <3>1, <3>3 DEF CanvasesOK
  <2> QED BY <2>2, <2>3
<1>9. WellFormed(new) /\ Pure(new) = ApplyOperation(Pure(live), op)
  <2>1. ApplyOperation(live, op) \in CanvasStateData /\ WellFormed(ApplyOperation(live, op))
    BY <1>4, ApplyOperationType, ApplyOperationWellFormed DEF ConvInv
  <2>2. Pure(new) = Pure(ApplyOperation(live, op))
    BY <1>3, PurePure DEF Successor
  <2>3. WellFormed(new)
    BY <1>3, <1>4, <2>1, PureWellFormed DEF Successor
  <2> QED BY <1>4, <2>2, <2>3, PureOperation
<1>10. ASSUME ~clash
       PROVE  Unclashed'
  <2>0. Unclashed
    BY <1>10 DEF ConvInv
  <2>1. Peace(up', answering')
    <3>1. Peace(up, answering)
      BY <2>0 DEF Unclashed
    <3>2. \A d \in Clients : answering'[d] # Nil /\ answering'[d].kind = "canvasRestored" =>
             Restoring(up[d], answering[d])
      BY <1>4
    <3>3. /\ up \in [Clients -> Seq(UpMsgs)] /\ up[c] # <<>> /\ up'[c] = Tail(up[c])
          /\ \A d \in Clients \ {c} : up'[d] = up[d]
      BY <1>4
    <3> QED BY <3>1, <3>2, <3>3, PeaceTail, Zenon
  <2>2. \A d \in inRoom : Meet(Pure(replica[d]), down[d], Pure(live), up[d])
    <3> TAKE d \in inRoom
    <3>1. Coming(d, down[d], answering, inRoom) = down[d]
      <4>1. \A e \in Clients : ~Due(d, e, answering[e], inRoom)
        BY <1>4 DEF Due
      <4> QED BY <4>1, ComingNothing
    <3> QED BY <2>0, <3>1 DEF Unclashed, Agreeing
  <2>3. /\ FitsOp(Pure(live), op)
        /\ Meet(ApplyOperation(Pure(live), op), Tail(up[c]), Pure(replica[c]), down[c])
    <3>1. Meet(Pure(live), up[c], Pure(replica[c]), down[c])
      BY <1>5, <2>2, MeetSymmetric
    <3>2. up[c] \in Seq(Msgs) /\ Carries(Head(up[c]))
      BY <1>4, <1>5 DEF Msgs, Carries
    <3>3. /\ Fits(Pure(live), Head(up[c]))
          /\ Meet(Effect(Pure(live), Head(up[c])), Tail(up[c]), Pure(replica[c]), down[c])
      BY <1>4, <3>1, <3>2, MeetHead
    <3> QED BY <1>2, <3>2, <3>3 DEF Fits, Effect
  <2>4. Meet(Pure(replica[c]), Append(down[c], ack), Pure(new), Tail(up[c]))
    <3>1. Meet(Pure(replica[c]), down[c], Pure(new), Tail(up[c]))
      BY <1>9, <2>3, MeetSymmetric
    <3>2. down[c] \in Seq(Msgs)
      BY <1>4, <1>5 DEF Msgs
    <3> QED BY <1>7, <3>1, <3>2, MeetIdle
  <2>5. ASSUME NEW d \in inRoom \ {c}
        PROVE  Meet(Pure(replica[d]), Append(down[d], broadcast), Pure(new), up[d])
    <3>1. Meet(Pure(live), up[d], Pure(replica[d]), down[d])
      BY <2>2, MeetSymmetric
    <3>2. up[d] \in Seq(UpMsgs) /\ up[d] \in Seq(Msgs) /\ down[d] \in Seq(Msgs) /\ d \in Clients
      BY <1>4 DEF Msgs
    <3>3. \A i \in 1..Len(up[d]) : Harmless(up[d][i], op)
      <4> TAKE i \in 1..Len(up[d])
      <4>1. up[d][i] \in UpMsgs /\ i \in DOMAIN up[d]
        BY <3>2
      <4>2. up[d][i].kind # "canvasRestore"
        <5>1. ~Restoring(up[d], answering[d])
          BY <1>4, <1>5, <2>0, <3>2 DEF Unclashed, Peace, OnlyJoins
        <5> QED BY <4>1, <5>1 DEF Restoring
      <4>3. Carries(up[d][i]) => ~Clashing(op, up[d][i].op)
        <5>1. Apart(up[c], up[d])
          BY <1>5, <2>0, <3>2 DEF Unclashed, Peace
        <5>2. Carries(up[c][1]) /\ up[c][1].op = op
          BY <1>2, <1>4 DEF Carries
        <5> QED BY <1>4, <4>1, <5>1, <5>2 DEF Apart
      <4> QED BY <4>1, <4>2, <4>3, UpTypes DEF Harmless
    <3>4. Meet(ApplyOperation(Pure(live), op), up[d], Pure(replica[d]), Append(down[d], broadcast))
      BY <1>7, <2>3, <3>1, <3>2, <3>3, MeetUnder
    <3> QED BY <1>9, <3>4, MeetSymmetric
  <2>6. ASSUME NEW d \in inRoom
        PROVE  Agreeing(d, replica'[d], down'[d], answering', inRoom', live', up'[d])
    <3>1. Coming(d, down'[d], answering', inRoom') = down'[d]
      <4>1. \A e \in Clients : ~Due(d, e, answering'[e], inRoom')
        BY <1>4 DEF Due
      <4> QED BY <4>1, ComingNothing
    <3>2. CASE d = c
      BY <1>4, <1>7, <2>4, <3>1, <3>2 DEF Agreeing
    <3>3. CASE d # c
      BY <1>4, <1>7, <2>5, <3>1, <3>3 DEF Agreeing
    <3> QED BY <3>2, <3>3
  <2> QED BY <1>4, <2>0, <2>1, <2>6 DEF Unclashed
<1>11. clash' \/ Unclashed'
  BY <1>4, <1>10
<1> QED BY <1>4, <1>8, <1>9, <1>11 DEF ConvInv

LEMMA ConvJoin ==
    ASSUME Sequential, ConvInv, OrderInv', NEW c \in Clients, HandleJoinRoom(c)
    PROVE  ConvInv'
PROOF
<1>1. OrderInv /\ TypeInv /\ Handle(c, "joinRoom")
  BY DEF ConvInv, OrderInv, HandleJoinRoom
<1>2. PICK m \in Answers : m = RoomState(live)
  BY <1>1, AnswerTypes DEF TypeInv, TypeOK
<1>3. /\ UNCHANGED <<live, down, replica, clash>>
      /\ inRoom' = inRoom \cup {c}
      /\ up'[c] = Tail(up[c]) /\ \A d \in Clients \ {c} : up'[d] = up[d]
      /\ up[c] # <<>> /\ up \in [Clients -> Seq(UpMsgs)]
      /\ Head(up[c]).kind = "joinRoom"
      /\ \A d \in Clients : answering[d] = Nil
      /\ \A d \in Clients : answering'[d] = IF d = c THEN m ELSE Nil
      /\ inRoom \subseteq Clients /\ live \in CanvasStateData
      /\ m # Nil /\ m.kind = "roomState" /\ m.canvas = live
  BY <1>1, <1>2, HandleEffect, AnswerTypes
     DEF HandleJoinRoom, Enter, client, TypeInv, TypeOK, RoomState
<1>4. c \notin inRoom /\ up[c] = <<JoinMsg>> /\ down[c] = <<>>
  <2>1. Head(up[c]) = up[c][1] /\ 1 \in DOMAIN up[c]
    BY <1>3
  <2> QED BY <1>1, <1>3, <2>1 DEF OrderInv, Arrived
<1>5. ASSUME ~clash
      PROVE  Unclashed'
  <2>0. Unclashed
    BY <1>5 DEF ConvInv
  <2>1. Peace(up', answering')
    <3>1. Peace(up, answering)
      BY <2>0 DEF Unclashed
    <3>2. \A d \in Clients : answering'[d] # Nil /\ answering'[d].kind = "canvasRestored" =>
             Restoring(up[d], answering[d])
      BY <1>3
    <3>3. /\ up \in [Clients -> Seq(UpMsgs)] /\ up[c] # <<>> /\ up'[c] = Tail(up[c])
          /\ \A d \in Clients \ {c} : up'[d] = up[d]
      BY <1>3
    <3> QED BY <3>1, <3>2, <3>3, PeaceTail, Zenon
  <2>2. Agreeing(c, replica'[c], down'[c], answering', inRoom', live', up'[c])
    <3>1. Due(c, c, answering'[c], inRoom') /\ Share(c, c, answering'[c]) = m
      BY <1>3 DEF Due, Share
    <3>2. Coming(c, down[c], answering', inRoom') = Append(down[c], m)
      BY <3>1, ComingDue DEF OrderInv
    <3>3. Pure(replica[c]) \in CanvasStateData /\ Pure(live) \in CanvasStateData
      BY <1>1, <1>3, PureType DEF TypeInv, TypeOK
    <3>4. Meet(Pure(replica[c]), <<>>, Pure(replica[c]), down[c])
      BY <1>4, <3>3, MeetAtOnce
    <3>5. /\ down[c] \in Seq(Msgs) /\ m \in Msgs /\ Replaces(m)
          /\ Pure(live) = Effect(Pure(replica[c]), m)
      BY <1>3, <1>4, AnswerTypes DEF Replaces, Effect, Carries, Msgs
    <3>6. Meet(Pure(live), <<>>, Pure(replica[c]), Append(down[c], m))
      BY <3>3, <3>4, <3>5, MeetReplaced
    <3>7. up'[c] = <<>>
      BY <1>3, <1>4
    <3> QED BY <1>3, <3>2, <3>6, <3>7, MeetSymmetric DEF Agreeing
  <2>3. ASSUME NEW d \in inRoom, d # c
        PROVE  Agreeing(d, replica'[d], down'[d], answering', inRoom', live', up'[d])
    <3>1. \A e \in Clients : ~Due(d, e, answering[e], inRoom)
      BY <1>3 DEF Due
    <3>2. \A e \in Clients : ~Due(d, e, answering'[e], inRoom')
      BY <1>3, <2>3 DEF Due
    <3>3. Coming(d, down[d], answering', inRoom') = Coming(d, down[d], answering, inRoom)
      BY <3>1, <3>2, ComingNothing
    <3> QED BY <1>3, <2>0, <2>3, <3>3 DEF Unclashed, Agreeing
  <2>4. \A d \in inRoom' : Agreeing(d, replica'[d], down'[d], answering', inRoom', live', up'[d])
    BY <1>3, <1>4, <2>2, <2>3
  <2> QED BY <1>3, <2>0, <2>1, <2>4 DEF Unclashed
<1>6. clash' \/ Unclashed'
  BY <1>3, <1>5
<1> QED BY <1>3, <1>6 DEF ConvInv

LEMMA ConvHandleRestore ==
    ASSUME Sequential, ConvInv, OrderInv', NEW c \in Clients, HandleCanvasRestore(c)
    PROVE  ConvInv'
PROOF
<1>1. OrderInv /\ TypeInv /\ Handle(c, "canvasRestore")
  BY DEF ConvInv, OrderInv, HandleCanvasRestore
<1>2. PICK s \in Restorable : s = Head(up[c]).content
  BY <1>1, HandleEffect, UpTypes
<1>3. PICK new \in CanvasStateData : new = Successor(s)
  BY <1>1, SuccessorType, CollaborationAssumption
<1>4. PICK m \in Answers : m = CanvasRestored(new)
  BY AnswerTypes
<1>5. /\ UNCHANGED <<inRoom, down, replica, clash>>
      /\ live' = new
      /\ up'[c] = Tail(up[c]) /\ \A d \in Clients \ {c} : up'[d] = up[d]
      /\ up[c] # <<>> /\ up \in [Clients -> Seq(UpMsgs)]
      /\ Head(up[c]).kind = "canvasRestore" /\ Head(up[c]) = up[c][1] /\ 1 \in DOMAIN up[c]
      /\ \A d \in Clients : answering[d] = Nil
      /\ \A d \in Clients : answering'[d] = IF d = c THEN m ELSE Nil
      /\ inRoom \subseteq Clients /\ down \in [Clients -> Seq(DownMsgs)]
      /\ m # Nil /\ m.kind = "canvasRestored" /\ m.canvas = new
      /\ live \in CanvasStateData /\ live.revision + 1 \in Nat
  BY <1>1, <1>2, <1>3, <1>4, HandleEffect, SuccessorType, AnswerTypes
     DEF HandleCanvasRestore, client, TypeInv, TypeOK, CanvasRestored
<1>6. c \in inRoom
  BY <1>1, <1>5 DEF OrderInv, Arrived, JoinMsg
<1>7. WellFormed(new) /\ Pure(new) = Pure(s)
  BY <1>3, <1>5, CollaborationAssumption, WellFormedAssumption, PureWellFormed, PurePure DEF Successor
<1>8. ASSUME ~clash
      PROVE  Unclashed'
  <2>0. Unclashed
    BY <1>8 DEF ConvInv
  <2>1. Restoring(up[c], answering[c])
    BY <1>5 DEF Restoring
  <2>2. Peace(up', answering')
    <3>1. Peace(up, answering)
      BY <2>0 DEF Unclashed
    <3>2. \A d \in Clients : answering'[d] # Nil /\ answering'[d].kind = "canvasRestored" =>
             Restoring(up[d], answering[d])
      BY <1>5, <2>1
    <3>3. /\ up \in [Clients -> Seq(UpMsgs)] /\ up[c] # <<>> /\ up'[c] = Tail(up[c])
          /\ \A d \in Clients \ {c} : up'[d] = up[d]
      BY <1>5
    <3> QED BY <3>1, <3>2, <3>3, PeaceTail, Zenon
  <2>3. \A d \in inRoom : Meet(Pure(replica[d]), down[d], Pure(live), up[d])
    <3> TAKE d \in inRoom
    <3>1. Coming(d, down[d], answering, inRoom) = down[d]
      <4>1. \A e \in Clients : ~Due(d, e, answering[e], inRoom)
        BY <1>5 DEF Due
      <4> QED BY <4>1, ComingNothing
    <3> QED BY <2>0, <3>1 DEF Unclashed, Agreeing
  <2>4. \A d \in inRoom : Coming(d, down[d], answering', inRoom') = Append(down[d], Share(d, c, m))
    <3> TAKE d \in inRoom
    <3>1. Due(d, c, answering'[c], inRoom')
      BY <1>5 DEF Due
    <3> QED BY <1>5, <3>1, ComingDue DEF OrderInv
  <2>5. Agreeing(c, replica'[c], down'[c], answering', inRoom', live', up'[c])
    <3>1. Meet(Pure(live), up[c], Pure(replica[c]), down[c])
      BY <1>6, <2>3, MeetSymmetric
    <3>2. up[c] \in Seq(Msgs) /\ down[c] \in Seq(Msgs)
      BY <1>5, <1>6 DEF Msgs
    <3>3. Meet(Effect(Pure(live), Head(up[c])), Tail(up[c]), Pure(replica[c]), down[c])
      BY <1>5, <3>1, <3>2, MeetHead
    <3>4. Effect(Pure(live), Head(up[c])) = Pure(new)
      BY <1>2, <1>5, <1>7 DEF Effect, Carries
    <3>5. Meet(Pure(replica[c]), down[c], Pure(new), Tail(up[c]))
      BY <3>3, <3>4, MeetSymmetric
    <3>6. PICK k \in Msgs : k = Share(c, c, m) /\ k.kind = "operationAck"
      <4>1. Share(c, c, m) \in Msgs
        BY ShareType DEF Msgs
      <4>2. Share(c, c, m).kind = "operationAck"
        BY <1>5 DEF Share, Ack
      <4> QED BY <4>1, <4>2
    <3>7. Meet(Pure(replica[c]), Append(down[c], k), Pure(new), Tail(up[c]))
      BY <3>2, <3>5, <3>6, MeetIdle
    <3> QED BY <1>5, <1>6, <2>4, <3>6, <3>7 DEF Agreeing
  <2>6. ASSUME NEW d \in inRoom, d # c
        PROVE  Agreeing(d, replica'[d], down'[d], answering', inRoom', live', up'[d])
    <3>1. up[d] = <<>>
      <4>1. d \in Clients /\ up[d] \in Seq(UpMsgs)
        BY <1>5
      <4>2. OnlyJoins(up[d])
        BY <2>0, <2>1, <2>6, <4>1 DEF Unclashed, Peace
      <4>3. \A i \in DOMAIN up[d] : up[d][i].kind # "joinRoom"
        BY <1>1, <4>1 DEF OrderInv, Arrived
      <4> QED BY <4>1, <4>2, <4>3 DEF OnlyJoins
    <3>2. Meet(Pure(live), up[d], Pure(replica[d]), down[d])
      BY <2>3, MeetSymmetric
    <3>3. down[d] \in Seq(Msgs) /\ m \in Msgs /\ Replaces(m) /\ Share(d, c, m) = m
      BY <1>5, <2>6, AnswerTypes DEF Msgs, Replaces, Share
    <3>4. Pure(new) \in CanvasStateData /\ Pure(new) = Effect(Pure(live), m)
      BY <1>5, <3>3, PureType DEF Effect, Carries
    <3>5. Meet(Pure(new), <<>>, Pure(replica[d]), Append(down[d], m))
      BY <3>2, <3>3, <3>4, MeetReplaced
    <3>6. Meet(Pure(replica[d]), Append(down[d], m), Pure(new), up[d])
      BY <3>1, <3>5, MeetSymmetric
    <3> QED BY <1>5, <2>4, <2>6, <3>3, <3>6 DEF Agreeing
  <2>7. \A d \in inRoom' : Agreeing(d, replica'[d], down'[d], answering', inRoom', live', up'[d])
    BY <1>5, <2>5, <2>6
  <2> QED BY <1>5, <2>0, <2>2, <2>7 DEF Unclashed
<1>9. clash' \/ Unclashed'
  BY <1>5, <1>8
<1> QED BY <1>5, <1>7, <1>9 DEF ConvInv

LEMMA ConvAnswer ==
    ASSUME ConvInv, OrderInv', NEW c \in Clients, Answer(c)
    PROVE  ConvInv'
PROOF
<1>1. OrderInv /\ TypeInv
  BY DEF ConvInv, OrderInv
<1>2. /\ c \in inRoom /\ inRoom \subseteq Clients
      /\ UNCHANGED <<live, inRoom, up, replica, joined>>
      /\ \A d \in Clients : answering'[d] = Nil
      /\ \A d \in inRoom : down'[d] = Coming(d, down[d], answering, inRoom)
      /\ \A d \in inRoom : Coming(d, down'[d], answering', inRoom') = down'[d]
      /\ \A d \in Clients \ inRoom : down'[d] = down[d]
  BY <1>1, AnswerGoes
<1>3. clash' = clash /\ down \in [Clients -> Seq(DownMsgs)]
  BY <1>1 DEF Answer, client, TypeInv
<1>4. \A d \in Clients : CanvasesOK(down'[d])
  <2> TAKE d \in Clients
  <2>0. down[d] \in Seq(DownMsgs) /\ CanvasesOK(down[d])
    BY <1>3 DEF ConvInv
  <2>1. CASE down'[d] = down[d]
    BY <2>0, <2>1
  <2>2. CASE down'[d] # down[d]
    <3>1. PICK e \in Clients : /\ answering[e] \in Answers
                               /\ down'[d] = Append(down[d], Share(d, e, answering[e]))
      BY <1>1, <1>2, <2>2, ComingFrom
    <3>2. WellFormed(answering[e].canvas)
      BY <1>1, <3>1, AnswerTypes DEF ConvInv, OrderInv, SoleAnswer
    <3>3. PICK k \in DownMsgs : /\ k = Share(d, e, answering[e])
                                /\ Replaces(k) => WellFormed(k.canvas)
      BY <3>1, <3>2, ShareType DEF Share, Replaces, Ack
    <3>4. \A i \in DOMAIN Append(down[d], k) :
             \/ Append(down[d], k)[i] = k
             \/ i \in DOMAIN down[d] /\ Append(down[d], k)[i] = down[d][i]
      BY <2>0
    <3> QED BY <2>0, <3>1, <3>3, <3>4 DEF CanvasesOK
  <2> QED BY <2>1, <2>2
<1>5. ASSUME ~clash
      PROVE  Unclashed'
  <2>0. Unclashed
    BY <1>5 DEF ConvInv
  <2>1. Peace(up', answering')
    BY <1>2, <2>0 DEF Unclashed, Peace, Restoring
  <2>2. \A d \in inRoom : Agreeing(d, replica'[d], down'[d], answering', inRoom', live', up'[d])
    BY <1>2, <2>0 DEF Unclashed, Agreeing
  <2> QED BY <1>2, <2>0, <2>1, <2>2 DEF Unclashed
<1>6. clash' \/ Unclashed'
  BY <1>3, <1>5
<1> QED BY <1>2, <1>4, <1>6 DEF ConvInv

LEMMA ConvStep ==
    ASSUME Sequential, PlainLabels, ConvInv, [Next]_vars
    PROVE  ConvInv'
PROOF
<1>1. OrderInv /\ OrderInv' /\ TypeInv
  BY OrderStep DEF ConvInv, OrderInv
<1>2. CASE Next
  BY <1>1, <1>2, NextCases, ConvEdit, ConvRestore, ConvHears, ConvOperation, ConvJoin,
     ConvHandleRestore, ConvAnswer
<1>3. CASE UNCHANGED vars
  <2>1. UNCHANGED <<live, inRoom, answering, up, down, replica, clash>>
    BY <1>3 DEF vars
  <2>2. Unclashed' <=> Unclashed
    BY <2>1 DEF Unclashed
  <2> QED BY <1>1, <2>1, <2>2 DEF ConvInv
<1> QED BY <1>2, <1>3

\* Once nothing is on its way, every client shows the server's canvas, unless two
\* edits clashed.
LEMMA QuietMeansConverged ==
    ASSUME ConvInv, ~clash, Quiet, NEW c \in Clients
    PROVE  replica[c] = live
PROOF
<1>1. OrderInv /\ TypeInv /\ Unclashed
  BY DEF ConvInv, OrderInv
<1>2. /\ \A d \in Clients : up[d] = <<>> /\ down[d] = <<>> /\ answering[d] = Nil
      /\ replica[c] \in CanvasStateData /\ live \in CanvasStateData
  BY <1>1 DEF Quiet, TypeInv, TypeOK
<1>3. c \in inRoom
  <2>1. <<JoinMsg>> # <<>>
    OBVIOUS
  <2> QED BY <1>1, <1>2, <2>1 DEF OrderInv, Arrived
<1>4. Coming(c, down[c], answering, inRoom) = <<>>
  <2>1. \A d \in Clients : ~Due(c, d, answering[d], inRoom)
    BY <1>2 DEF Due
  <2> QED BY <1>2, <2>1, ComingNothing
<1>5. Pure(replica[c]) = Pure(live)
  <2>1. Meet(Pure(replica[c]), <<>>, Pure(live), <<>>)
    BY <1>1, <1>2, <1>3, <1>4 DEF Unclashed, Agreeing
  <2> QED BY <2>1, MeetAtLast
<1>6. replica[c].revision = live.revision
  BY <1>1, <1>3, <1>4 DEF OrderInv, Climbs
<1> QED BY <1>2, <1>5, <1>6 DEF Pure, AtRevision, CanvasStateData

\* Under a server that handles one request of a room after another, for any
\* number of clients, edits and restores of well-formed contents: as long as no
\* two users changed one item out of sight of each other, everyone ends up with
\* the server's canvas (useCollaboration.ts:133-199, canvas.gateway.ts).
THEOREM ReplicasConverge ==
    Sequential /\ PlainLabels => (Spec => []UnclashingEditsConverge)
PROOF
<1> SUFFICES ASSUME Sequential, PlainLabels PROVE Spec => []UnclashingEditsConverge
  OBVIOUS
<1>1. ConvInv => UnclashingEditsConverge
  BY QuietMeansConverged DEF UnclashingEditsConverge, Converged
<1>2. Init => ConvInv
  BY ConvInit
<1>3. ConvInv /\ [Next]_vars => ConvInv'
  BY ConvStep
<1> QED BY <1>1, <1>2, <1>3, PTL DEF Spec

\* On the way there, no client ever shows an edge without its ends or two items
\* of one id, though it checks nothing of what it hears of
\* (useCollaboration.ts:140-179).
THEOREM ReplicasStayWellFormed ==
    Sequential /\ PlainLabels => (Spec => []ReplicasWellFormed)
PROOF
<1> SUFFICES ASSUME Sequential, PlainLabels PROVE Spec => []ReplicasWellFormed
  OBVIOUS
<1>1. ConvInv => ReplicasWellFormed
  BY DEF ConvInv, Unclashed, ReplicasWellFormed
<1>2. Init => ConvInv
  BY ConvInit
<1>3. ConvInv /\ [Next]_vars => ConvInv'
  BY ConvStep
<1> QED BY <1>1, <1>2, <1>3, PTL DEF Spec
=============================================================================
