---------------------------- MODULE EditorProofs ----------------------------
(***************************************************************************)
(* Theorems about CanvasEditor, for any number of nodes, edges and labels, *)
(* whatever the user and the others in the room do, as often as they may.  *)
(***************************************************************************)
EXTENDS CanvasEditor, CanvasProofs, FiniteSetTheorems, SequenceTheorems

-----------------------------------------------------------------------------
(* Lists of edges.                                                         *)

\* The first n steps of Entries(es, places).
Steps(f, es, places, n) ==
    f = [i \in 0 .. n |->
            IF i = 0 THEN <<>>
            ELSE IF i \in places THEN Append(f[i - 1], es[i]) ELSE f[i - 1]]

LEMMA NoLeast ==
    ASSUME NEW T, T \subseteq Nat, \A n \in T : \E m \in T : m < n
    PROVE  T = {}
PROOF
<1>1. PICK R : R = OpToRel(<, Nat)
  OBVIOUS
<1>2. IsWellFoundedOn(R, Nat)
  BY <1>1, NatLessThanWellFounded
<1>3. SUFFICES ASSUME T # {} PROVE FALSE
  OBVIOUS
<1>4. PICK n \in T : \A m \in T : ~(<<m, n>> \in R)
  BY <1>2, <1>3, WFMin
<1>5. \A m, k \in Nat : <<m, k>> \in R <=> m < k
  BY <1>1 DEF OpToRel
<1> QED BY <1>4, <1>5

LEMMA StepsGoOn ==
    ASSUME NEW es, NEW places, NEW n \in Nat, NEW f, Steps(f, es, places, n)
    PROVE  \E g : Steps(g, es, places, n + 1)
PROOF
<1> DEFINE last == IF n + 1 \in places THEN Append(f[n], es[n + 1]) ELSE f[n]
           g == [i \in 0 .. n + 1 |-> IF i = n + 1 THEN last ELSE f[i]]
<1>1. \A i \in 0 .. n :
         f[i] = IF i = 0 THEN <<>>
                ELSE IF i \in places THEN Append(f[i - 1], es[i]) ELSE f[i - 1]
  BY DEF Steps
<1>2. ASSUME NEW i \in 0 .. n + 1
      PROVE  g[i] = IF i = 0 THEN <<>>
                    ELSE IF i \in places THEN Append(g[i - 1], es[i]) ELSE g[i - 1]
  <2>1. CASE i = n + 1
    <3>1. g[i] = last /\ i # 0 /\ i - 1 = n /\ n \in 0 .. n + 1 /\ n # n + 1
      BY <2>1
    <3>2. g[i - 1] = f[n]
      BY <3>1
    <3> QED BY <3>1, <3>2, <2>1
  <2>2. CASE i # n + 1
    <3>1. i \in 0 .. n /\ g[i] = f[i]
      BY <2>2
    <3>2. i # 0 => i - 1 \in 0 .. n + 1 /\ i - 1 # n + 1
      BY <3>1
    <3>3. i # 0 => g[i - 1] = f[i - 1]
      BY <3>2
    <3> QED BY <3>1, <3>3, <1>1
  <2> QED BY <2>1, <2>2
<1>3. g = [i \in 0 .. n + 1 |-> g[i]]
  OBVIOUS
<1>4. Steps(g, es, places, n + 1)
  BY <1>2, <1>3 DEF Steps
<1> QED BY <1>4

LEMMA StepsExist ==
    ASSUME NEW es, NEW places, NEW n \in Nat
    PROVE  \E f : Steps(f, es, places, n)
PROOF
<1> DEFINE T == {m \in Nat : ~\E f : Steps(f, es, places, m)}
<1>1. ASSUME NEW m \in T PROVE \E k \in T : k < m
  <2>1. CASE m = 0
    <3>1. Steps([i \in 0 .. 0 |-> <<>>], es, places, 0)
      BY DEF Steps
    <3> QED BY <2>1, <3>1
  <2>2. CASE m # 0
    <3>1. m - 1 \in Nat /\ (m - 1) + 1 = m /\ m - 1 < m
      BY <2>2
    <3>2. m - 1 \notin T => \E f : Steps(f, es, places, m - 1)
      BY <3>1
    <3>3. m - 1 \notin T => \E f : Steps(f, es, places, m)
      BY <3>1, <3>2, StepsGoOn
    <3> QED BY <3>1, <3>3
  <2> QED BY <2>1, <2>2
<1>2. T = {}
  <2> HIDE DEF T
  <2>1. T \subseteq Nat
    BY DEF T
  <2> QED BY <1>1, <2>1, NoLeast
<1> QED BY <1>2

LEMMA EntriesSteps ==
    ASSUME NEW S, NEW es \in Seq(S), NEW places
    PROVE  \E f : Steps(f, es, places, Len(es)) /\ Entries(es, places) = f[Len(es)]
PROOF
<1>1. PICK f : f = CHOOSE g : Steps(g, es, places, Len(es))
  OBVIOUS
<1>2. Steps(f, es, places, Len(es))
  BY <1>1, StepsExist, LenProperties
<1>3. Entries(es, places) = f[Len(es)]
  BY <1>1 DEF Entries, Steps
<1> QED BY <1>2, <1>3

LEMMA AddedToSet ==
    ASSUME NEW S, NEW q \in Seq(S), NEW x \in S
    PROVE  Append(q, x) \in Seq(S) /\ ToSet(Append(q, x)) = ToSet(q) \cup {x}
PROOF
<1>1. DOMAIN q = 1 .. Len(q) /\ DOMAIN Append(q, x) = 1 .. Len(q) + 1 /\ Len(q) \in Nat
  OBVIOUS
<1>2. \A i \in 1 .. Len(q) : Append(q, x)[i] = q[i]
  OBVIOUS
<1>3. Append(q, x)[Len(q) + 1] = x
  OBVIOUS
<1>4. \A i \in 1 .. Len(q) + 1 : i \in 1 .. Len(q) \/ i = Len(q) + 1
  BY <1>1
<1>5. \A e \in ToSet(Append(q, x)) : e \in ToSet(q) \cup {x}
  BY <1>1, <1>2, <1>3, <1>4 DEF ToSet
<1>6. ToSet(q) \subseteq ToSet(Append(q, x))
  BY <1>1, <1>2 DEF ToSet
<1>7. x \in ToSet(Append(q, x))
  BY <1>1, <1>3 DEF ToSet
<1> QED BY <1>5, <1>6, <1>7

\* What the entries are after n steps.
StepsHold(f, es, places, S, n) ==
    f[n] \in Seq(S) /\ ToSet(f[n]) = {es[i] : i \in {j \in 1 .. n : j \in places}}

LEMMA StepHolds ==
    ASSUME NEW S, NEW es \in Seq(S), NEW places, NEW f, Steps(f, es, places, Len(es)),
           NEW n \in 0 .. Len(es), n # 0 => StepsHold(f, es, places, S, n - 1)
    PROVE  StepsHold(f, es, places, S, n)
PROOF
<1>1. f[n] = IF n = 0 THEN <<>> ELSE IF n \in places THEN Append(f[n - 1], es[n]) ELSE f[n - 1]
  BY DEF Steps
<1>2. CASE n = 0
  BY <1>1, <1>2 DEF StepsHold, ToSet
<1>3. CASE n # 0 /\ n \in places
  <2>1. es[n] \in S /\ f[n - 1] \in Seq(S)
    BY <1>3 DEF StepsHold
  <2>2. f[n] = Append(f[n - 1], es[n])
    BY <1>1, <1>3
  <2>3. f[n] \in Seq(S) /\ ToSet(f[n]) = ToSet(f[n - 1]) \cup {es[n]}
    BY <2>1, <2>2, AddedToSet
  <2>4. {j \in 1 .. n : j \in places} = {j \in 1 .. n - 1 : j \in places} \cup {n}
    BY <1>3
  <2> QED BY <1>3, <2>3, <2>4 DEF StepsHold
<1>4. CASE n # 0 /\ n \notin places
  <2>1. {j \in 1 .. n : j \in places} = {j \in 1 .. n - 1 : j \in places}
    BY <1>4
  <2> QED BY <1>1, <1>4, <2>1 DEF StepsHold
<1> QED BY <1>2, <1>3, <1>4

LEMMA EntriesAre ==
    ASSUME NEW S, NEW es \in Seq(S), NEW places
    PROVE  /\ Entries(es, places) \in Seq(S)
           /\ \A e : e \in ToSet(Entries(es, places)) <=>
                        \E i \in DOMAIN es : i \in places /\ e = es[i]
PROOF
<1>1. PICK f : Steps(f, es, places, Len(es)) /\ Entries(es, places) = f[Len(es)]
  BY EntriesSteps
<1> DEFINE T == {n \in 0 .. Len(es) : ~StepsHold(f, es, places, S, n)}
<1>2. ASSUME NEW n \in T PROVE \E m \in T : m < n
  <2>1. n # 0 /\ ~StepsHold(f, es, places, S, n - 1)
    BY <1>1, <1>2, StepHolds
  <2>2. n - 1 \in 0 .. Len(es) /\ n - 1 < n
    BY <2>1
  <2> QED BY <2>1, <2>2
<1>3. T = {}
  <2>1. T \subseteq Nat
    OBVIOUS
  <2> HIDE DEF T
  <2> QED BY <1>2, <2>1, NoLeast
<1>4. Len(es) \in 0 .. Len(es) /\ DOMAIN es = 1 .. Len(es)
  OBVIOUS
<1>5. StepsHold(f, es, places, S, Len(es))
  BY <1>3, <1>4
<1> QED BY <1>1, <1>4, <1>5 DEF StepsHold

LEMMA WithoutIs ==
    ASSUME NEW S, NEW es \in Seq(S), NEW id
    PROVE  Without(es, id) \in Seq(S) /\ ToSet(Without(es, id)) = {e \in ToSet(es) : e.id # id}
PROOF
<1>1. PICK places : places = {i \in DOMAIN es : es[i].id # id}
  OBVIOUS
<1>2. Without(es, id) = Entries(es, places)
  BY <1>1 DEF Without
<1>3. \A e : e \in ToSet(Without(es, id)) <=> \E i \in DOMAIN es : i \in places /\ e = es[i]
  BY <1>2, EntriesAre
<1>4. Without(es, id) \in Seq(S)
  BY <1>2, EntriesAre
<1>5. \A e : e \in ToSet(Without(es, id)) <=> \E i \in DOMAIN es : e = es[i] /\ e.id # id
  BY <1>1, <1>3
<1>6. \A e : e \in ToSet(es) <=> \E i \in DOMAIN es : e = es[i]
  BY DEF ToSet
<1> QED BY <1>4, <1>5, <1>6

LEMMA DetachedIs ==
    ASSUME NEW S, NEW es \in Seq(S), NEW id
    PROVE  Detached(es, id) \in Seq(S) /\ ToSet(Detached(es, id)) = {e \in ToSet(es) : ~Touches(e, id)}
PROOF
<1>1. PICK places : places = {i \in DOMAIN es : ~Touches(es[i], id)}
  OBVIOUS
<1>2. Detached(es, id) = Entries(es, places)
  BY <1>1 DEF Detached
<1>3. \A e : e \in ToSet(Detached(es, id)) <=> \E i \in DOMAIN es : i \in places /\ e = es[i]
  BY <1>2, EntriesAre
<1>4. Detached(es, id) \in Seq(S)
  BY <1>2, EntriesAre
<1>5. \A e : e \in ToSet(Detached(es, id)) <=> \E i \in DOMAIN es : e = es[i] /\ ~Touches(e, id)
  BY <1>1, <1>3
<1>6. \A e : e \in ToSet(es) <=> \E i \in DOMAIN es : e = es[i]
  BY DEF ToSet
<1> QED BY <1>4, <1>5, <1>6

LEMMA ListIs ==
    ASSUME NEW S, IsFiniteSet(S)
    PROVE  SetToSeq(S) \in Seq(S) /\ ToSet(SetToSeq(S)) = S /\ IsInjective(SetToSeq(S))
PROOF
<1>1. PICK n \in Nat : n = Cardinality(S) /\ ExistsBijection(1 .. n, S)
  BY FS_CardinalityType
<1>2. PICK g \in Bijection(1 .. n, S) : TRUE
  BY <1>1 DEF ExistsBijection
<1>3. g \in [1 .. n -> S] /\ IsInjective(g)
  BY <1>2 DEF Bijection, Injection, IsInjective
<1>4. PICK h \in [1 .. n -> S] : h = SetToSeq(S) /\ IsInjective(h)
  BY <1>1, <1>3 DEF SetToSeq
<1>5. h \in Injection(1 .. n, S)
  BY <1>4 DEF Injection, IsInjective
<1>6. h \in Surjection(1 .. n, S)
  <2>1. IsFiniteSet(1 .. n) /\ Cardinality(1 .. n) = n
    BY FS_Interval
  <2> QED BY <1>1, <1>5, <2>1, FS_Injection
<1>7. ToSet(h) = S
  BY <1>4, <1>6 DEF ToSet, Surjection
<1> QED BY <1>4, <1>7

LEMMA LastOf ==
    ASSUME NEW S, NEW q \in Seq(S), q # <<>>
    PROVE  Last(q) \in S /\ Last(q) \in ToSet(q)
BY DEF Last, ToSet

LEMMA LastAdded ==
    ASSUME NEW S, NEW q \in Seq(S), NEW x \in S
    PROVE  Last(Append(q, x)) = x
BY DEF Last

\* PageEdge: what an edge on the page is.
PageEdge == Edge \cup {EdgeOf(i, Pending) : i \in EdgeIds}

LEMMA EdgeOfIs ==
    ASSUME NEW i \in EdgeIds, NEW t \in EdgeTypes \cup {Pending}
    PROVE  EdgeOf(i, t) \in PageEdge /\ EdgeOf(i, t).id = i /\ EdgeOf(i, t).edgeType = t
BY DEF EdgeOf, Edge, PageEdge

LEMMA ConnectedIs ==
    ASSUME NEW es \in Seq(PageEdge), NEW i \in EdgeIds, NEW t \in EdgeTypes \cup {Pending}
    PROVE  LET q == Connected(es, i, t)
           IN  /\ q \in Seq(PageEdge) /\ Last(q) \in ToSet(q) /\ Last(q) \in PageEdge
               /\ i \in EdgeIdsOf(es) => q = es
               /\ i \notin EdgeIdsOf(es) =>
                     ToSet(q) = ToSet(es) \cup {EdgeOf(i, t)} /\ Last(q) = EdgeOf(i, t)
PROOF
<1>1. CASE i \in EdgeIdsOf(es)
  <2>1. es # <<>>
    BY <1>1 DEF EdgeIdsOf, ToSet
  <2> QED BY <1>1, <2>1, LastOf DEF Connected
<1>2. CASE i \notin EdgeIdsOf(es)
  <2>1. Connected(es, i, t) = Append(es, EdgeOf(i, t)) /\ EdgeOf(i, t) \in PageEdge
    BY <1>2, EdgeOfIs DEF Connected
  <2> QED BY <1>2, <2>1, AddedToSet, LastAdded
<1> QED BY <1>1, <1>2

-----------------------------------------------------------------------------
(* Types.                                                                  *)

Replacement == [type : {"replace"}, content : Restorable]
Popup == [connection : EdgeIds, edge : EdgeIds]
Editor == [node : NodeIds, text : Labels \cup {Blank}, typed : BOOLEAN]

\* TypeOK and what is on the socket.
PageTyped ==
    /\ nodes \subseteq Node /\ edges \in Seq(PageEdge)
    /\ label # Nil => label \in Editor /\ Here(label.node)
FlagTyped == applying \in BOOLEAN /\ timers \in Nat /\ (timers = 0 => ~applying)
OpenTyped == popup \in Popup \cup {Nil} /\ menu \in NodeIds \cup EdgeIds \cup {Nil}
WireTyped == server \in Content /\ up \in Seq(Operation) /\ down \in Seq(Operation \cup Replacement)
EditorTypes == PageTyped /\ FlagTyped /\ OpenTyped /\ WireTyped

\* What each operation is, by its kind.
LEMMA OperationIs ==
    ASSUME NEW op \in Operation
    PROVE  /\ op.type # "replace"
           /\ op.type = "addNode" => op.node \in Node
           /\ op.type = "deleteNode" => op.nodeId \in NodeIds
           /\ op.type = "moveNode" => op.nodeId \in NodeIds /\ op.position \in Positions
           /\ op.type = "updateNode" => op.nodeId \in NodeIds /\ op.label \in Labels
           /\ op.type = "addEdge" => op.edge \in Edge
           /\ op.type = "deleteEdge" => op.edgeId \in EdgeIds
           /\ op.type \in {"addNode", "deleteNode", "moveNode", "updateNode", "addEdge", "deleteEdge"}
BY DEF Operation

LEMMA ServerApplies ==
    ASSUME NEW s \in Content, NEW op \in Operation
    PROVE  ApplyOperation(s, op) \in Content
PROOF
<1>1. CASE op.type = "addNode"
  BY <1>1, OperationIs DEF ApplyOperation, AddNode, Content
<1>2. CASE op.type = "deleteNode"
  BY <1>2 DEF ApplyOperation, DeleteNode, Content
<1>3. CASE op.type = "moveNode"
  <2>1. \A n \in Node : [n EXCEPT !.position = op.position] \in Node
    BY <1>3, OperationIs DEF Node
  <2> QED BY <1>3, <2>1 DEF ApplyOperation, MoveNode, Content
<1>4. CASE op.type = "updateNode"
  <2>1. Sanitize[op.label] \in Labels
    BY <1>4, OperationIs, SanitizeAssumption
  <2>2. \A n \in Node : [n EXCEPT !.label = Sanitize[op.label]] \in Node
    BY <2>1 DEF Node
  <2> QED BY <1>4, <2>2 DEF ApplyOperation, UpdateNode, Content
<1>5. CASE op.type = "addEdge"
  BY <1>5, OperationIs DEF ApplyOperation, AddEdge, Content
<1>6. CASE op.type = "deleteEdge"
  BY <1>6 DEF ApplyOperation, DeleteEdge, Content
<1> QED BY <1>1, <1>2, <1>3, <1>4, <1>5, <1>6, OperationIs

\* Whatever is shown, the editor of a label goes with its node.
LEMMA ShownTyped ==
    ASSUME PageTyped, NEW ns \in SUBSET Node, NEW es \in Seq(PageEdge), Shows(ns, es)
    PROVE  PageTyped'
BY DEF PageTyped, Shows, Here

LEMMA MovedIs ==
    ASSUME NEW ns \in SUBSET Node, NEW id, NEW pos \in Positions
    PROVE  Moved(ns, id, pos) \in SUBSET Node
PROOF
<1>1. \A n \in Node : [n EXCEPT !.position = pos] \in Node
  BY DEF Node
<1> QED BY <1>1 DEF Moved

LEMMA LabelledIs ==
    ASSUME NEW ns \in SUBSET Node, NEW id, NEW text \in Labels
    PROVE  Labelled(ns, id, text) \in SUBSET Node
PROOF
<1>1. \A n \in Node : [n EXCEPT !.label = text] \in Node
  BY DEF Node
<1> QED BY <1>1 DEF Labelled

LEMMA Sent ==
    ASSUME up \in Seq(Operation), NEW ops \in Seq(Operation),
           Send(ops) \/ SendUnlessApplying(ops)
    PROVE  up' \in Seq(Operation)
PROOF
<1>1. up' = up \/ up' = up \o ops
  BY DEF Send, SendUnlessApplying
<1>2. up \o ops \in Seq(Operation)
  OBVIOUS
<1> QED BY <1>1, <1>2

LEMMA OneOperation ==
    ASSUME NEW op \in Operation
    PROVE  <<op>> \in Seq(Operation)
OBVIOUS

LEMMA MenuOps ==
    /\ \A id \in NodeIds : DeleteNodeOp(id) \in Operation
    /\ \A id \in EdgeIds : DeleteEdgeOp(id) \in Operation
BY DEF DeleteNodeOp, DeleteEdgeOp, Operation

LEMMA StartTyped ==
    \A c \in {Start} \cup Restorable :
        /\ c \in Content /\ c.nodes \in SUBSET Node
        /\ SetToSeq(c.edges) \in Seq(PageEdge) /\ ToSet(SetToSeq(c.edges)) = c.edges
        /\ c.edges \subseteq Edge
PROOF
<1> SUFFICES ASSUME NEW c \in {Start} \cup Restorable
             PROVE  /\ c \in Content /\ c.nodes \in SUBSET Node
                    /\ SetToSeq(c.edges) \in Seq(PageEdge) /\ ToSet(SetToSeq(c.edges)) = c.edges
                    /\ c.edges \subseteq Edge
  OBVIOUS
<1>1. c \in Content /\ IsFiniteSet(c.edges)
  BY EditorAssumption
<1>2. c.nodes \in SUBSET Node /\ c.edges \subseteq Edge
  BY <1>1 DEF Content
<1>3. SetToSeq(c.edges) \in Seq(c.edges) /\ ToSet(SetToSeq(c.edges)) = c.edges
  BY <1>1, ListIs
<1>4. Seq(c.edges) \subseteq Seq(PageEdge)
  BY <1>2 DEF PageEdge
<1> QED BY <1>1, <1>2, <1>3, <1>4

LEMMA InitTyped == Init => EditorTypes
PROOF
<1> SUFFICES ASSUME Init PROVE EditorTypes
  OBVIOUS
<1>1. PageTyped
  BY StartTyped DEF Init, PageTyped
<1>2. WireTyped
  BY StartTyped DEF Init, WireTyped
<1> QED BY <1>1, <1>2 DEF Init, EditorTypes, FlagTyped, OpenTyped

LEMMA PageTypesKept ==
    ASSUME PageTyped, UNCHANGED <<nodes, edges, label>>
    PROVE  PageTyped'
BY DEF PageTyped, Here

LEMMA AddNodeTyped ==
    ASSUME EditorTypes, NEW n \in Node, AddNodeHere(n)
    PROVE  EditorTypes'
PROOF
<1> DEFINE op == [type |-> "addNode", node |-> n]
<1>1. PageTyped'
  <2>1. nodes \cup {n} \in SUBSET Node /\ edges \in Seq(PageEdge)
    BY DEF EditorTypes, PageTyped
  <2> QED BY <2>1, ShownTyped DEF AddNodeHere, EditorTypes
<1>2. op \in Operation
  BY DEF Operation
<1>3. up' \in Seq(Operation)
  BY <1>2, OneOperation, Sent DEF AddNodeHere, EditorTypes, WireTyped
<1> QED BY <1>1, <1>3 DEF AddNodeHere, EditorTypes, WireTyped, FlagTyped, OpenTyped, flag

LEMMA DragTyped ==
    ASSUME EditorTypes, NEW id \in NodeIds, NEW pos \in Positions, DragNode(id, pos)
    PROVE  EditorTypes'
PROOF
<1> DEFINE op == [type |-> "moveNode", nodeId |-> id, position |-> pos]
<1>1. PageTyped'
  <2>1. Moved(nodes, id, pos) \in SUBSET Node /\ edges \in Seq(PageEdge)
    BY MovedIs DEF EditorTypes, PageTyped
  <2> QED BY <2>1, ShownTyped DEF DragNode, EditorTypes
<1>2. op \in Operation
  BY DEF Operation
<1>3. up' \in Seq(Operation)
  BY <1>2, OneOperation, Sent DEF DragNode, EditorTypes, WireTyped
<1> QED BY <1>1, <1>3 DEF DragNode, EditorTypes, WireTyped, FlagTyped, OpenTyped, flag, room

LEMMA DeleteNodeTyped ==
    ASSUME EditorTypes, NEW id \in NodeIds, DeleteSelectedNode(id)
    PROVE  EditorTypes'
PROOF
<1>1. nodes \subseteq Node /\ edges \in Seq(PageEdge) /\ up \in Seq(Operation)
  BY DEF EditorTypes, PageTyped, WireTyped
<1>2. PageTyped'
  <2>1. WithoutNode(nodes, id) \in SUBSET Node
    BY <1>1 DEF WithoutNode
  <2>2. Detached(edges, id) \in Seq(PageEdge)
    BY <1>1, DetachedIs
  <2> QED BY <2>1, <2>2, ShownTyped DEF DeleteSelectedNode, EditorTypes
<1>3. PICK gone : /\ gone = Entries(edges, {i \in DOMAIN edges : Touches(edges[i], id)})
                  /\ SendUnlessApplying([i \in DOMAIN gone |-> DeleteEdgeOp(gone[i].id)]
                                        \o <<DeleteNodeOp(id)>>)
  BY DEF DeleteSelectedNode
<1>4. gone \in Seq(PageEdge)
  BY <1>1, <1>3, EntriesAre
<1>5. \A e \in PageEdge : e.id \in EdgeIds
  BY DEF PageEdge, Edge, EdgeOf
<1>6. [i \in DOMAIN gone |-> DeleteEdgeOp(gone[i].id)] \in Seq(Operation)
  <2>1. \A i \in DOMAIN gone : DeleteEdgeOp(gone[i].id) \in Operation
    BY <1>4, <1>5, MenuOps
  <2>2. DOMAIN gone = 1 .. Len(gone) /\ Len(gone) \in Nat
    BY <1>4
  <2> QED BY <2>1, <2>2
<1>7. [i \in DOMAIN gone |-> DeleteEdgeOp(gone[i].id)] \o <<DeleteNodeOp(id)>> \in Seq(Operation)
  <2>1. <<DeleteNodeOp(id)>> \in Seq(Operation)
    BY MenuOps, OneOperation
  <2> QED BY <1>6, <2>1, ConcatProperties
<1>8. up' \in Seq(Operation)
  BY <1>1, <1>3, <1>7, Sent
<1> QED BY <1>2, <1>8 DEF DeleteSelectedNode, EditorTypes, WireTyped, FlagTyped, OpenTyped, flag, room

LEMMA DeleteEdgeTyped ==
    ASSUME EditorTypes, NEW id \in EdgeIds, DeleteSelectedEdge(id)
    PROVE  EditorTypes'
PROOF
<1>1. nodes \in SUBSET Node /\ edges \in Seq(PageEdge) /\ up \in Seq(Operation)
  BY DEF EditorTypes, PageTyped, WireTyped
<1>2. PageTyped'
  <2>1. Without(edges, id) \in Seq(PageEdge)
    BY <1>1, WithoutIs
  <2> QED BY <1>1, <2>1, ShownTyped DEF DeleteSelectedEdge, EditorTypes
<1>3. up' \in Seq(Operation)
  BY <1>1, MenuOps, OneOperation, Sent DEF DeleteSelectedEdge
<1> QED BY <1>2, <1>3 DEF DeleteSelectedEdge, EditorTypes, WireTyped, FlagTyped, OpenTyped, flag, room

LEMMA MenuDeleteTyped ==
    ASSUME EditorTypes, MenuDelete
    PROVE  EditorTypes'
PROOF
<1>1. nodes \in SUBSET Node /\ edges \in Seq(PageEdge) /\ up \in Seq(Operation)
  BY DEF EditorTypes, PageTyped, WireTyped
<1>2. WithoutNode(nodes, menu) \in SUBSET Node
  BY <1>1 DEF WithoutNode
<1>3. Detached(edges, menu) \in Seq(PageEdge) /\ Without(edges, menu) \in Seq(PageEdge)
  BY <1>1, DetachedIs, WithoutIs
<1>4. PageTyped'
  <2>1. \/ Shows(WithoutNode(nodes, menu), Detached(edges, menu))
        \/ Shows(nodes, Without(edges, menu))
    BY DEF MenuDelete
  <2> QED BY <1>1, <1>2, <1>3, <2>1, ShownTyped DEF EditorTypes
<1>5. PICK op \in Operation : Send(<<op>>)
  BY MenuOps DEF MenuDelete, EditorTypes, OpenTyped
<1>6. up' \in Seq(Operation)
  BY <1>1, <1>5, OneOperation, Sent
<1> QED BY <1>4, <1>6 DEF MenuDelete, EditorTypes, WireTyped, FlagTyped, OpenTyped, flag, room

LEMMA ConnectTyped ==
    ASSUME EditorTypes, NEW id \in EdgeIds, Connect(id)
    PROVE  EditorTypes'
PROOF
<1>1. nodes \in SUBSET Node /\ edges \in Seq(PageEdge)
  BY DEF EditorTypes, PageTyped
<1>2. edges' \in Seq(PageEdge) /\ Last(edges') \in PageEdge
  BY <1>1, ConnectedIs DEF Connect
<1>3. \A e \in PageEdge : e.id \in EdgeIds
  BY DEF PageEdge, Edge, EdgeOf
<1>4. popup' \in Popup
  BY <1>2, <1>3 DEF Connect, Popup
<1>5. PageTyped'
  BY <1>2 DEF Connect, EditorTypes, PageTyped, Here
<1> QED BY <1>4, <1>5 DEF Connect, EditorTypes, WireTyped, FlagTyped, OpenTyped, flag, room

LEMMA SelectTyped ==
    ASSUME EditorTypes, NEW type \in EdgeTypes, SelectEdgeType(type)
    PROVE  EditorTypes'
PROOF
<1>1. edges \in Seq(PageEdge) /\ up \in Seq(Operation) /\ popup \in Popup
  BY DEF EditorTypes, PageTyped, WireTyped, OpenTyped, SelectEdgeType
<1>2. PICK rest : /\ rest = Connected(Without(edges, popup.edge), popup.connection, type)
                  /\ edges' = rest
                  /\ up' = Append(up, [type |-> "addEdge", edge |-> [Last(rest) EXCEPT !.edgeType = type]])
  BY DEF SelectEdgeType
<1>3. rest \in Seq(PageEdge) /\ Last(rest) \in PageEdge
  <2>1. Without(edges, popup.edge) \in Seq(PageEdge) /\ popup.connection \in EdgeIds
    BY <1>1, WithoutIs DEF Popup
  <2> QED BY <1>2, <2>1, ConnectedIs
<1>4. [Last(rest) EXCEPT !.edgeType = type] \in Edge
  <2>1. PICK i \in EdgeIds, t \in EdgeTypes \cup {Pending} : Last(rest) = EdgeOf(i, t)
    BY <1>3 DEF PageEdge, Edge
  <2>2. [Last(rest) EXCEPT !.edgeType = type] = EdgeOf(i, type)
    BY <2>1 DEF EdgeOf
  <2> QED BY <2>2 DEF Edge
<1>5. up' \in Seq(Operation)
  <2>1. PICK op \in Operation : up' = Append(up, op)
    BY <1>2, <1>4 DEF Operation
  <2> QED BY <1>1, <2>1
<1>6. PageTyped'
  BY <1>2, <1>3 DEF SelectEdgeType, EditorTypes, PageTyped, Here
<1> QED BY <1>5, <1>6 DEF SelectEdgeType, EditorTypes, WireTyped, FlagTyped, OpenTyped, flag, room

LEMMA ClosePopupTyped ==
    ASSUME EditorTypes, ClosePopup
    PROVE  EditorTypes'
PROOF
<1>1. Without(edges, popup.edge) \in Seq(PageEdge)
  BY WithoutIs DEF EditorTypes, PageTyped
<1>2. PageTyped'
  BY <1>1 DEF ClosePopup, Discarded, EditorTypes, PageTyped, Here
<1> QED BY <1>2 DEF ClosePopup, EditorTypes, WireTyped, FlagTyped, OpenTyped, flag, room

LEMMA LabelTyped ==
    ASSUME PageTyped, NEW id \in NodeIds, Here(id)
    PROVE  LabelOf(id) \in Labels
BY DEF PageTyped, Here, LabelOf, Node

LEMMA StartEditTyped ==
    ASSUME EditorTypes, NEW id \in NodeIds, StartEdit(id)
    PROVE  EditorTypes'
PROOF
<1>1. PageTyped'
  BY LabelTyped DEF StartEdit, EditorTypes, PageTyped, Editor, Here, store
<1> QED BY <1>1 DEF StartEdit, EditorTypes, WireTyped, FlagTyped, OpenTyped, flag, room

LEMMA TypeLabelTyped ==
    ASSUME EditorTypes, NEW text \in Labels \cup {Blank}, TypeLabel(text)
    PROVE  EditorTypes'
PROOF
<1>1. PageTyped'
  BY DEF TypeLabel, EditorTypes, PageTyped, Editor, Here, store
<1> QED BY <1>1 DEF TypeLabel, EditorTypes, WireTyped, FlagTyped, OpenTyped, flag, room

LEMMA CommitTyped ==
    ASSUME EditorTypes, CommitEdit
    PROVE  EditorTypes'
PROOF
<1>1. nodes \in SUBSET Node /\ edges \in Seq(PageEdge) /\ up \in Seq(Operation) /\ label \in Editor
  BY DEF EditorTypes, PageTyped, WireTyped, CommitEdit
<1>2. Changed => label.text \in Labels
  BY <1>1 DEF Changed, Editor
<1>3. nodes' \in SUBSET Node
  BY <1>1, <1>2, LabelledIs DEF CommitEdit
<1>4. up' \in Seq(Operation)
  <2>1. CASE Changed
    <3>1. PICK op : /\ op = [type |-> "updateNode", nodeId |-> label.node, label |-> label.text]
                    /\ up' = Append(up, op)
      BY <2>1 DEF CommitEdit
    <3>2. op \in Operation
      BY <1>1, <1>2, <2>1, <3>1 DEF Operation, Editor
    <3> QED BY <1>1, <3>1, <3>2
  <2>2. CASE ~Changed
    BY <1>1, <2>2 DEF CommitEdit
  <2> QED BY <2>1, <2>2
<1>5. PageTyped'
  BY <1>1, <1>3 DEF CommitEdit, PageTyped
<1> QED BY <1>4, <1>5 DEF CommitEdit, EditorTypes, WireTyped, FlagTyped, OpenTyped, flag, room

LEMMA QuietTyped ==
    ASSUME EditorTypes,
           (\E id \in NodeIds \cup EdgeIds : OpenMenu(id)) \/ CloseMenu \/ CancelEdit \/ TimerFires
    PROVE  EditorTypes'
PROOF
<1>1. CASE \E id \in NodeIds \cup EdgeIds : OpenMenu(id)
  <2>1. PageTyped'
    BY <1>1, PageTypesKept DEF OpenMenu, EditorTypes, store
  <2> QED BY <1>1, <2>1 DEF OpenMenu, EditorTypes, WireTyped, FlagTyped, OpenTyped, flag, room
<1>2. CASE CloseMenu
  <2>1. PageTyped'
    BY <1>2, PageTypesKept DEF CloseMenu, EditorTypes, store
  <2> QED BY <1>2, <2>1 DEF CloseMenu, EditorTypes, WireTyped, FlagTyped, OpenTyped, flag, room
<1>3. CASE CancelEdit
  <2>1. PageTyped'
    BY <1>3 DEF CancelEdit, EditorTypes, PageTyped, store
  <2> QED BY <1>3, <2>1 DEF CancelEdit, EditorTypes, WireTyped, FlagTyped, OpenTyped, flag, room
<1>4. CASE TimerFires
  <2>1. PageTyped'
    BY <1>4, PageTypesKept DEF TimerFires, EditorTypes, store, open
  <2>2. timers \in Nat /\ timers > 0 /\ timers' = timers - 1 /\ applying' = FALSE
    BY <1>4 DEF TimerFires, Cleared, EditorTypes, FlagTyped
  <2>3. FlagTyped'
    <3>1. timers' \in Nat
      BY <2>2
    <3>2. applying' \in BOOLEAN /\ ~applying'
      BY <2>2, Zenon
    <3> QED BY <3>1, <3>2, Zenon DEF FlagTyped
  <2> QED BY <1>4, <2>1, <2>3 DEF TimerFires, EditorTypes, WireTyped, OpenTyped, open, room
<1> QED BY <1>1, <1>2, <1>3, <1>4

LEMMA RoomTyped ==
    ASSUME EditorTypes, HandleOperation \/ OthersEdit \/ OthersRestore
    PROVE  EditorTypes'
PROOF
<1>1. PageTyped'
  BY PageTypesKept DEF HandleOperation, OthersEdit, OthersRestore, EditorTypes, store, open
<1>2. WireTyped'
  <2>1. CASE HandleOperation
    <3>1. Head(up) \in Operation /\ Tail(up) \in Seq(Operation)
      BY <2>1 DEF HandleOperation, EditorTypes, WireTyped
    <3> QED BY <2>1, <3>1, ServerApplies DEF HandleOperation, EditorTypes, WireTyped
  <2>2. CASE OthersEdit
    <3>1. PICK op \in Operation : server' = ApplyOperation(server, op) /\ down' = Append(down, op)
      BY <2>2, EditorAssumption DEF OthersEdit
    <3>2. Append(down, op) \in Seq(Operation \cup Replacement)
      BY DEF EditorTypes, WireTyped
    <3> QED BY <2>2, <3>1, <3>2, ServerApplies DEF OthersEdit, EditorTypes, WireTyped
  <2>3. CASE OthersRestore
    <3>1. PICK c \in Restorable : server' = c /\ down' = Append(down, [type |-> "replace", content |-> c])
      BY <2>3 DEF OthersRestore
    <3>2. PICK m \in Replacement : m = [type |-> "replace", content |-> c]
      BY DEF Replacement
    <3>3. Append(down, m) \in Seq(Operation \cup Replacement)
      BY DEF EditorTypes, WireTyped
    <3>4. c \in Content
      BY EditorAssumption
    <3> QED BY <2>3, <3>1, <3>2, <3>3, <3>4 DEF OthersRestore, EditorTypes, WireTyped
  <2> QED BY <2>1, <2>2, <2>3
<1>3. FlagTyped' /\ OpenTyped'
  BY DEF HandleOperation, OthersEdit, OthersRestore, EditorTypes, FlagTyped, OpenTyped, flag, open
<1> QED BY <1>1, <1>2, <1>3 DEF EditorTypes

LEMMA MessageTyped ==
    ASSUME EditorTypes, down # <<>>
    PROVE  /\ Message \in Operation \cup Replacement /\ Tail(down) \in Seq(Operation \cup Replacement)
           /\ Message.type # "replace" => Message \in Operation
           /\ Message.type = "replace" => Message.content \in Restorable
PROOF
<1>1. Message \in Operation \cup Replacement /\ Tail(down) \in Seq(Operation \cup Replacement)
  BY DEF Message, EditorTypes, WireTyped
<1>2. \A m \in Replacement : m.type = "replace" /\ m.content \in Restorable
  BY DEF Replacement
<1> QED BY <1>1, <1>2, OperationIs

\* What a broadcast makes of nodes and edges.
BroadcastNodes(m) ==
    CASE m.type = "deleteNode" -> WithoutNode(nodes, m.nodeId)
      [] m.type = "addNode" -> nodes \cup {m.node}
      [] m.type = "moveNode" -> Moved(nodes, m.nodeId, m.position)
      [] m.type = "updateNode" -> Labelled(nodes, m.nodeId, m.label)
      [] OTHER -> nodes
BroadcastEdges(m) ==
    CASE m.type = "addEdge" -> Append(edges, m.edge)
      [] m.type = "deleteEdge" -> Without(edges, m.edgeId)
      [] m.type = "deleteNode" -> Detached(edges, m.nodeId)
      [] OTHER -> edges

LEMMA BroadcastShows ==
    ASSUME EditorTypes, OnOperationBroadcast
    PROVE  Message \in Operation /\ Shows(BroadcastNodes(Message), BroadcastEdges(Message))
PROOF
<1>1. Message \in Operation
  BY MessageTyped DEF OnOperationBroadcast
<1>2. PICK m \in Operation : m = Message
  BY <1>1
<1>3. m.type \in {"addNode", "deleteNode", "moveNode", "updateNode", "addEdge", "deleteEdge"}
  BY OperationIs
<1>4. Shows(BroadcastNodes(m), BroadcastEdges(m))
  BY <1>2, <1>3 DEF OnOperationBroadcast, BroadcastNodes, BroadcastEdges
<1> QED BY <1>2, <1>4

LEMMA BroadcastIs ==
    ASSUME EditorTypes, NEW m \in Operation
    PROVE  BroadcastNodes(m) \in SUBSET Node /\ BroadcastEdges(m) \in Seq(PageEdge)
PROOF
<1>1. nodes \in SUBSET Node /\ edges \in Seq(PageEdge)
  BY DEF EditorTypes, PageTyped
<1>2. BroadcastNodes(m) \in SUBSET Node
  <2>1. WithoutNode(nodes, m.nodeId) \in SUBSET Node
    BY <1>1 DEF WithoutNode
  <2> QED BY <1>1, <2>1, OperationIs, MovedIs, LabelledIs DEF BroadcastNodes
<1>3. BroadcastEdges(m) \in Seq(PageEdge)
  <2>1. m.type = "addEdge" => Append(edges, m.edge) \in Seq(PageEdge)
    BY <1>1, OperationIs DEF PageEdge
  <2>2. Without(edges, m.edgeId) \in Seq(PageEdge) /\ Detached(edges, m.nodeId) \in Seq(PageEdge)
    BY <1>1, WithoutIs, DetachedIs
  <2> QED BY <1>1, <2>1, <2>2 DEF BroadcastEdges
<1> QED BY <1>2, <1>3

LEMMA MessagesTyped ==
    ASSUME EditorTypes, OnOperationBroadcast \/ OnCanvasReplaced
    PROVE  EditorTypes'
PROOF
<1>1. CASE OnOperationBroadcast
  <2>1. PageTyped'
    BY <1>1, BroadcastShows, BroadcastIs, ShownTyped DEF EditorTypes
  <2>2. FlagTyped'
    BY <1>1 DEF OnOperationBroadcast, EditorTypes, FlagTyped
  <2>3. WireTyped'
    BY <1>1, MessageTyped DEF OnOperationBroadcast, EditorTypes, WireTyped
  <2> QED BY <1>1, <2>1, <2>2, <2>3 DEF OnOperationBroadcast, EditorTypes, OpenTyped
<1>2. CASE OnCanvasReplaced
  <2>1. PICK c \in Restorable : Shows(c.nodes, SetToSeq(c.edges))
    BY <1>2, MessageTyped DEF OnCanvasReplaced
  <2>2. PageTyped'
    BY <2>1, StartTyped, ShownTyped DEF EditorTypes
  <2>3. WireTyped'
    BY <1>2, MessageTyped DEF OnCanvasReplaced, EditorTypes, WireTyped
  <2> QED BY <1>2, <2>2, <2>3 DEF OnCanvasReplaced, EditorTypes, OpenTyped, FlagTyped, flag
<1> QED BY <1>1, <1>2

LEMMA NextTyped ==
    ASSUME EditorTypes, [Next]_vars
    PROVE  EditorTypes'
PROOF
<1>1. CASE UNCHANGED vars
  <2>1. PageTyped'
    BY <1>1, PageTypesKept DEF vars, store, open, EditorTypes
  <2> QED BY <1>1, <2>1 DEF vars, flag, open, room, EditorTypes, WireTyped, FlagTyped, OpenTyped
<1>2. CASE Next
  BY <1>2, AddNodeTyped, DragTyped, DeleteNodeTyped, DeleteEdgeTyped, MenuDeleteTyped, ConnectTyped,
     SelectTyped, ClosePopupTyped, StartEditTyped, TypeLabelTyped, CommitTyped, QuietTyped, RoomTyped,
     MessagesTyped DEF Next
<1> QED BY <1>1, <1>2

LEMMA TypesInvariant == Spec => []EditorTypes
BY InitTyped, NextTyped, PTL DEF Spec

\* Whatever the user does and whatever comes in behind it, in any order, the page
\* holds nodes and edges, and the label being edited is that of a node on the page
\* (Canvas.tsx:72-290, BaseNode.tsx:113-130): a node that goes takes its editor along.
THEOREM EditorTypesHold == Spec => []TypeOK
PROOF
<1>1. EditorTypes => TypeOK
  <2> SUFFICES ASSUME EditorTypes PROVE TypeOK
    OBVIOUS
  <2>1. ToSet(edges) \subseteq PageEdge
    BY DEF EditorTypes, PageTyped, ToSet
  <2> QED BY <2>1 DEF EditorTypes, PageTyped, FlagTyped, OpenTyped, WireTyped, TypeOK, PageEdge, Popup
<1> QED BY <1>1, TypesInvariant, PTL

-----------------------------------------------------------------------------
(* The edge whose type is being chosen.                                    *)

Single == ~Excused({"connected twice", "edge doubled"})

\* PendingGoesWithItsPopup is inductive; that the popup is about no other edge
\* is what PopupSparesTypedEdges needs besides.
PendingInPopup == \A e \in ToSet(edges) : e.edgeType = Pending => popup # Nil /\ popup.edge = e.id
PopupOnPending == popup # Nil => \A e \in ToSet(edges) : e.id = popup.edge => e.edgeType = Pending
PopupInv == PendingInPopup /\ (Single => PopupOnPending)

\* Steps that add no edge and leave the popup alone.
Aside == UNCHANGED popup /\ ToSet(edges') \subseteq ToSet(edges) /\ past \subseteq past'

LEMMA Noted ==
    ASSUME NEW ops, Send(ops) \/ SendUnlessApplying(ops)
    PROVE  past \subseteq past'
BY DEF Send, SendUnlessApplying, Note

LEMMA NodesAside ==
    ASSUME EditorTypes,
           \/ \E n \in Node : AddNodeHere(n)
           \/ \E id \in NodeIds : \/ DeleteSelectedNode(id) \/ StartEdit(id)
                                  \/ \E pos \in Positions : DragNode(id, pos)
           \/ \E id \in EdgeIds : DeleteSelectedEdge(id)
           \/ MenuDelete
    PROVE  Aside
PROOF
<1> USE DEF Aside
<1>1. CASE \E n \in Node : AddNodeHere(n)
  BY <1>1, Noted DEF AddNodeHere, Shows
<1>2. CASE \E id \in NodeIds : DeleteSelectedNode(id)
  <2>1. PICK id \in NodeIds : DeleteSelectedNode(id)
    BY <1>2
  <2>2. edges' = Detached(edges, id) /\ edges \in Seq(PageEdge)
    BY <2>1 DEF DeleteSelectedNode, Shows, EditorTypes, PageTyped
  <2>3. ToSet(edges') \subseteq ToSet(edges)
    BY <2>2, DetachedIs
  <2>4. past \subseteq past'
    BY <2>1, Noted DEF DeleteSelectedNode
  <2> QED BY <2>1, <2>3, <2>4 DEF DeleteSelectedNode
<1>3. CASE \E id \in NodeIds : StartEdit(id) \/ \E pos \in Positions : DragNode(id, pos)
  BY <1>3, Noted DEF StartEdit, DragNode, Shows, store
<1>4. CASE \E id \in EdgeIds : DeleteSelectedEdge(id)
  <2>1. PICK id \in EdgeIds : DeleteSelectedEdge(id)
    BY <1>4
  <2>2. edges' = Without(edges, id) /\ edges \in Seq(PageEdge)
    BY <2>1 DEF DeleteSelectedEdge, Shows, EditorTypes, PageTyped
  <2>3. ToSet(edges') \subseteq ToSet(edges)
    BY <2>2, WithoutIs
  <2>4. past \subseteq past'
    BY <2>1, Noted DEF DeleteSelectedEdge
  <2> QED BY <2>1, <2>3, <2>4 DEF DeleteSelectedEdge
<1>5. CASE MenuDelete
  <2>1. edges' = Detached(edges, menu) \/ edges' = Without(edges, menu)
    BY <1>5 DEF MenuDelete, Shows
  <2>2. ToSet(edges') \subseteq ToSet(edges)
    BY <2>1, DetachedIs, WithoutIs DEF EditorTypes, PageTyped
  <2>3. past \subseteq past'
    BY <1>5, Noted DEF MenuDelete
  <2> QED BY <1>5, <2>2, <2>3 DEF MenuDelete
<1> QED BY <1>1, <1>2, <1>3, <1>4, <1>5

LEMMA OthersAside ==
    ASSUME \/ \E id \in NodeIds \cup EdgeIds : OpenMenu(id)
           \/ CloseMenu \/ TimerFires \/ CommitEdit \/ CancelEdit
           \/ \E text \in Labels \cup {Blank} : TypeLabel(text)
           \/ HandleOperation \/ OthersEdit \/ OthersRestore
    PROVE  Aside
BY DEF Aside, OpenMenu, CloseMenu, TimerFires, CommitEdit, CancelEdit, TypeLabel, HandleOperation, OthersEdit,
       OthersRestore, store, open, Note

\* The last edge of the list is the one that was just connected, unless the
\* connection was there.
LEMMA ConnectPopup ==
    ASSUME EditorTypes, PopupInv, NEW id \in EdgeIds, Connect(id)
    PROVE  PopupInv'
PROOF
<1>1. edges \in Seq(PageEdge) /\ popup = Nil
  BY DEF Connect, Free, EditorTypes, PageTyped
<1>2. popup' = [connection |-> id, edge |-> Last(edges').id] /\ Last(edges') \in PageEdge
  BY <1>1, ConnectedIs DEF Connect
<1>3. popup' # Nil /\ popup'.edge = Last(edges').id
  <2>1. \A e \in PageEdge : e.id \in EdgeIds
    BY DEF PageEdge, Edge, EdgeOf
  <2>2. popup' \in Popup
    BY <1>2, <2>1 DEF Popup
  <2> QED BY <1>2, <2>2, EditorAssumption DEF Popup
<1>4. \A e \in ToSet(edges) : e.edgeType # Pending
  BY <1>1 DEF PopupInv, PendingInPopup
<1>5. CASE id \in EdgeIdsOf(edges)
  <2>1. edges' = edges /\ "connected twice" \in past'
    BY <1>1, <1>5, ConnectedIs DEF Connect, Note
  <2> QED BY <1>4, <2>1 DEF PopupInv, PendingInPopup, Single, Excused
<1>6. CASE id \notin EdgeIdsOf(edges)
  <2>1. ToSet(edges') = ToSet(edges) \cup {EdgeOf(id, Pending)} /\ Last(edges') = EdgeOf(id, Pending)
    BY <1>1, <1>6, ConnectedIs DEF Connect
  <2>2. EdgeOf(id, Pending).id = id /\ EdgeOf(id, Pending).edgeType = Pending
    BY EdgeOfIs
  <2>3. \A e \in ToSet(edges) : e.id # id
    BY <1>6 DEF EdgeIdsOf
  <2>4. PendingInPopup' /\ PopupOnPending'
    BY <1>3, <1>4, <2>1, <2>2, <2>3 DEF PendingInPopup, PopupOnPending
  <2> QED BY <2>4 DEF PopupInv
<1> QED BY <1>5, <1>6

\* Without its edge, the popup leaves no pending one behind.
LEMMA RestIsTyped ==
    ASSUME EditorTypes, PopupInv, popup # Nil
    PROVE  /\ Without(edges, popup.edge) \in Seq(PageEdge)
           /\ \A e \in ToSet(Without(edges, popup.edge)) : e.edgeType # Pending
           /\ Single => {e \in ToSet(edges) : e.edgeType # Pending} \subseteq ToSet(Without(edges, popup.edge))
PROOF
<1>1. /\ Without(edges, popup.edge) \in Seq(PageEdge)
      /\ ToSet(Without(edges, popup.edge)) = {e \in ToSet(edges) : e.id # popup.edge}
  BY WithoutIs DEF EditorTypes, PageTyped
<1> QED BY <1>1 DEF PopupInv, PendingInPopup, PopupOnPending

LEMMA ClosingSpares ==
    ASSUME EditorTypes, PopupInv, ClosePopup \/ \E type \in EdgeTypes : SelectEdgeType(type)
    PROVE  /\ PopupInv'
           /\ Single => {e \in ToSet(edges) : e.edgeType # Pending} \subseteq ToSet(edges')
PROOF
<1>1. popup # Nil /\ popup \in Popup /\ popup' = Nil
  BY DEF ClosePopup, SelectEdgeType, EditorTypes, OpenTyped
<1>2. PICK rest \in Seq(PageEdge) : rest = Without(edges, popup.edge)
  BY <1>1, RestIsTyped
<1>3. /\ \A e \in ToSet(rest) : e.edgeType # Pending
      /\ Single => {e \in ToSet(edges) : e.edgeType # Pending} \subseteq ToSet(rest)
  BY <1>1, <1>2, RestIsTyped
<1>4. (\A e \in ToSet(edges') : e.edgeType # Pending) /\ ToSet(rest) \subseteq ToSet(edges')
  <2>1. CASE ClosePopup
    BY <2>1, <1>2, <1>3 DEF ClosePopup, Discarded
  <2>2. CASE \E type \in EdgeTypes : SelectEdgeType(type)
    <3>1. PICK type \in EdgeTypes : edges' = Connected(rest, popup.connection, type)
      BY <2>2, <1>2 DEF SelectEdgeType
    <3>2. popup.connection \in EdgeIds /\ type # Pending
      BY <1>1, EditorAssumption DEF Popup
    <3>3. edges' = rest \/ ToSet(edges') = ToSet(rest) \cup {EdgeOf(popup.connection, type)}
      BY <3>1, <3>2, ConnectedIs
    <3>4. EdgeOf(popup.connection, type).edgeType # Pending
      BY <3>2, EdgeOfIs
    <3> QED BY <1>3, <3>3, <3>4
  <2> QED BY <2>1, <2>2
<1>5. PopupInv'
  BY <1>1, <1>4 DEF PopupInv, PendingInPopup, PopupOnPending
<1> QED BY <1>3, <1>4, <1>5

LEMMA MessagePopup ==
    ASSUME EditorTypes, PopupInv, OnOperationBroadcast \/ OnCanvasReplaced
    PROVE  PopupInv'
PROOF
<1>1. edges \in Seq(PageEdge) /\ popup' = popup /\ past \subseteq past'
  BY DEF OnOperationBroadcast, OnCanvasReplaced, EditorTypes, PageTyped, Note
<1>2. PICK S \in SUBSET Edge : /\ ToSet(edges') \subseteq ToSet(edges) \cup S
                               /\ Doubled({e.id : e \in S}) \subseteq past'
  <2>1. CASE OnOperationBroadcast
    <3>1. PICK m \in Operation : m = Message /\ edges' = BroadcastEdges(m)
      BY <2>1, BroadcastShows DEF Shows
    <3>2. CASE m.type = "addEdge"
      <4>1. m.edge \in Edge /\ edges' = Append(edges, m.edge)
        BY <3>1, <3>2, OperationIs DEF BroadcastEdges
      <4>2. ToSet(edges') \subseteq ToSet(edges) \cup {m.edge}
        BY <1>1, <4>1, AddedToSet DEF PageEdge
      <4>3. Doubled({m.edge.id}) \subseteq past'
        BY <2>1, <3>1, <3>2 DEF OnOperationBroadcast, Note
      <4>4. {e.id : e \in {m.edge}} = {m.edge.id}
        OBVIOUS
      <4> QED BY <4>1, <4>2, <4>3, <4>4
    <3>3. CASE m.type # "addEdge"
      <4>1. edges' = edges \/ edges' = Without(edges, m.edgeId) \/ edges' = Detached(edges, m.nodeId)
        BY <3>1, <3>3 DEF BroadcastEdges
      <4>2. ToSet(edges') \subseteq ToSet(edges)
        BY <1>1, <4>1, WithoutIs, DetachedIs
      <4>3. Doubled({}) = {}
        BY DEF Doubled
      <4>4. {e.id : e \in {}} = {}
        OBVIOUS
      <4>5. ToSet(edges') \subseteq ToSet(edges) \cup {} /\ Doubled({e.id : e \in {}}) \subseteq past'
        BY <4>2, <4>3, <4>4
      <4> QED BY <4>5
    <3> QED BY <3>2, <3>3
  <2>2. CASE OnCanvasReplaced
    <3>1. PICK c \in Restorable : c = Message.content
      BY <2>2, MessageTyped DEF OnCanvasReplaced
    <3>2. ToSet(edges') = c.edges /\ c.edges \subseteq Edge
      BY <2>2, <3>1, StartTyped DEF OnCanvasReplaced, Shows
    <3>3. Doubled({e.id : e \in c.edges}) \subseteq past'
      BY <2>2, <3>1 DEF OnCanvasReplaced, Note
    <3> QED BY <3>2, <3>3
  <2> QED BY <2>1, <2>2
<1>3. \A e \in Edge : e.edgeType # Pending
  BY EditorAssumption DEF Edge, EdgeOf
<1>4. PendingInPopup'
  BY <1>1, <1>2, <1>3 DEF PopupInv, PendingInPopup
<1>5. ASSUME Single', popup # Nil PROVE PopupOnPending'
  <2>1. Single
    BY <1>1, <1>5 DEF Single, Excused
  <2>2. "edge doubled" \notin past'
    BY <1>5 DEF Single, Excused
  <2>3. \A e \in S : e.id # popup.edge
    BY <1>2, <1>5, <2>2 DEF Doubled
  <2> QED BY <1>1, <1>2, <2>1, <2>3 DEF PopupInv, PopupOnPending
<1>6. popup = Nil => PopupOnPending'
  BY <1>1 DEF PopupOnPending
<1> QED BY <1>4, <1>5, <1>6 DEF PopupInv

LEMMA AsidePopup ==
    ASSUME PopupInv, Aside
    PROVE  PopupInv'
BY DEF PopupInv, PendingInPopup, PopupOnPending, Single, Excused, Aside

LEMMA NextKinds ==
    ASSUME EditorTypes, [Next]_vars
    PROVE  \/ Aside
           \/ \E id \in EdgeIds : Connect(id)
           \/ ClosePopup \/ \E type \in EdgeTypes : SelectEdgeType(type)
           \/ OnOperationBroadcast \/ OnCanvasReplaced
PROOF
<1>1. CASE UNCHANGED vars
  BY <1>1 DEF Aside, vars, store, open
<1>2. CASE Next
  BY <1>2, NodesAside, OthersAside DEF Next
<1> QED BY <1>1, <1>2

LEMMA NextPopup ==
    ASSUME EditorTypes, PopupInv, [Next]_vars
    PROVE  PopupInv'
BY NextKinds, AsidePopup, ConnectPopup, ClosingSpares, MessagePopup

LEMMA PopupInvariant == Spec => []PopupInv
PROOF
<1>1. Init => PopupInv
  <2> SUFFICES ASSUME Init PROVE PopupInv
    OBVIOUS
  <2>1. ToSet(edges) \subseteq Edge /\ popup = Nil
    BY StartTyped DEF Init
  <2>2. \A e \in Edge : e.edgeType # Pending
    BY EditorAssumption DEF Edge, EdgeOf
  <2> QED BY <2>1, <2>2 DEF PopupInv, PendingInPopup, PopupOnPending
<1> QED BY <1>1, NextPopup, TypesInvariant, PTL DEF Spec

\* However a popup is opened, answered, dismissed or overtaken by what others do,
\* the pending edge it was opened for does not outlive it, and no pending edge is
\* ever on the server (Canvas.tsx:168-205, 343-354, canvasStore.ts:60-76).
THEOREM PendingEdgesGo == Spec => []PendingGoesWithItsPopup
PROOF
<1>1. EditorTypes /\ PopupInv => PendingGoesWithItsPopup
  <2> SUFFICES ASSUME EditorTypes, PopupInv PROVE PendingGoesWithItsPopup
    OBVIOUS
  <2>1. \A e \in server.edges : e.edgeType # Pending
    BY EditorAssumption DEF EditorTypes, WireTyped, Content, Edge, EdgeOf
  <2> QED BY <2>1 DEF PopupInv, PendingInPopup, PendingGoesWithItsPopup
<1> QED BY <1>1, TypesInvariant, PopupInvariant, PTL

\* Answering or dismissing a popup takes no edge from the page that had its type,
\* however many edges others added or removed behind it (Canvas.tsx:171 takes the
\* last edge for the new one), unless the connection was there already or arrived
\* from somebody else meanwhile.
THEOREM TypedEdgesAreSpared == Spec => PopupSparesTypedEdges
PROOF
<1> DEFINE Spares == popup # Nil /\ popup' = Nil /\ ~Excused({"connected twice", "edge doubled"}) =>
                        {e \in ToSet(edges) : e.edgeType # Pending} \subseteq ToSet(edges')
<1>1. ASSUME EditorTypes, PopupInv, [Next]_vars PROVE Spares
  <2> SUFFICES ASSUME popup # Nil, popup' = Nil, ~Excused({"connected twice", "edge doubled"})
               PROVE  {e \in ToSet(edges) : e.edgeType # Pending} \subseteq ToSet(edges')
    OBVIOUS
  <2>1. ~Aside /\ ~OnOperationBroadcast /\ ~OnCanvasReplaced /\ \A id \in EdgeIds : ~Connect(id)
    BY DEF Aside, OnOperationBroadcast, OnCanvasReplaced, Connect, Free
  <2>2. ClosePopup \/ \E type \in EdgeTypes : SelectEdgeType(type)
    BY <1>1, <2>1, NextKinds
  <2>3. Single
    BY DEF Single
  <2> QED BY <1>1, <2>2, <2>3, ClosingSpares
<1>2. EditorTypes /\ PopupInv /\ [Next]_vars => [Spares]_vars
  BY <1>1
<1> QED BY <1>2, TypesInvariant, PopupInvariant, PTL DEF Spec, PopupSparesTypedEdges

-----------------------------------------------------------------------------
(* Labels.                                                                 *)

IdsOf(ns) == {n.id : n \in ns}
IdsUnique(ns) == \A m, n \in ns : m.id = n.id => m = n
Restored == UNION {NodeIdsOf(c) : c \in Restorable}

\* A node is added once, by one user: on the page it is new.
Adds(i) == down[i].type = "addNode"
NewHere(i) ==
    /\ down[i].node.id \in used
    /\ down[i].node.id \notin IdsOf(nodes) \cup Restored
    /\ \A j \in DOMAIN down : Adds(j) /\ down[j].node.id = down[i].node.id => i = j
IdsInv ==
    /\ IdsUnique(nodes) /\ IdsOf(nodes) \cup Restored \subseteq used
    /\ \A i \in DOMAIN down : Adds(i) => NewHere(i)

\* A text that was not typed is that of the node, until somebody else renames it.
Untyped == label # Nil /\ ~label.typed => label.text = LabelOf(label.node)
LabelInv == "renamed" \notin past => Untyped /\ "untyped" \notin past

LEMMA IdsHere ==
    ASSUME NEW id
    PROVE  Here(id) <=> id \in IdsOf(nodes)
BY DEF Here, IdsOf

\* A step that brings no node to the page and nothing into its channel.
LEMMA IdsShrink ==
    ASSUME IdsInv, IdsUnique(nodes)', IdsOf(nodes') \subseteq IdsOf(nodes),
           UNCHANGED <<used, down>>
    PROVE  IdsInv'
BY DEF IdsInv, Adds, NewHere, Restored

LEMMA FewerNodes ==
    ASSUME NEW ns, NEW id, IdsUnique(ns)
    PROVE  IdsUnique(WithoutNode(ns, id)) /\ IdsOf(WithoutNode(ns, id)) \subseteq IdsOf(ns)
BY DEF IdsUnique, IdsOf, WithoutNode

LEMMA MovedNodes ==
    ASSUME NEW ns \in SUBSET Node, NEW id, NEW pos, IdsUnique(ns)
    PROVE  IdsUnique(Moved(ns, id, pos)) /\ IdsOf(Moved(ns, id, pos)) = IdsOf(ns)
PROOF
<1>1. \A n \in Node : [n EXCEPT !.position = pos].id = n.id
  BY DEF Node
<1>2. \A m \in Moved(ns, id, pos) :
         \E n \in ns : m = (IF n.id = id THEN [n EXCEPT !.position = pos] ELSE n) /\ m.id = n.id
  BY <1>1 DEF Moved
<1>3. \A n \in ns : \E m \in Moved(ns, id, pos) : m.id = n.id
  BY <1>1 DEF Moved
<1> QED BY <1>2, <1>3 DEF IdsUnique, IdsOf

LEMMA LabelledNodes ==
    ASSUME NEW ns \in SUBSET Node, NEW id, NEW text, IdsUnique(ns)
    PROVE  IdsUnique(Labelled(ns, id, text)) /\ IdsOf(Labelled(ns, id, text)) = IdsOf(ns)
PROOF
<1>1. \A n \in Node : [n EXCEPT !.label = text].id = n.id
  BY DEF Node
<1>2. \A m \in Labelled(ns, id, text) :
         \E n \in ns : m = (IF n.id = id THEN [n EXCEPT !.label = text] ELSE n) /\ m.id = n.id
  BY <1>1 DEF Labelled
<1>3. \A n \in ns : \E m \in Labelled(ns, id, text) : m.id = n.id
  BY <1>1 DEF Labelled
<1> QED BY <1>2, <1>3 DEF IdsUnique, IdsOf

LEMMA AddNodeIds ==
    ASSUME EditorTypes, IdsInv, NEW n \in Node, AddNodeHere(n)
    PROVE  IdsInv'
PROOF
<1>1. /\ n.id \notin used /\ used' = used \cup {n.id} /\ nodes' = nodes \cup {n} /\ down' = down
  BY DEF AddNodeHere, Shows
<1>2. IdsOf(nodes') = IdsOf(nodes) \cup {n.id}
  BY <1>1 DEF IdsOf
<1>3. IdsUnique(nodes')
  BY <1>1 DEF IdsInv, IdsUnique, IdsOf
<1> QED BY <1>1, <1>2, <1>3 DEF IdsInv, Adds, NewHere, Restored

LEMMA NodesIds ==
    ASSUME EditorTypes, IdsInv,
           \/ \E id \in NodeIds : \/ DeleteSelectedNode(id) \/ StartEdit(id)
                                  \/ \E pos \in Positions : DragNode(id, pos)
           \/ \E id \in EdgeIds : \/ DeleteSelectedEdge(id) \/ Connect(id)
           \/ MenuDelete \/ CommitEdit
    PROVE  IdsInv'
PROOF
<1>1. nodes \in SUBSET Node /\ IdsUnique(nodes)
  BY DEF EditorTypes, PageTyped, IdsInv
<1>2. UNCHANGED <<used, down>>
  BY DEF DeleteSelectedNode, StartEdit, DragNode, DeleteSelectedEdge, Connect, MenuDelete, CommitEdit, room
<1>3. \/ nodes' = nodes
      \/ \E id : nodes' = WithoutNode(nodes, id)
      \/ \E id, pos : nodes' = Moved(nodes, id, pos)
      \/ \E id, text : nodes' = Labelled(nodes, id, text)
  BY DEF DeleteSelectedNode, StartEdit, DragNode, DeleteSelectedEdge, Connect, MenuDelete, CommitEdit, Shows, store
<1>4. IdsUnique(nodes') /\ IdsOf(nodes') \subseteq IdsOf(nodes)
  BY <1>1, <1>3, FewerNodes, MovedNodes, LabelledNodes
<1> QED BY <1>2, <1>4, IdsShrink

LEMMA IdleIds ==
    ASSUME IdsInv, UNCHANGED <<nodes, used, down>>
    PROVE  IdsInv'
BY DEF IdsInv, IdsUnique, Adds, NewHere, Restored, IdsOf

LEMMA OthersIds ==
    ASSUME EditorTypes, IdsInv, OthersEdit \/ OthersRestore
    PROVE  IdsInv'
PROOF
<1>1. nodes' = nodes
  BY DEF OthersEdit, OthersRestore, store
<1>2. PICK m : /\ down' = Append(down, m) /\ used \subseteq used' /\ (m.type # "addNode" => used' = used)
               /\ m.type = "addNode" => m.node.id \notin used /\ used' = used \cup {m.node.id}
  <2>1. CASE OthersEdit
    BY <2>1 DEF OthersEdit
  <2>2. CASE OthersRestore
    <3>1. PICK c \in Restorable : down' = Append(down, [type |-> "replace", content |-> c])
      BY <2>2 DEF OthersRestore
    <3>2. used' = used
      BY <2>2 DEF OthersRestore
    <3> QED BY <3>1, <3>2
  <2> QED BY <2>1, <2>2
<1>3. /\ \A i \in DOMAIN down : i \in DOMAIN down' /\ down'[i] = down[i]
      /\ \A i \in DOMAIN down' : i \in DOMAIN down \/ (i = Len(down) + 1 /\ down'[i] = m)
  <2>1. DOMAIN down = 1 .. Len(down) /\ Len(down) \in Nat
    BY DEF EditorTypes, WireTyped
  <2>2. \A i \in 1 .. Len(down) : Append(down, m)[i] = down[i]
    BY DEF EditorTypes, WireTyped
  <2>3. DOMAIN Append(down, m) = 1 .. Len(down) + 1 /\ Append(down, m)[Len(down) + 1] = m
    BY DEF EditorTypes, WireTyped
  <2> QED BY <1>2, <2>1, <2>2, <2>3
<1>4. ASSUME NEW i \in DOMAIN down', Adds(i)' PROVE NewHere(i)'
  <2>1. CASE i \in DOMAIN down
    <3>1. NewHere(i) /\ down'[i] = down[i]
      BY <1>3, <1>4, <2>1 DEF IdsInv, Adds
    <3>2. down[i].node.id \in used' /\ down[i].node.id \notin (IdsOf(nodes) \cup Restored)'
      BY <1>1, <1>2, <3>1 DEF NewHere, Restored
    <3>3. ASSUME NEW j \in DOMAIN down', Adds(j)', down'[j].node.id = down[i].node.id PROVE i = j
      <4>1. CASE j \in DOMAIN down
        BY <1>3, <3>1, <3>3, <4>1 DEF NewHere, Adds
      <4>2. CASE down'[j] = m
        <5>1. down[i].node.id \notin used
          BY <1>2, <3>3, <4>2 DEF Adds
        <5> QED BY <3>1, <5>1 DEF NewHere
      <4> QED BY <1>3, <4>1, <4>2
    <3> QED BY <3>1, <3>2, <3>3 DEF NewHere
  <2>2. CASE i = Len(down) + 1 /\ down'[i] = m
    <3>1. m.node.id \notin used /\ m.node.id \in used'
      BY <1>2, <1>4, <2>2 DEF Adds
    <3>2. m.node.id \notin (IdsOf(nodes) \cup Restored)'
      BY <1>1, <3>1 DEF IdsInv, Restored
    <3>3. ASSUME NEW j \in DOMAIN down', Adds(j)', down'[j].node.id = m.node.id PROVE i = j
      <4>1. j \notin DOMAIN down
        <5>1. SUFFICES ASSUME j \in DOMAIN down PROVE FALSE
          OBVIOUS
        <5>2. down[j].node.id \in used
          BY <1>3, <3>3, <5>1 DEF IdsInv, Adds, NewHere
        <5> QED BY <1>3, <3>1, <3>3, <5>1, <5>2
      <4> QED BY <1>3, <2>2, <4>1
    <3> QED BY <2>2, <3>1, <3>2, <3>3 DEF NewHere
  <2> QED BY <1>3, <2>1, <2>2
<1>5. IdsUnique(nodes)' /\ (IdsOf(nodes) \cup Restored \subseteq used)'
  BY <1>1, <1>2 DEF IdsInv, IdsUnique, Restored, IdsOf
<1> QED BY <1>4, <1>5 DEF IdsInv

\* The message that is handled leaves the others behind it where they were.
LEMMA TakenIds ==
    ASSUME EditorTypes, IdsInv, down # <<>>, down' = Tail(down), used' = used, IdsUnique(nodes)',
           IdsOf(nodes') \subseteq
               IdsOf(nodes) \cup Restored \cup (IF Message.type = "addNode" THEN {Message.node.id} ELSE {})
    PROVE  IdsInv'
PROOF
<1>1. /\ DOMAIN down = 1 .. Len(down) /\ Len(down) \in Nat /\ 1 \in DOMAIN down /\ down[1] = Message
      /\ DOMAIN down' = 1 .. Len(down) - 1
      /\ \A i \in DOMAIN down' : i + 1 \in DOMAIN down /\ down'[i] = down[i + 1] /\ i + 1 # 1
  BY DEF EditorTypes, WireTyped, Message
<1>2. Message.type = "addNode" => NewHere(1)
  BY <1>1 DEF IdsInv, Adds
<1>3. IdsOf(nodes') \cup Restored \subseteq used
  BY <1>1, <1>2 DEF IdsInv, NewHere
<1>4. ASSUME NEW i \in DOMAIN down', Adds(i)' PROVE NewHere(i)'
  <2>1. NewHere(i + 1) /\ Adds(i + 1) /\ down'[i] = down[i + 1] /\ i + 1 \in DOMAIN down /\ i \in Nat
    BY <1>1, <1>4 DEF IdsInv, Adds
  <2>2. Message.type = "addNode" => down[i + 1].node.id # Message.node.id
    BY <1>1, <2>1 DEF NewHere, Adds
  <2>3. down[i + 1].node.id \notin IdsOf(nodes') \cup Restored
    BY <2>1, <2>2 DEF NewHere
  <2>4. ASSUME NEW j \in DOMAIN down', Adds(j)', down'[j].node.id = down'[i].node.id PROVE i = j
    <3>1. j + 1 \in DOMAIN down /\ down'[j] = down[j + 1] /\ j \in Nat
      BY <1>1
    <3>2. i + 1 = j + 1
      BY <2>1, <2>4, <3>1 DEF NewHere, Adds
    <3> QED BY <2>1, <3>1, <3>2
  <2> QED BY <2>1, <2>3, <2>4 DEF NewHere, Restored
<1> QED BY <1>3, <1>4 DEF IdsInv, Restored

LEMMA MessageIds ==
    ASSUME EditorTypes, IdsInv, OnOperationBroadcast \/ OnCanvasReplaced
    PROVE  IdsInv'
PROOF
<1>1. nodes \in SUBSET Node /\ IdsUnique(nodes) /\ down # <<>> /\ down' = Tail(down) /\ used' = used
  BY DEF EditorTypes, PageTyped, IdsInv, OnOperationBroadcast, OnCanvasReplaced
<1>2. CASE OnOperationBroadcast
  <2>1. PICK m \in Operation : m = Message /\ nodes' = BroadcastNodes(m)
    BY <1>2, BroadcastShows DEF Shows
  <2>2. CASE m.type = "addNode"
    <3>1. nodes' = nodes \cup {m.node} /\ IdsOf(nodes') = IdsOf(nodes) \cup {m.node.id}
      BY <2>1, <2>2 DEF BroadcastNodes, IdsOf
    <3>2. m.node.id \notin IdsOf(nodes)
      <4>1. 1 \in DOMAIN down /\ down[1] = m
        BY <1>1, <2>1 DEF Message, EditorTypes, WireTyped
      <4>2. Adds(1)
        BY <2>2, <4>1 DEF Adds
      <4>3. NewHere(1)
        BY <4>1, <4>2 DEF IdsInv
      <4> QED BY <4>1, <4>3 DEF NewHere
    <3>3. IdsUnique(nodes')
      BY <1>1, <3>1, <3>2 DEF IdsUnique, IdsOf
    <3> QED BY <1>1, <2>1, <2>2, <3>1, <3>3, TakenIds
  <2>3. CASE m.type # "addNode"
    <3>1. IdsUnique(nodes') /\ IdsOf(nodes') \subseteq IdsOf(nodes)
      BY <1>1, <2>1, <2>3, FewerNodes, MovedNodes, LabelledNodes DEF BroadcastNodes
    <3> QED BY <1>1, <3>1, TakenIds
  <2> QED BY <2>2, <2>3
<1>3. CASE OnCanvasReplaced
  <2>1. PICK c \in Restorable : nodes' = c.nodes
    BY <1>3, MessageTyped DEF OnCanvasReplaced, Shows
  <2>2. IdsUnique(nodes')
    BY <2>1, EditorAssumption DEF WellFormed, UniqueNodeIds, IdsUnique
  <2>3. IdsOf(nodes') \subseteq Restored
    BY <2>1 DEF IdsOf, Restored, NodeIdsOf
  <2> QED BY <1>1, <2>2, <2>3, TakenIds
<1> QED BY <1>2, <1>3

LEMMA InitIds == Init => IdsInv
PROOF
<1> SUFFICES ASSUME Init PROVE IdsInv
  OBVIOUS
<1>1. IdsUnique(nodes)
  BY EditorAssumption DEF Init, WellFormed, UniqueNodeIds, IdsUnique
<1>2. IdsOf(nodes) \cup Restored \subseteq used
  BY DEF Init, IdsOf, Restored, NodeIdsOf
<1>3. DOMAIN down = {}
  BY DEF Init
<1> QED BY <1>1, <1>2, <1>3 DEF IdsInv

LEMMA NextIds ==
    ASSUME EditorTypes, IdsInv, [Next]_vars
    PROVE  IdsInv'
PROOF
<1>1. CASE UNCHANGED vars
  BY <1>1, IdleIds DEF vars, store, room
<1>2. CASE \/ \E id \in NodeIds \cup EdgeIds : OpenMenu(id)
           \/ CloseMenu \/ TimerFires \/ CancelEdit \/ ClosePopup
           \/ \E type \in EdgeTypes : SelectEdgeType(type)
           \/ \E text \in Labels \cup {Blank} : TypeLabel(text)
           \/ HandleOperation
  <2>1. UNCHANGED <<nodes, used, down>>
    BY <1>2 DEF OpenMenu, CloseMenu, TimerFires, CancelEdit, ClosePopup, SelectEdgeType, TypeLabel, HandleOperation,
                store, room
  <2> QED BY <2>1, IdleIds
<1>3. CASE Next
  BY <1>2, <1>3, AddNodeIds, NodesIds, OthersIds, MessageIds DEF Next
<1> QED BY <1>1, <1>3

LEMMA LabelIs ==
    ASSUME IdsUnique(nodes), NEW n \in nodes
    PROVE  LabelOf(n.id) = n.label
BY DEF IdsUnique, LabelOf

\* Steps that leave the editor open on a node with the label that it had.
Keeps ==
    /\ label' \in {label, Nil} /\ past \subseteq past' /\ ("untyped" \in past' => "untyped" \in past)
    /\ label' # Nil /\ "renamed" \notin past' =>
          \A n \in nodes : n.id = label.node => \E m \in nodes' : m.id = n.id /\ m.label = n.label

LEMMA KeepsLabel ==
    ASSUME EditorTypes, IdsInv, IdsInv', LabelInv, Keeps
    PROVE  LabelInv'
PROOF
<1> SUFFICES ASSUME "renamed" \notin past' PROVE Untyped' /\ "untyped" \notin past'
  BY DEF LabelInv
<1>1. Untyped /\ "untyped" \notin past'
  BY DEF LabelInv, Keeps
<1>2. ASSUME label' # Nil, ~label'.typed PROVE label'.text = LabelOf(label.node)'
  <2>1. label' = label /\ label # Nil /\ label.text = LabelOf(label.node)
    BY <1>1, <1>2 DEF Keeps, Untyped
  <2>2. PICK n \in nodes : n.id = label.node
    BY <2>1 DEF EditorTypes, PageTyped, Here
  <2>3. PICK m \in nodes' : m.id = label.node /\ m.label = n.label
    BY <1>2, <2>2 DEF Keeps
  <2>4. LabelOf(label.node) = n.label
    BY <2>2, LabelIs DEF IdsInv
  <2>5. LabelOf(m.id)' = m.label
    <3>1. IdsUnique(nodes')
      BY DEF IdsInv
    <3> QED BY <3>1 DEF IdsUnique, LabelOf
  <2>6. LabelOf(label.node)' = m.label
    BY <2>1, <2>3, <2>5 DEF LabelOf
  <2> QED BY <2>1, <2>3, <2>4, <2>6
<1> QED BY <1>1, <1>2 DEF Untyped

\* Sending notes nothing about labels.
LEMMA SentNotes ==
    ASSUME NEW ops, Send(ops) \/ SendUnlessApplying(ops)
    PROVE  past \subseteq past' /\ ("untyped" \in past' => "untyped" \in past)
BY DEF Send, SendUnlessApplying, Note, Crossing

LEMMA WithoutNodeKeeps ==
    ASSUME NEW es, NEW id, Shows(WithoutNode(nodes, id), es), label' # Nil,
           NEW n \in nodes, n.id = label.node
    PROVE  label' = label /\ n \in nodes'
BY DEF Shows, WithoutNode

LEMMA MovedKeeps ==
    ASSUME NEW ns \in SUBSET Node, NEW id, NEW pos, NEW n \in ns
    PROVE  \E m \in Moved(ns, id, pos) : m.id = n.id /\ m.label = n.label
PROOF
<1>1. [n EXCEPT !.position = pos].id = n.id /\ [n EXCEPT !.position = pos].label = n.label
  BY DEF Node
<1> QED BY <1>1 DEF Moved

LEMMA LabelledKeeps ==
    ASSUME NEW ns, NEW id, NEW text, NEW n \in ns, n.id # id
    PROVE  n \in Labelled(ns, id, text)
BY DEF Labelled

LEMMA ShownLabel ==
    ASSUME NEW ns, NEW es, Shows(ns, es)
    PROVE  nodes' = ns /\ label' \in {label, Nil}
BY DEF Shows

LEMMA NodesKeep ==
    ASSUME EditorTypes,
           \/ \E n \in Node : AddNodeHere(n)
           \/ \E id \in NodeIds : \/ DeleteSelectedNode(id)
                                  \/ \E pos \in Positions : DragNode(id, pos)
           \/ \E id \in EdgeIds : DeleteSelectedEdge(id)
           \/ MenuDelete
    PROVE  Keeps
PROOF
<1> USE DEF Keeps
<1>1. CASE \E n \in Node : AddNodeHere(n)
  <2>1. PICK n \in Node : AddNodeHere(n)
    BY <1>1
  <2>2. past \subseteq past' /\ ("untyped" \in past' => "untyped" \in past)
    BY <2>1, SentNotes DEF AddNodeHere
  <2> QED BY <2>1, <2>2 DEF AddNodeHere, Shows
<1>2. CASE \E id \in NodeIds : DeleteSelectedNode(id)
  <2>1. PICK id \in NodeIds : DeleteSelectedNode(id)
    BY <1>2
  <2>2. past \subseteq past' /\ ("untyped" \in past' => "untyped" \in past)
    BY <2>1, SentNotes DEF DeleteSelectedNode
  <2>3. Shows(WithoutNode(nodes, id), Detached(edges, id))
    BY <2>1 DEF DeleteSelectedNode
  <2> QED BY <2>2, <2>3, WithoutNodeKeeps, ShownLabel
<1>3. CASE \E id \in NodeIds, pos \in Positions : DragNode(id, pos)
  <2>1. PICK id \in NodeIds, pos \in Positions : DragNode(id, pos)
    BY <1>3
  <2>2. past \subseteq past' /\ ("untyped" \in past' => "untyped" \in past)
    BY <2>1, SentNotes DEF DragNode
  <2>3. Shows(Moved(nodes, id, pos), edges) /\ nodes \in SUBSET Node
    BY <2>1 DEF DragNode, EditorTypes, PageTyped
  <2> QED BY <2>2, <2>3, MovedKeeps, ShownLabel
<1>4. CASE \E id \in EdgeIds : DeleteSelectedEdge(id)
  <2>1. PICK id \in EdgeIds : DeleteSelectedEdge(id)
    BY <1>4
  <2>2. past \subseteq past' /\ ("untyped" \in past' => "untyped" \in past)
    BY <2>1, SentNotes DEF DeleteSelectedEdge
  <2>3. Shows(nodes, Without(edges, id))
    BY <2>1 DEF DeleteSelectedEdge
  <2> QED BY <2>2, <2>3, ShownLabel
<1>5. CASE MenuDelete
  <2>1. past \subseteq past' /\ ("untyped" \in past' => "untyped" \in past)
    BY <1>5, SentNotes DEF MenuDelete
  <2>2. \/ Shows(WithoutNode(nodes, menu), Detached(edges, menu))
        \/ Shows(nodes, Without(edges, menu))
    BY <1>5 DEF MenuDelete
  <2> QED BY <2>1, <2>2, WithoutNodeKeeps, ShownLabel
<1> QED BY <1>1, <1>2, <1>3, <1>4, <1>5

LEMMA IdleKeeps ==
    ASSUME \/ UNCHANGED vars
           \/ \E id \in NodeIds \cup EdgeIds : OpenMenu(id)
           \/ CloseMenu \/ TimerFires \/ ClosePopup \/ CancelEdit
           \/ \E id \in EdgeIds : Connect(id)
           \/ \E type \in EdgeTypes : SelectEdgeType(type)
           \/ HandleOperation \/ OthersEdit \/ OthersRestore
    PROVE  Keeps
PROOF
<1>1. nodes' = nodes /\ label' \in {label, Nil}
  BY DEF OpenMenu, CloseMenu, TimerFires, ClosePopup, CancelEdit, Connect, SelectEdgeType, HandleOperation,
         OthersEdit, OthersRestore, store, open, vars
<1>2. past \subseteq past' /\ ("untyped" \in past' => "untyped" \in past)
  BY DEF OpenMenu, CloseMenu, TimerFires, ClosePopup, CancelEdit, Connect, SelectEdgeType, HandleOperation,
         OthersEdit, OthersRestore, vars, Note, Crossing, Overtaken
<1> QED BY <1>1, <1>2 DEF Keeps

LEMMA MessageKeeps ==
    ASSUME EditorTypes, OnOperationBroadcast \/ OnCanvasReplaced
    PROVE  Keeps
PROOF
<1>1. past \subseteq past' /\ ("untyped" \in past' => "untyped" \in past)
  BY DEF OnOperationBroadcast, OnCanvasReplaced, Note, Doubled, Renamed
<1>2. CASE OnOperationBroadcast
  <2>1. PICK m \in Operation : m = Message /\ Shows(BroadcastNodes(m), BroadcastEdges(m))
    BY <1>2, BroadcastShows
  <2>2. nodes' = BroadcastNodes(m) /\ label' \in {label, Nil} /\ nodes \in SUBSET Node
    BY <2>1, ShownLabel DEF EditorTypes, PageTyped
  <2>3. ASSUME label' # Nil, "renamed" \notin past', NEW n \in nodes, n.id = label.node
        PROVE  \E k \in nodes' : k.id = n.id /\ k.label = n.label
    <3>1. CASE m.type = "deleteNode"
      <4>1. Shows(WithoutNode(nodes, m.nodeId), BroadcastEdges(m))
        BY <2>1, <3>1 DEF BroadcastNodes
      <4> QED BY <2>3, <4>1, WithoutNodeKeeps
    <3>2. CASE m.type = "moveNode"
      BY <2>2, <3>2, MovedKeeps DEF BroadcastNodes
    <3>3. CASE m.type = "updateNode"
      <4>1. Renamed({m.nodeId}) \subseteq past'
        BY <1>2, <2>1, <3>3 DEF OnOperationBroadcast, Note
      <4>2. label # Nil
        BY <2>2, <2>3
      <4>3. n.id # m.nodeId
        BY <2>3, <4>1, <4>2 DEF Renamed
      <4> QED BY <2>2, <3>3, <4>3, LabelledKeeps DEF BroadcastNodes
    <3>4. CASE m.type \notin {"deleteNode", "moveNode", "updateNode"}
      <4>1. n \in nodes'
        BY <2>2, <3>4 DEF BroadcastNodes
      <4> QED BY <4>1
    <3> QED BY <3>1, <3>2, <3>3, <3>4
  <2> QED BY <1>1, <2>2, <2>3 DEF Keeps
<1>3. CASE OnCanvasReplaced
  <2>1. PICK c \in Restorable : c = Message.content /\ Shows(c.nodes, SetToSeq(c.edges))
    BY <1>3, MessageTyped DEF OnCanvasReplaced
  <2>2. Renamed({n.id : n \in c.nodes}) \subseteq past'
    BY <1>3, <2>1 DEF OnCanvasReplaced, Note
  <2>3. label' \in {label, Nil}
    BY <2>1, ShownLabel
  <2>4. label' # Nil => "renamed" \in past'
    <3>1. SUFFICES ASSUME label' # Nil PROVE "renamed" \in past'
      OBVIOUS
    <3>2. label # Nil /\ \E n \in c.nodes : n.id = label.node
      BY <2>1, <2>3, <3>1 DEF Shows
    <3> QED BY <2>2, <3>2 DEF Renamed
  <2> QED BY <1>1, <2>3, <2>4 DEF Keeps
<1> QED BY <1>2, <1>3

\* Opening the editor, typing in it, and leaving it.
LEMMA EditingLabel ==
    ASSUME EditorTypes, IdsInv, LabelInv,
           \/ \E id \in NodeIds : StartEdit(id)
           \/ \E text \in Labels \cup {Blank} : TypeLabel(text)
           \/ CommitEdit
    PROVE  LabelInv'
PROOF
<1>1. CASE \E id \in NodeIds : StartEdit(id)
  <2>1. PICK id \in NodeIds : StartEdit(id)
    BY <1>1
  <2>2. nodes' = nodes /\ past' = past /\ label' = [node |-> id, text |-> LabelOf(id), typed |-> FALSE]
    BY <2>1 DEF StartEdit, store
  <2>3. label'.node = id /\ label'.text = LabelOf(id) /\ LabelOf(id)' = LabelOf(id)
    BY <2>2 DEF LabelOf
  <2> QED BY <2>2, <2>3 DEF LabelInv, Untyped
<1>2. CASE \E text \in Labels \cup {Blank} : TypeLabel(text)
  <2>1. past' = past /\ label \in Editor /\ \E text : label' = [label EXCEPT !.text = text, !.typed = TRUE]
    BY <1>2 DEF TypeLabel, EditorTypes, PageTyped
  <2>2. label'.typed
    BY <2>1 DEF Editor
  <2> QED BY <2>1, <2>2 DEF LabelInv, Untyped
<1>3. CASE CommitEdit
  <2>1. label # Nil /\ label' = Nil /\ past \subseteq past'
    BY <1>3 DEF CommitEdit, Note
  <2>2. CASE ~Changed
    <3>1. past' = past
      BY <1>3, <2>2 DEF CommitEdit
    <3> QED BY <2>1, <3>1 DEF LabelInv, Untyped
  <2>3. CASE Changed
    <3>1. "renamed" \notin past => label.typed
      BY <2>1, <2>3 DEF LabelInv, Untyped, Changed
    <3>2. PICK op : past' = past \cup (Crossing(<<op>>) \cup (IF label.typed THEN {} ELSE {"untyped"}))
      BY <1>3, <2>3 DEF CommitEdit, Note
    <3>3. "untyped" \notin Crossing(<<op>>)
      BY DEF Crossing
    <3>4. "renamed" \notin past' => "untyped" \notin past'
      BY <2>1, <3>1, <3>2, <3>3 DEF LabelInv
    <3> QED BY <2>1, <3>4 DEF LabelInv, Untyped
  <2> QED BY <2>2, <2>3
<1> QED BY <1>1, <1>2, <1>3

LEMMA NextLabel ==
    ASSUME EditorTypes, IdsInv, IdsInv', LabelInv, [Next]_vars
    PROVE  LabelInv'
PROOF
<1>1. \/ Keeps
      \/ \E id \in NodeIds : StartEdit(id)
      \/ \E text \in Labels \cup {Blank} : TypeLabel(text)
      \/ CommitEdit
  <2>1. CASE UNCHANGED vars
    BY <2>1, IdleKeeps
  <2>2. CASE Next
    BY <2>2, NodesKeep, IdleKeeps, MessageKeeps DEF Next
  <2> QED BY <2>1, <2>2
<1> QED BY <1>1, KeepsLabel, EditingLabel

LEMMA LabelInvariant == Spec => [](IdsInv /\ LabelInv)
PROOF
<1>1. Init => LabelInv
  BY DEF Init, LabelInv, Untyped
<1>2. EditorTypes /\ (IdsInv /\ LabelInv) /\ [Next]_vars => (IdsInv /\ LabelInv)'
  BY NextIds, NextLabel
<1> QED BY <1>1, <1>2, InitIds, TypesInvariant, PTL DEF Spec

\* Leaving the editor of a label sends no text that nobody typed in it, whatever
\* others add, move or delete meanwhile: only a rename of that node by somebody
\* else, or a restore, makes it put the old label back (BaseNode.tsx:113-121).
THEOREM UntypedLabelsStay == Spec => []OnlyTypedLabelsAreSent
PROOF
<1>1. LabelInv => OnlyTypedLabelsAreSent
  BY DEF LabelInv, OnlyTypedLabelsAreSent, Excused
<1> QED BY <1>1, LabelInvariant, PTL
-----------------------------------------------------------------------------
(* The page as a canvas.                                                   *)

\* What the server would hold of the page: pending edges are not sent, and labels
\* are sanitized.
San(n) == [n EXCEPT !.label = Sanitize[@]]
PageCanvas(ns, es) ==
    [nodes |-> {San(n) : n \in ns}, edges |-> {e \in ToSet(es) : e.edgeType # Pending}, revision |-> 0]
Shown == PageCanvas(nodes, edges)
Live == AtRevision(server, 0)

LEMMA SanIs ==
    ASSUME NEW n \in Node
    PROVE  /\ San(n) \in Node /\ San(n).id = n.id /\ San(n).position = n.position
           /\ San(n).label = Sanitize[n.label]
           /\ Sanitize[n.label] = n.label => San(n) = n
PROOF
<1>1. n = [id |-> n.id, position |-> n.position, label |-> n.label]
  BY DEF Node
<1>2. n.label \in Labels /\ Sanitize[n.label] \in Labels
  BY SanitizeAssumption DEF Node
<1>3. San(n) = [id |-> n.id, position |-> n.position, label |-> Sanitize[n.label]]
  BY <1>1 DEF San
<1> QED BY <1>1, <1>2, <1>3 DEF Node

LEMMA PageCanvasIs ==
    ASSUME NEW ns \in SUBSET Node, NEW es \in Seq(PageEdge)
    PROVE  LET c == PageCanvas(ns, es)
           IN  /\ c \in CanvasStateData /\ c.revision = 0
               /\ c.nodes = {San(n) : n \in ns}
               /\ c.edges = {e \in ToSet(es) : e.edgeType # Pending}
               /\ \A id : HasNode(c, id) <=> id \in IdsOf(ns)
PROOF
<1> DEFINE c == PageCanvas(ns, es)
<1>1. /\ c.nodes = {San(n) : n \in ns} /\ c.revision = 0
      /\ c.edges = {e \in ToSet(es) : e.edgeType # Pending}
  BY DEF PageCanvas
<1>2. ToSet(es) \subseteq PageEdge
  BY DEF ToSet
<1>3. c.edges \subseteq Edge
  <2>1. \A e \in PageEdge : e.edgeType # Pending => e \in Edge
    BY DEF PageEdge, EdgeOf
  <2> QED BY <1>1, <1>2, <2>1
<1>4. c.nodes \subseteq Node
  BY <1>1, SanIs
<1>5. c \in CanvasStateData
  BY <1>3, <1>4 DEF PageCanvas, CanvasStateData
<1>6. \A id : HasNode(c, id) <=> id \in IdsOf(ns)
  BY <1>1, SanIs DEF HasNode, IdsOf
<1> QED BY <1>1, <1>5, <1>6

\* Two canvases with the same nodes and edges.
LEMMA SameCanvas ==
    ASSUME NEW s \in CanvasStateData, NEW t \in CanvasStateData,
           s.nodes = t.nodes, s.edges = t.edges, s.revision = t.revision
    PROVE  s = t
BY DEF CanvasStateData

\* Each change of the page is what the server makes of the operation that is sent.
LEMMA PageAdds ==
    ASSUME NEW ns \in SUBSET Node, NEW es \in Seq(PageEdge), NEW op \in NodeAdditions,
           op.node.id \notin IdsOf(ns), Sanitize[op.node.label] = op.node.label
    PROVE  PageCanvas(ns \cup {op.node}, es) = ApplyOperation(PageCanvas(ns, es), op)
PROOF
<1>1. op.node \in Node /\ op \in Operation
  BY DEF NodeAdditions, Operation
<1>2. PICK s \in CanvasStateData : s = PageCanvas(ns, es)
  BY PageCanvasIs
<1>3. PICK t \in CanvasStateData : t = PageCanvas(ns \cup {op.node}, es)
  BY <1>1, PageCanvasIs
<1>4. ~HasNode(s, op.node.id)
  BY <1>2, PageCanvasIs
<1>5. PICK u \in CanvasStateData : u = ApplyOperation(s, op) /\ u.revision = s.revision
  BY <1>1, ApplyOperationType
<1>6. AddNodeEffect(s, u, op)
  BY <1>1, <1>5, EffectsOfTheOthers
<1>7. San(op.node) = op.node
  BY <1>1, SanIs
<1>8. t.nodes = s.nodes \cup {op.node} /\ t.edges = s.edges /\ t.revision = s.revision
  BY <1>2, <1>3, <1>7 DEF PageCanvas
<1>9. u.nodes = s.nodes \cup {op.node} /\ u.edges = s.edges
  BY <1>4, <1>6 DEF AddNodeEffect
<1>10. t = u
  BY <1>5, <1>8, <1>9, SameCanvas
<1> QED BY <1>2, <1>3, <1>5, <1>10

LEMMA PageChanges ==
    ASSUME NEW ns \in SUBSET Node, NEW es \in Seq(PageEdge), NEW op \in NodeMoves \cup NodeUpdates
    PROVE  LET changed == IF op.type = "moveNode" THEN Moved(ns, op.nodeId, op.position)
                          ELSE Labelled(ns, op.nodeId, op.label)
           IN  PageCanvas(changed, es) = ApplyOperation(PageCanvas(ns, es), op)
PROOF
<1> DEFINE changed == IF op.type = "moveNode" THEN Moved(ns, op.nodeId, op.position)
                      ELSE Labelled(ns, op.nodeId, op.label)
<1>1. PICK g : g = [n \in Node |-> IF n.id # op.nodeId THEN n
                                   ELSE IF op.type = "moveNode" THEN [n EXCEPT !.position = op.position]
                                   ELSE [n EXCEPT !.label = op.label]]
  OBVIOUS
<1>2. changed = {g[n] : n \in ns}
  <2>1. CASE op.type = "moveNode"
    BY <1>1, <2>1 DEF Moved
  <2>2. CASE op.type # "moveNode"
    BY <1>1, <2>2 DEF Labelled
  <2> QED BY <2>1, <2>2
<1>3. PICK f \in [Node -> Node] :
         /\ f = NodeChange(op)
         /\ \A s \in CanvasStateData : ApplyOperation(s, op) = WithNodes(s, {f[n] : n \in s.nodes})
  BY ChangeIsApplied
<1>4. \A n \in Node : San(g[n]) = f[San(n)] /\ g[n] \in Node
  <2> SUFFICES ASSUME NEW n \in Node PROVE San(g[n]) = f[San(n)] /\ g[n] \in Node
    OBVIOUS
  <2>1. San(n) \in Node /\ San(n).id = n.id
    BY SanIs
  <2>2. CASE n.id # op.nodeId
    BY <1>1, <1>3, <2>1, <2>2 DEF NodeChange
  <2>3. CASE n.id = op.nodeId /\ op.type = "moveNode"
    <3>1. g[n] = [n EXCEPT !.position = op.position] /\ f[San(n)] = [San(n) EXCEPT !.position = op.position]
      BY <1>1, <1>3, <2>1, <2>3 DEF NodeChange
    <3>2. op.position \in Positions
      BY <2>3 DEF NodeMoves, NodeUpdates
    <3>3. [n EXCEPT !.position = op.position] \in Node
      BY <3>2 DEF Node
    <3>4. San([n EXCEPT !.position = op.position]) = [San(n) EXCEPT !.position = op.position]
      BY DEF San, Node
    <3> QED BY <3>1, <3>3, <3>4
  <2>4. CASE n.id = op.nodeId /\ op.type # "moveNode"
    <3>1. g[n] = [n EXCEPT !.label = op.label] /\ f[San(n)] = [San(n) EXCEPT !.label = Sanitize[op.label]]
      BY <1>1, <1>3, <2>1, <2>4 DEF NodeChange
    <3>2. op.label \in Labels
      BY <2>4 DEF NodeMoves, NodeUpdates
    <3>3. [n EXCEPT !.label = op.label] \in Node
      BY <3>2 DEF Node
    <3>4. San([n EXCEPT !.label = op.label]) = [San(n) EXCEPT !.label = Sanitize[op.label]]
      BY DEF San, Node
    <3> QED BY <3>1, <3>3, <3>4
  <2> QED BY <2>2, <2>3, <2>4
<1>5. {San(n) : n \in {g[m] : m \in ns}} = {f[n] : n \in {San(m) : m \in ns}}
  BY <1>4
<1>6. PICK s \in CanvasStateData : s = PageCanvas(ns, es) /\ s.nodes = {San(n) : n \in ns}
  BY PageCanvasIs
<1>7. ApplyOperation(s, op) = WithNodes(s, {San(n) : n \in changed})
  BY <1>2, <1>3, <1>5, <1>6
<1>8. WithNodes(s, {San(n) : n \in changed}) = PageCanvas(changed, es)
  BY <1>6 DEF WithNodes, PageCanvas
<1> QED BY <1>6, <1>7, <1>8

\* A page without dangling edges has no edge of a node that is not there.
LEMMA PageDeletesNode ==
    ASSUME NEW ns \in SUBSET Node, NEW es \in Seq(PageEdge), NEW op \in NodeDeletions,
           NoDanglingEdges(PageCanvas(ns, es))
    PROVE  PageCanvas(WithoutNode(ns, op.nodeId), Detached(es, op.nodeId)) =
               ApplyOperation(PageCanvas(ns, es), op)
PROOF
<1>1. WithoutNode(ns, op.nodeId) \in SUBSET Node /\ op \in Operation
  BY DEF WithoutNode, NodeDeletions, Operation
<1>2. /\ Detached(es, op.nodeId) \in Seq(PageEdge)
      /\ ToSet(Detached(es, op.nodeId)) = {e \in ToSet(es) : ~Touches(e, op.nodeId)}
  BY DetachedIs
<1>3. PICK s \in CanvasStateData : s = PageCanvas(ns, es)
  BY PageCanvasIs
<1>4. PICK t \in CanvasStateData : t = PageCanvas(WithoutNode(ns, op.nodeId), Detached(es, op.nodeId))
  BY <1>1, <1>2, PageCanvasIs
<1>5. PICK u \in CanvasStateData : u = ApplyOperation(s, op) /\ u.revision = s.revision
  BY <1>1, ApplyOperationType
<1>6. DeleteNodeEffect(s, u, op)
  BY <1>1, <1>5, EffectsOfTheOthers
<1>7. t.nodes = {n \in s.nodes : n.id # op.nodeId} /\ t.revision = s.revision
  <2>1. {San(n) : n \in {m \in ns : m.id # op.nodeId}} = {n \in {San(m) : m \in ns} : n.id # op.nodeId}
    BY SanIs
  <2> QED BY <1>3, <1>4, <2>1 DEF PageCanvas, WithoutNode
<1>8. t.edges = {e \in s.edges : e.source # op.nodeId /\ e.target # op.nodeId}
  BY <1>2, <1>3, <1>4 DEF PageCanvas, Touches
<1>9. ~HasNode(s, op.nodeId) => t.edges = s.edges
  BY <1>3, <1>8 DEF NoDanglingEdges
<1>10. t = u
  BY <1>5, <1>6, <1>7, <1>8, <1>9, SameCanvas DEF DeleteNodeEffect
<1> QED BY <1>3, <1>4, <1>5, <1>10

LEMMA PageDeletesEdge ==
    ASSUME NEW ns \in SUBSET Node, NEW es \in Seq(PageEdge), NEW op \in EdgeDeletions
    PROVE  PageCanvas(ns, Without(es, op.edgeId)) = ApplyOperation(PageCanvas(ns, es), op)
PROOF
<1>1. op \in Operation
  BY DEF EdgeDeletions, Operation
<1>2. /\ Without(es, op.edgeId) \in Seq(PageEdge)
      /\ ToSet(Without(es, op.edgeId)) = {e \in ToSet(es) : e.id # op.edgeId}
  BY WithoutIs
<1>3. PICK s \in CanvasStateData : s = PageCanvas(ns, es)
  BY PageCanvasIs
<1>4. PICK t \in CanvasStateData : t = PageCanvas(ns, Without(es, op.edgeId))
  BY <1>2, PageCanvasIs
<1>5. PICK u \in CanvasStateData : u = ApplyOperation(s, op) /\ u.revision = s.revision
  BY <1>1, ApplyOperationType
<1>6. DeleteEdgeEffect(s, u, op)
  BY <1>1, <1>5, EffectsOfTheOthers
<1>7. t.nodes = s.nodes /\ t.revision = s.revision /\ t.edges = {e \in s.edges : e.id # op.edgeId}
  BY <1>2, <1>3, <1>4 DEF PageCanvas
<1>8. t = u
  BY <1>5, <1>6, <1>7, SameCanvas DEF DeleteEdgeEffect
<1> QED BY <1>3, <1>4, <1>5, <1>8

LEMMA PageConnects ==
    ASSUME NEW ns \in SUBSET Node, NEW es \in Seq(PageEdge), NEW q \in Seq(PageEdge), NEW op \in EdgeAdditions,
           {e \in ToSet(q) : e.edgeType # Pending} = {e \in ToSet(es) : e.edgeType # Pending} \cup {op.edge},
           FitsOp(PageCanvas(ns, es), op)
    PROVE  PageCanvas(ns, q) = ApplyOperation(PageCanvas(ns, es), op)
PROOF
<1>1. op \in Operation /\ op.type = "addEdge"
  BY DEF EdgeAdditions, Operation
<1>2. PICK s \in CanvasStateData : s = PageCanvas(ns, es)
  BY PageCanvasIs
<1>3. PICK t \in CanvasStateData : t = PageCanvas(ns, q)
  BY PageCanvasIs
<1>4. PICK u \in CanvasStateData : u = ApplyOperation(s, op) /\ u.revision = s.revision
  BY <1>1, ApplyOperationType
<1>5. AddEdgeEffect(s, u, op)
  BY <1>1, <1>4, EffectsOfTheOthers
<1>6. t.nodes = s.nodes /\ t.revision = s.revision /\ t.edges = s.edges \cup {op.edge}
  BY <1>2, <1>3 DEF PageCanvas
<1>7. t = u
  BY <1>1, <1>2, <1>4, <1>5, <1>6, SameCanvas DEF AddEdgeEffect, FitsOp
<1> QED BY <1>2, <1>3, <1>4, <1>7

-----------------------------------------------------------------------------
(* The way a canvas takes through a queue of messages.                     *)

Messages == Operation \cup Replacement

Effect(s, m) == IF m.type = "replace" THEN AtRevision(m.content, 0) ELSE ApplyOperation(s, m)
Fits(s, m) == m.type # "replace" => FitsOp(s, m)

Path(x, s, q) ==
    /\ x \in [0..Len(q) -> CanvasStateData]
    /\ x[0] = s
    /\ \A i \in 1..Len(q) : Fits(x[i - 1], q[i]) /\ x[i] = Effect(x[i - 1], q[i])

\* From s through p, and from t through q, to one canvas.
Meet(s, p, t, q) ==
    \E x, y : Path(x, s, p) /\ Path(y, t, q) /\ x[Len(p)] = y[Len(q)]

\* Messages that do not touch what op touches.
Harmless(m, op) == m.type # "replace" /\ ~Clashing(op, m)

LEMMA MessageKinds ==
    ASSUME NEW m \in Messages
    PROVE  /\ m.type # "replace" => m \in Operation
           /\ m.type = "replace" => m.content \in Restorable /\ m.content \in Content
PROOF
<1>1. m \in Replacement => m.type = "replace" /\ m.content \in Restorable
  BY DEF Replacement
<1>2. Restorable \subseteq Content
  BY EditorAssumption
<1> QED BY <1>1, <1>2, OperationIs DEF Messages

LEMMA EffectType ==
    ASSUME NEW s \in CanvasStateData, NEW m \in Messages
    PROVE  Effect(s, m) \in CanvasStateData
PROOF
<1>1. CASE m.type = "replace"
  BY <1>1, MessageKinds DEF Effect, AtRevision, Content, CanvasStateData
<1>2. CASE m.type # "replace"
  BY <1>2, MessageKinds, ApplyOperationType DEF Effect
<1> QED BY <1>1, <1>2

LEMMA PathStart ==
    ASSUME NEW s \in CanvasStateData
    PROVE  Path([i \in 0..0 |-> s], s, <<>>)
BY DEF Path

LEMMA PathTail ==
    ASSUME NEW q \in Seq(Messages), q # <<>>, NEW s, NEW x, Path(x, s, q)
    PROVE  /\ Fits(s, Head(q))
           /\ Path([i \in 0..Len(q) - 1 |-> x[i + 1]], Effect(s, Head(q)), Tail(q))
PROOF
<1>1. /\ Len(q) \in Nat /\ Len(q) >= 1 /\ Head(q) = q[1]
      /\ Len(Tail(q)) = Len(q) - 1
      /\ \A i \in 1..Len(q) - 1 : Tail(q)[i] = q[i + 1]
  OBVIOUS
<1>2. Fits(s, Head(q)) /\ x[1] = Effect(s, Head(q))
  BY <1>1 DEF Path
<1> DEFINE y == [i \in 0..Len(q) - 1 |-> x[i + 1]]
<1>3. y \in [0..Len(Tail(q)) -> CanvasStateData] /\ y[0] = Effect(s, Head(q))
  BY <1>1, <1>2 DEF Path
<1>4. ASSUME NEW i \in 1..Len(Tail(q))
      PROVE  Fits(y[i - 1], Tail(q)[i]) /\ y[i] = Effect(y[i - 1], Tail(q)[i])
  <2>1. y[i - 1] = x[i] /\ y[i] = x[i + 1] /\ Tail(q)[i] = q[i + 1] /\ i + 1 \in 1..Len(q)
    BY <1>1
  <2>2. Fits(x[(i + 1) - 1], q[i + 1]) /\ x[i + 1] = Effect(x[(i + 1) - 1], q[i + 1])
    BY <2>1 DEF Path
  <2>3. (i + 1) - 1 = i
    BY <1>1
  <2> QED BY <2>1, <2>2, <2>3
<1> QED BY <1>2, <1>3, <1>4 DEF Path

LEMMA PathAppend ==
    ASSUME NEW q \in Seq(Messages), NEW s, NEW x, Path(x, s, q),
           NEW m \in Messages, Fits(x[Len(q)], m)
    PROVE  Path([i \in 0..Len(q) + 1 |-> IF i <= Len(q) THEN x[i] ELSE Effect(x[Len(q)], m)],
                s, Append(q, m))
PROOF
<1>1. Len(q) \in Nat /\ Len(Append(q, m)) = Len(q) + 1
  OBVIOUS
<1>2. /\ \A i \in 1..Len(q) : Append(q, m)[i] = q[i]
      /\ Append(q, m)[Len(q) + 1] = m
  OBVIOUS
<1> DEFINE y == [i \in 0..Len(q) + 1 |-> IF i <= Len(q) THEN x[i] ELSE Effect(x[Len(q)], m)]
<1>3. y \in [0..Len(q) + 1 -> CanvasStateData] /\ y[0] = s
  BY <1>1, EffectType DEF Path
<1>4. ASSUME NEW i \in 1..Len(q) + 1
      PROVE  Fits(y[i - 1], Append(q, m)[i]) /\ y[i] = Effect(y[i - 1], Append(q, m)[i])
  <2>1. CASE i <= Len(q)
    <3>1. y[i - 1] = x[i - 1] /\ y[i] = x[i] /\ Append(q, m)[i] = q[i] /\ i \in 1..Len(q)
      BY <1>1, <1>2, <2>1
    <3> QED BY <3>1 DEF Path
  <2>2. CASE i = Len(q) + 1
    <3>1. y[i - 1] = x[Len(q)] /\ y[i] = Effect(x[Len(q)], m) /\ Append(q, m)[i] = m
      BY <1>1, <1>2, <2>2
    <3> QED BY <3>1
  <2> QED BY <1>1, <2>1, <2>2
<1> QED BY <1>1, <1>3, <1>4 DEF Path

\* An operation applied at the start of a way through harmless messages, with
\* which it commutes, is applied all along it.
LEMMA PathUnder ==
    ASSUME NEW q \in Seq(Messages), NEW s, NEW x, Path(x, s, q),
           NEW op \in Operation, FitsOp(s, op), \A i \in 1..Len(q) : Harmless(q[i], op)
    PROVE  /\ \A i \in 0..Len(q) : FitsOp(x[i], op)
           /\ Path([i \in 0..Len(q) |-> ApplyOperation(x[i], op)], ApplyOperation(s, op), q)
PROOF
<1>1. Len(q) \in Nat /\ \A i \in 1..Len(q) : q[i] \in Messages
  OBVIOUS
<1>2. ASSUME NEW i \in 1..Len(q)
      PROVE  /\ x[i - 1] \in CanvasStateData /\ q[i] \in Operation
             /\ ~Clashing(op, q[i]) /\ ~Clashing(q[i], op)
             /\ FitsOp(x[i - 1], q[i]) /\ x[i] = ApplyOperation(x[i - 1], q[i])
  <2>1. Harmless(q[i], op) /\ q[i] \in Messages /\ i - 1 \in 0..Len(q)
    BY <1>1
  <2>2. q[i] \in Operation /\ q[i].type # "replace"
    BY <2>1, MessageKinds DEF Harmless
  <2>3. Fits(x[i - 1], q[i]) /\ x[i] = Effect(x[i - 1], q[i]) /\ x[i - 1] \in CanvasStateData
    BY <2>1 DEF Path
  <2> QED BY <2>1, <2>2, <2>3, ClashingIsSymmetric DEF Harmless, Fits, Effect
<1>3. \A i \in 0..Len(q) : FitsOp(x[i], op)
  <2> DEFINE S == {i \in 0..Len(q) : FitsOp(x[i], op)}
  <2>1. 0 \in S
    BY <1>1 DEF Path
  <2>2. \A i \in 1..Len(q) : i - 1 \in S => i \in S
    BY <1>2, StillFits
  <2> HIDE DEF S
  <2>3. \A i \in 0..Len(q) : i \in S
    BY <1>1, <2>1, <2>2, UpToN
  <2> QED BY <2>3 DEF S
<1> DEFINE y == [i \in 0..Len(q) |-> ApplyOperation(x[i], op)]
<1>4. y \in [0..Len(q) -> CanvasStateData] /\ y[0] = ApplyOperation(s, op)
  BY <1>1, ApplyOperationType DEF Path
<1>5. ASSUME NEW i \in 1..Len(q)
      PROVE  Fits(y[i - 1], q[i]) /\ y[i] = Effect(y[i - 1], q[i])
  <2>1. y[i - 1] = ApplyOperation(x[i - 1], op) /\ y[i] = ApplyOperation(x[i], op)
    BY <1>1
  <2>2. FitsOp(y[i - 1], q[i])
    BY <1>2, <2>1, StillFits
  <2>3. ~OrderMatters(op, q[i])
    BY <1>2 DEF Clashing
  <2>4. y[i] = ApplyOperation(y[i - 1], q[i])
    BY <1>2, <2>1, <2>3, OperationsCommute
  <2>5. q[i].type # "replace"
    BY <1>2, OperationIs
  <2> QED BY <2>2, <2>4, <2>5 DEF Fits, Effect
<1> QED BY <1>3, <1>4, <1>5 DEF Path

-----------------------------------------------------------------------------
(* Two ways that meet go on meeting.                                       *)

LEMMA MeetSymmetric ==
    ASSUME NEW s, NEW p, NEW t, NEW q, Meet(s, p, t, q)
    PROVE  Meet(t, q, s, p)
BY DEF Meet

LEMMA MeetAtOnce ==
    ASSUME NEW s \in CanvasStateData
    PROVE  Meet(s, <<>>, s, <<>>)
BY PathStart DEF Meet

LEMMA MeetAtLast ==
    ASSUME NEW s, NEW t, Meet(s, <<>>, t, <<>>)
    PROVE  s = t
BY DEF Meet, Path

\* The first message of a way takes effect.
LEMMA MeetHead ==
    ASSUME NEW s, NEW p \in Seq(Messages), p # <<>>, NEW t, NEW q, Meet(s, p, t, q)
    PROVE  Fits(s, Head(p)) /\ Meet(Effect(s, Head(p)), Tail(p), t, q)
PROOF
<1>1. PICK x, y : Path(x, s, p) /\ Path(y, t, q) /\ x[Len(p)] = y[Len(q)]
  BY DEF Meet
<1>2. /\ Fits(s, Head(p))
      /\ Path([i \in 0..Len(p) - 1 |-> x[i + 1]], Effect(s, Head(p)), Tail(p))
  BY <1>1, PathTail
<1>3. Len(p) \in Nat /\ Len(p) >= 1 /\ Len(Tail(p)) = Len(p) - 1
  OBVIOUS
<1>4. [i \in 0..Len(p) - 1 |-> x[i + 1]][Len(Tail(p))] = x[Len(p)]
  BY <1>3
<1> QED BY <1>1, <1>2, <1>4 DEF Meet

\* An operation at the start of one way and at the end of the other.
LEMMA MeetUnder ==
    ASSUME NEW s, NEW p \in Seq(Messages), NEW t, NEW q \in Seq(Messages), Meet(s, p, t, q),
           NEW op \in Operation, FitsOp(s, op), \A i \in 1..Len(p) : Harmless(p[i], op)
    PROVE  Meet(ApplyOperation(s, op), p, t, Append(q, op))
PROOF
<1>1. PICK x, y : Path(x, s, p) /\ Path(y, t, q) /\ x[Len(p)] = y[Len(q)]
  BY DEF Meet
<1>2. Len(p) \in Nat /\ Len(q) \in Nat /\ Len(Append(q, op)) = Len(q) + 1
  OBVIOUS
<1>3. op \in Messages /\ op.type # "replace"
  BY OperationIs DEF Messages
<1> DEFINE v == [i \in 0..Len(p) |-> ApplyOperation(x[i], op)]
           w == [i \in 0..Len(q) + 1 |-> IF i <= Len(q) THEN y[i] ELSE Effect(y[Len(q)], op)]
<1>4. FitsOp(x[Len(p)], op) /\ Path(v, ApplyOperation(s, op), p)
  BY <1>1, <1>2, PathUnder
<1>5. Path(w, t, Append(q, op))
  BY <1>1, <1>3, <1>4, PathAppend DEF Fits
<1>6. v[Len(p)] = ApplyOperation(x[Len(p)], op) /\ w[Len(q) + 1] = Effect(y[Len(q)], op)
  BY <1>2
<1>7. v[Len(p)] = w[Len(Append(q, op))]
  BY <1>1, <1>2, <1>3, <1>6 DEF Effect
<1> QED BY <1>4, <1>5, <1>7 DEF Meet

\* A canvas that replaces what a way leads to is met at once.
LEMMA MeetReplaced ==
    ASSUME NEW s, NEW p, NEW t, NEW q \in Seq(Messages), Meet(s, p, t, q),
           NEW m \in Messages, m.type = "replace", NEW r \in CanvasStateData, r = Effect(s, m)
    PROVE  Meet(t, Append(q, m), r, <<>>)
PROOF
<1>1. PICK y : Path(y, t, q)
  BY DEF Meet
<1>2. Len(q) \in Nat /\ Len(Append(q, m)) = Len(q) + 1
  OBVIOUS
<1>3. Fits(y[Len(q)], m) /\ Effect(y[Len(q)], m) = r
  BY DEF Fits, Effect
<1> DEFINE w == [i \in 0..Len(q) + 1 |-> IF i <= Len(q) THEN y[i] ELSE Effect(y[Len(q)], m)]
           x == [i \in 0..0 |-> r]
<1>4. Path(w, t, Append(q, m))
  BY <1>1, <1>3, PathAppend
<1>5. Path(x, r, <<>>)
  BY PathStart
<1>6. w[Len(Append(q, m))] = r /\ x[Len(<<>>)] = r
  BY <1>2, <1>3
<1> QED BY <1>4, <1>5, <1>6 DEF Meet

LEMMA ConcatAppended ==
    ASSUME NEW S, NEW q \in Seq(S), NEW a \in Seq(S), NEW e \in S
    PROVE  q \o Append(a, e) = Append(q \o a, e)
OBVIOUS

\* Several operations, one after another.
LEMMA MeetUnderAll ==
    ASSUME NEW s, NEW p \in Seq(Messages), NEW t, NEW q \in Seq(Operation), Meet(s, p, t, q),
           NEW ops \in Seq(Operation), NEW x, Path(x, s, ops),
           \A i \in 1..Len(p), j \in 1..Len(ops) : Harmless(p[i], ops[j])
    PROVE  Meet(x[Len(ops)], p, t, q \o ops)
PROOF
<1> DEFINE pre(k) == [i \in 1..k |-> ops[i]]
           S == {k \in 0..Len(ops) : Meet(x[k], p, t, q \o pre(k))}
<1>1. Len(ops) \in Nat /\ \A i \in 1..Len(ops) : ops[i] \in Operation
  OBVIOUS
<1>2. \A k \in 0..Len(ops) : pre(k) \in Seq(Operation) /\ Len(pre(k)) = k
  BY <1>1
<1>3. 0 \in S
  <2>1. pre(0) = <<>>
    BY <1>2
  <2>2. q \o pre(0) = q
    BY <2>1
  <2>3. x[0] = s
    BY DEF Path
  <2> QED BY <1>1, <2>2, <2>3
<1>4. ASSUME NEW k \in 1..Len(ops), k - 1 \in S PROVE k \in S
  <2>1. Meet(x[k - 1], p, t, q \o pre(k - 1))
    BY <1>4
  <2>2. PICK r \in Seq(Operation) : r = q \o pre(k - 1)
    <3>1. k - 1 \in 0..Len(ops)
      BY <1>1
    <3>2. pre(k - 1) \in Seq(Operation)
      BY <1>2, <3>1
    <3> QED BY <3>2, ConcatProperties
  <2>3. q \o pre(k) = Append(r, ops[k])
    <3>1. pre(k) = Append(pre(k - 1), ops[k])
      BY <1>1
    <3>2. pre(k - 1) \in Seq(Operation) /\ ops[k] \in Operation
      BY <1>1, <1>2
    <3>3. q \o Append(pre(k - 1), ops[k]) = Append(q \o pre(k - 1), ops[k])
      BY <3>2, ConcatAppended
    <3> QED BY <2>2, <3>1, <3>3
  <2>4. ops[k] \in Operation /\ ops[k].type # "replace"
    BY <1>1, OperationIs
  <2>5. FitsOp(x[k - 1], ops[k]) /\ x[k] = ApplyOperation(x[k - 1], ops[k])
    BY <2>4 DEF Path, Fits, Effect
  <2>6. \A i \in 1..Len(p) : Harmless(p[i], ops[k])
    OBVIOUS
  <2>7. r \in Seq(Messages)
    BY DEF Messages
  <2>8. Meet(x[k - 1], p, t, r)
    BY <2>1, <2>2
  <2>9. Meet(ApplyOperation(x[k - 1], ops[k]), p, t, Append(r, ops[k]))
    BY <2>4, <2>5, <2>6, <2>7, <2>8, MeetUnder
  <2>10. Meet(x[k], p, t, q \o pre(k))
    BY <2>3, <2>5, <2>9
  <2> QED BY <2>10
<1>5. Len(ops) \in S
  <2> HIDE DEF S
  <2>1. \A k \in 0..Len(ops) : k \in S
    BY <1>1, <1>3, <1>4, UpToN
  <2> QED BY <1>1, <2>1
<1>6. pre(Len(ops)) = ops
  BY <1>1
<1> QED BY <1>5, <1>6

-----------------------------------------------------------------------------
(* No two entries of the list of edges have one id.                        *)

UniqueEntries(es) == \A i, j \in DOMAIN es : es[i].id = es[j].id => i = j

LEMMA UniqueAppended ==
    ASSUME NEW es \in Seq(PageEdge), UniqueEntries(es), NEW e \in PageEdge, e.id \notin EdgeIdsOf(es)
    PROVE  UniqueEntries(Append(es, e))
PROOF
<1>1. /\ Len(es) \in Nat /\ DOMAIN es = 1..Len(es) /\ DOMAIN Append(es, e) = 1..Len(es) + 1
      /\ \A i \in 1..Len(es) : Append(es, e)[i] = es[i]
      /\ Append(es, e)[Len(es) + 1] = e
  OBVIOUS
<1>2. \A i \in 1..Len(es) : es[i].id # e.id
  BY <1>1 DEF EdgeIdsOf, ToSet
<1>3. \A i \in 1..Len(es) + 1 : i \in 1..Len(es) \/ i = Len(es) + 1
  BY <1>1
<1>4. ASSUME NEW i \in 1..Len(es) + 1, NEW j \in 1..Len(es) + 1,
             Append(es, e)[i].id = Append(es, e)[j].id
      PROVE  i = j
  <2>1. CASE i \in 1..Len(es) /\ j \in 1..Len(es)
    BY <1>1, <1>4, <2>1 DEF UniqueEntries
  <2>2. CASE i \in 1..Len(es) /\ j = Len(es) + 1
    BY <1>1, <1>2, <1>4, <2>2
  <2>3. CASE j \in 1..Len(es) /\ i = Len(es) + 1
    BY <1>1, <1>2, <1>4, <2>3
  <2> QED BY <1>3, <2>1, <2>2, <2>3
<1> QED BY <1>1, <1>4 DEF UniqueEntries

LEMMA UniqueSelected ==
    ASSUME NEW es \in Seq(PageEdge), UniqueEntries(es), NEW places
    PROVE  UniqueEntries(Entries(es, places))
PROOF
<1>1. PICK f : Steps(f, es, places, Len(es)) /\ Entries(es, places) = f[Len(es)]
  BY EntriesSteps
<1>2. Len(es) \in Nat /\ DOMAIN es = 1..Len(es)
  OBVIOUS
<1> DEFINE S == {n \in 0..Len(es) : StepsHold(f, es, places, PageEdge, n) /\ UniqueEntries(f[n])}
<1>3. 0 \in S
  <2>1. StepsHold(f, es, places, PageEdge, 0)
    BY <1>1, <1>2, StepHolds
  <2>2. f[0] = <<>>
    BY <1>1, <1>2 DEF Steps
  <2>3. UniqueEntries(<<>>)
    BY DEF UniqueEntries
  <2> QED BY <1>2, <2>1, <2>2, <2>3
<1>4. ASSUME NEW n \in 1..Len(es), n - 1 \in S PROVE n \in S
  <2>1. StepsHold(f, es, places, PageEdge, n - 1) /\ UniqueEntries(f[n - 1]) /\ n \in 0..Len(es)
    BY <1>2, <1>4
  <2>2. StepsHold(f, es, places, PageEdge, n)
    BY <1>1, <2>1, StepHolds
  <2>3. f[n] = IF n \in places THEN Append(f[n - 1], es[n]) ELSE f[n - 1]
    <3>1. n \in 0..Len(es) /\ n # 0
      BY <1>2
    <3> QED BY <1>1, <3>1 DEF Steps
  <2>4. es[n] \in PageEdge /\ f[n - 1] \in Seq(PageEdge)
    BY <1>2, <2>1 DEF StepsHold
  <2>5. es[n].id \notin EdgeIdsOf(f[n - 1])
    <3>1. \A e \in ToSet(f[n - 1]) : \E i \in 1..n - 1 : e = es[i]
      BY <2>1 DEF StepsHold
    <3>2. \A i \in 1..n - 1 : i \in DOMAIN es /\ n \in DOMAIN es /\ i # n
      BY <1>2
    <3>3. \A i \in 1..n - 1 : es[i].id # es[n].id
      BY <3>2 DEF UniqueEntries
    <3> QED BY <3>1, <3>3 DEF EdgeIdsOf
  <2>6. UniqueEntries(f[n])
    BY <2>1, <2>3, <2>4, <2>5, UniqueAppended
  <2> QED BY <2>1, <2>2, <2>6
<1>5. Len(es) \in S
  <2> HIDE DEF S
  <2>1. \A n \in 0..Len(es) : n \in S
    BY <1>2, <1>3, <1>4, UpToN
  <2> QED BY <1>2, <2>1
<1> QED BY <1>1, <1>5

LEMMA UniqueListed ==
    ASSUME NEW c \in {Start} \cup Restorable
    PROVE  UniqueEntries(SetToSeq(c.edges))
PROOF
<1>1. IsFiniteSet(c.edges) /\ UniqueEdgeIds(c)
  BY EditorAssumption DEF WellFormed
<1>2. PICK q : q = SetToSeq(c.edges) /\ ToSet(q) = c.edges /\ IsInjective(q)
  BY <1>1, ListIs
<1>3. \A i \in DOMAIN q : q[i] \in c.edges
  BY <1>2 DEF ToSet
<1> QED BY <1>1, <1>2, <1>3 DEF UniqueEntries, UniqueEdgeIds, IsInjective

LEMMA UniqueKept ==
    ASSUME NEW es \in Seq(PageEdge), UniqueEntries(es), NEW id
    PROVE  UniqueEntries(Without(es, id)) /\ UniqueEntries(Detached(es, id))
BY UniqueSelected DEF Without, Detached

\* Ids that are unique in the list are unique on the canvas.
LEMMA UniqueEdges ==
    ASSUME NEW ns, NEW es, UniqueEntries(es)
    PROVE  UniqueEdgeIds(PageCanvas(ns, es))
PROOF
<1>1. \A e \in PageCanvas(ns, es).edges : \E i \in DOMAIN es : e = es[i]
  BY DEF PageCanvas, ToSet
<1> QED BY <1>1 DEF UniqueEntries, UniqueEdgeIds

-----------------------------------------------------------------------------
(* The page agrees with the server.                                        *)

Peace == \A i \in DOMAIN down, j \in DOMAIN up : Harmless(down[i], up[j])

\* What the others add has a plain label.
Catalogued == \A i \in DOMAIN down : Adds(i) => Sanitize[down[i].node.label] = down[i].node.label

OwnPopup == popup # Nil => popup.edge = popup.connection
Agrees ==
    /\ UniqueEntries(edges) /\ OwnPopup
    /\ WellFormed(Shown) /\ Meet(Shown, down, Live, up) /\ Peace
PageInv == Catalogued /\ (~Excused(Known) => Agrees)

\* PageInv with what it rests on.
PageReady == EditorTypes /\ PopupInv /\ IdsInv /\ PageInv

LEMMA ReadyTypes ==
    ASSUME EditorTypes
    PROVE  /\ nodes \in SUBSET Node /\ edges \in Seq(PageEdge)
           /\ up \in Seq(Operation) /\ up \in Seq(Messages) /\ down \in Seq(Messages)
           /\ Shown \in CanvasStateData /\ Live \in CanvasStateData
           /\ \A id : HasNode(Shown, id) <=> Here(id)
           /\ \A id : HasNode(Live, id) <=> HasNode(server, id)
           /\ \A id : HasEdge(Live, id) <=> HasEdge(server, id)
PROOF
<1>1. nodes \in SUBSET Node /\ edges \in Seq(PageEdge) /\ server \in Content
  BY DEF EditorTypes, PageTyped, WireTyped
<1>2. up \in Seq(Operation) /\ down \in Seq(Messages) /\ up \in Seq(Messages)
  BY DEF EditorTypes, WireTyped, Messages
<1>3. Shown \in CanvasStateData /\ \A id : HasNode(Shown, id) <=> id \in IdsOf(nodes)
  BY <1>1, PageCanvasIs DEF Shown
<1>4. Live \in CanvasStateData /\ Live.nodes = server.nodes /\ Live.edges = server.edges
  BY <1>1 DEF Live, AtRevision, Content, CanvasStateData
<1> QED BY <1>1, <1>2, <1>3, <1>4, IdsHere DEF HasNode, HasEdge

\* What the server makes of an operation, revisions aside.
LEMMA LiveApplies ==
    ASSUME EditorTypes, NEW op \in Operation
    PROVE  AtRevision(ApplyOperation(server, op), 0) = ApplyOperation(Live, op)
PROOF
<1>1. server.nodes = Live.nodes /\ server.edges = Live.edges
  BY DEF Live, AtRevision
<1>2. PICK s \in Content : s = server
  BY DEF EditorTypes, WireTyped
<1>3. PICK t \in CanvasStateData : t = Live /\ t.revision = 0 /\ t.nodes = s.nodes /\ t.edges = s.edges
  BY <1>1, <1>2, ReadyTypes DEF Live, AtRevision
<1>4. ApplyOperation(t, op) \in CanvasStateData /\ ApplyOperation(t, op).revision = 0
  BY <1>3, ApplyOperationType
<1>5. /\ ApplyOperation(s, op).nodes = ApplyOperation(t, op).nodes
      /\ ApplyOperation(s, op).edges = ApplyOperation(t, op).edges
  <2>1. CASE op.type = "addNode"
    BY <1>3, <2>1 DEF ApplyOperation, AddNode, HasNode, Content, CanvasStateData
  <2>2. CASE op.type = "deleteNode"
    BY <1>3, <2>2 DEF ApplyOperation, DeleteNode, HasNode, Content, CanvasStateData
  <2>3. CASE op.type = "moveNode"
    BY <1>3, <2>3 DEF ApplyOperation, MoveNode, Content, CanvasStateData
  <2>4. CASE op.type = "updateNode"
    BY <1>3, <2>4 DEF ApplyOperation, UpdateNode, Content, CanvasStateData
  <2>5. CASE op.type = "addEdge"
    BY <1>3, <2>5 DEF ApplyOperation, AddEdge, HasNode, HasEdge, Content, CanvasStateData
  <2>6. CASE op.type = "deleteEdge"
    BY <1>3, <2>6 DEF ApplyOperation, DeleteEdge, Content, CanvasStateData
  <2> QED BY <2>1, <2>2, <2>3, <2>4, <2>5, <2>6, OperationIs
<1>6. AtRevision(ApplyOperation(s, op), 0) \in CanvasStateData
  BY <1>4, <1>5 DEF AtRevision, CanvasStateData
<1>7. AtRevision(ApplyOperation(s, op), 0) = ApplyOperation(t, op)
  BY <1>4, <1>5, <1>6, SameCanvas DEF AtRevision
<1> QED BY <1>2, <1>3, <1>7

\* Excuses are only ever added.
LEMMA StillExcused ==
    ASSUME past \subseteq past', ~Excused(Known)'
    PROVE  ~Excused(Known) /\ \A what \in Known : what \notin past'
BY DEF Excused, Known

\* An own operation, or several, that cross nothing.
LEMMA OwnSteps ==
    ASSUME EditorTypes, Agrees, NEW ops \in Seq(Operation), NEW x, Path(x, Shown, ops),
           Crossing(ops) = {}, up' = up \o ops, down' = down, server' = server,
           x[Len(ops)] = Shown'
    PROVE  (Meet(Shown, down, Live, up) /\ Peace)'
PROOF
<1>1. down \in Seq(Messages) /\ up \in Seq(Operation) /\ \A j \in 1..Len(ops) : ops[j] \in Operation
  BY ReadyTypes
<1>2. \A i \in 1..Len(down), j \in 1..Len(ops) : Harmless(down[i], ops[j])
  <2>1. \A j \in DOMAIN ops : ~Crosses(ops[j])
    BY DEF Crossing
  <2>2. \A j \in DOMAIN ops, i \in DOMAIN down : down[i].type # "replace" /\ ~Clashing(ops[j], down[i])
    BY <2>1 DEF Crosses
  <2> QED BY <1>1, <2>2 DEF Harmless
<1>3. Meet(x[Len(ops)], down, Live, up \o ops)
  BY <1>1, <1>2, MeetUnderAll DEF Agrees
<1>4. Live' = Live
  BY DEF Live
<1>5. Meet(Shown', down', Live', up')
  BY <1>3, <1>4
<1>6. Peace'
  <2>1. /\ DOMAIN up' = 1..Len(up) + Len(ops) /\ Len(up) \in Nat /\ Len(ops) \in Nat
        /\ DOMAIN up = 1..Len(up) /\ DOMAIN down = 1..Len(down)
        /\ \A j \in 1..Len(up) : up'[j] = up[j]
        /\ \A j \in 1..Len(up) + Len(ops) : j > Len(up) => up'[j] = ops[j - Len(up)] /\ j - Len(up) \in 1..Len(ops)
    BY <1>1
  <2>2. ASSUME NEW i \in DOMAIN down, NEW j \in DOMAIN up' PROVE Harmless(down[i], up'[j])
    <3>1. CASE j \in 1..Len(up)
      BY <2>1, <3>1 DEF Agrees, Peace
    <3>2. CASE j > Len(up)
      BY <1>2, <2>1, <3>2
    <3> QED BY <2>1, <3>1, <3>2
  <2> QED BY <2>2 DEF Peace
<1> QED BY <1>5, <1>6

LEMMA OwnStep ==
    ASSUME EditorTypes, Agrees, NEW op \in Operation, FitsOp(Shown, op),
           Crossing(<<op>>) = {}, up' = up \o <<op>>, down' = down, server' = server,
           Shown' = ApplyOperation(Shown, op)
    PROVE  (WellFormed(Shown) /\ Meet(Shown, down, Live, up) /\ Peace)'
PROOF
<1>1. Shown \in CanvasStateData /\ Shown' \in CanvasStateData
  BY ReadyTypes, ApplyOperationType
<1>2. WellFormed(Shown')
  BY <1>1, ApplyOperationWellFormed DEF Agrees
<1>3. <<op>> \in Seq(Operation) /\ Len(<<op>>) = 1 /\ <<op>>[1] = op /\ op.type # "replace"
  BY OperationIs
<1> DEFINE x == [i \in 0..1 |-> IF i = 0 THEN Shown ELSE ApplyOperation(Shown, op)]
<1>4. Path(x, Shown, <<op>>)
  BY <1>1, <1>3 DEF Path, Fits, Effect
<1>5. x[Len(<<op>>)] = Shown'
  BY <1>3
<1>6. (Meet(Shown, down, Live, up) /\ Peace)'
  <2> HIDE DEF x
  <2> QED BY <1>3, <1>4, <1>5, OwnSteps
<1>7. WellFormed(Shown)'
  BY <1>2
<1> QED BY <1>6, <1>7

\* Nothing but the queues and what they start from matters.
LEMMA SameAgrees ==
    ASSUME Agrees, UNCHANGED <<nodes, server, up, down>>, UniqueEntries(edges'), OwnPopup',
           {e \in ToSet(edges') : e.edgeType # Pending} = {e \in ToSet(edges) : e.edgeType # Pending}
    PROVE  Agrees'
PROOF
<1>1. Shown' = Shown /\ Live' = Live /\ Peace'
  BY DEF Agrees, Shown, PageCanvas, Live, Peace
<1>2. WellFormed(Shown)' /\ Meet(Shown, down, Live, up)'
  BY <1>1 DEF Agrees
<1> QED BY <1>1, <1>2 DEF Agrees

LEMMA SameCatalogued ==
    ASSUME Catalogued, down' = down
    PROVE  Catalogued'
BY DEF Catalogued, Adds

LEMMA IdleAgrees ==
    ASSUME PageInv, UNCHANGED <<store, popup, server, up, down, past>>
    PROVE  PageInv'
PROOF
<1>1. Catalogued'
  BY SameCatalogued DEF PageInv
<1>2. ASSUME ~Excused(Known)' PROVE Agrees'
  <2>1. Agrees
    BY <1>2, StillExcused DEF PageInv
  <2>2. UniqueEntries(edges') /\ OwnPopup'
    BY <2>1 DEF Agrees, store, OwnPopup
  <2> QED BY <2>1, <2>2, SameAgrees DEF store
<1> QED BY <1>1, <1>2 DEF PageInv

\* What is sent is sent as it was meant, unless it crossed something or was muted.
LEMMA SentPlainly ==
    ASSUME NEW ops, Send(ops) \/ SendUnlessApplying(ops), ~Excused(Known)'
    PROVE  up' = up \o ops /\ Crossing(ops) = {} /\ ~Excused(Known)
PROOF
<1>1. past \subseteq past'
  BY Noted
<1>2. ~Excused(Known) /\ "muted" \notin past' /\ "crossed" \notin past'
  BY <1>1, StillExcused DEF Known
<1>3. Send(ops)
  BY <1>2 DEF SendUnlessApplying, Note
<1> QED BY <1>2, <1>3 DEF Send, Note, Crossing

LEMMA AddNodeAgrees ==
    ASSUME PageReady, NEW n \in Node, AddNodeHere(n), ~Excused(Known)'
    PROVE  Agrees'
PROOF
<1>1. PICK op : op = [type |-> "addNode", node |-> n]
  OBVIOUS
<1>2. op \in NodeAdditions /\ op \in Operation /\ op.type = "addNode" /\ op.node = n
  BY <1>1 DEF NodeAdditions, Operation
<1>3. Send(<<op>>) /\ nodes' = nodes \cup {n} /\ edges' = edges /\ UNCHANGED <<popup, server, down>>
  BY <1>1 DEF AddNodeHere, Shows
<1>4. up' = up \o <<op>> /\ Crossing(<<op>>) = {} /\ Agrees
  BY <1>3, SentPlainly DEF PageReady, PageInv
<1>5. nodes \in SUBSET Node /\ edges \in Seq(PageEdge) /\ EditorTypes
  BY ReadyTypes DEF PageReady
<1>6. n.id \notin IdsOf(nodes) /\ Sanitize[n.label] = n.label
  BY DEF AddNodeHere, PageReady, IdsInv
<1>7. PageCanvas(nodes \cup {n}, edges) = ApplyOperation(PageCanvas(nodes, edges), op)
  BY <1>2, <1>5, <1>6, PageAdds
<1>8. Shown' = ApplyOperation(Shown, op)
  BY <1>3, <1>7 DEF Shown
<1>9. FitsOp(Shown, op)
  BY <1>2, <1>5, <1>6, PageCanvasIs DEF FitsOp, Shown
<1>10. (WellFormed(Shown) /\ Meet(Shown, down, Live, up) /\ Peace)'
  BY <1>2, <1>3, <1>4, <1>5, <1>8, <1>9, OwnStep
<1> QED BY <1>3, <1>4, <1>10 DEF Agrees, OwnPopup

LEMMA DragAgrees ==
    ASSUME PageReady, NEW id \in NodeIds, NEW pos \in Positions, DragNode(id, pos), ~Excused(Known)'
    PROVE  Agrees'
PROOF
<1>1. PICK op : op = [type |-> "moveNode", nodeId |-> id, position |-> pos]
  OBVIOUS
<1>2. op \in NodeMoves /\ op \in Operation /\ op.type = "moveNode" /\ op.nodeId = id /\ op.position = pos
  BY <1>1 DEF NodeMoves, Operation
<1>3. /\ SendUnlessApplying(<<op>>) /\ nodes' = Moved(nodes, id, pos) /\ edges' = edges
      /\ UNCHANGED <<popup, server, down>>
  BY <1>1 DEF DragNode, Shows, room
<1>4. up' = up \o <<op>> /\ Crossing(<<op>>) = {} /\ Agrees
  BY <1>3, SentPlainly DEF PageReady, PageInv
<1>5. nodes \in SUBSET Node /\ edges \in Seq(PageEdge) /\ EditorTypes
  BY ReadyTypes DEF PageReady
<1>6. PageCanvas(Moved(nodes, id, pos), edges) = ApplyOperation(PageCanvas(nodes, edges), op)
  BY <1>2, <1>5, PageChanges
<1>7. Shown' = ApplyOperation(Shown, op)
  BY <1>3, <1>6 DEF Shown
<1>8. FitsOp(Shown, op)
  BY <1>2 DEF FitsOp
<1>9. (WellFormed(Shown) /\ Meet(Shown, down, Live, up) /\ Peace)'
  BY <1>2, <1>3, <1>4, <1>5, <1>7, <1>8, OwnStep
<1> QED BY <1>3, <1>4, <1>9 DEF Agrees, OwnPopup

LEMMA CommitAgrees ==
    ASSUME PageReady, CommitEdit, Changed, ~Excused(Known)'
    PROVE  Agrees'
PROOF
<1>1. PICK op : op = [type |-> "updateNode", nodeId |-> label.node, label |-> label.text]
  OBVIOUS
<1>2. label \in Editor /\ label.text # Blank
  BY DEF CommitEdit, Changed, PageReady, EditorTypes, PageTyped
<1>3. /\ op \in NodeUpdates /\ op \in Operation /\ op.type = "updateNode"
      /\ op.nodeId = label.node /\ op.label = label.text
  BY <1>1, <1>2 DEF NodeUpdates, Operation, Editor
<1>4. /\ nodes' = Labelled(nodes, op.nodeId, op.label) /\ up' = Append(up, op)
      /\ past' = past \cup (Crossing(<<op>>) \cup (IF label.typed THEN {} ELSE {"untyped"}))
      /\ edges' = edges /\ UNCHANGED <<popup, server, down>>
  BY <1>1 DEF CommitEdit, Note, room
<1>5. nodes \in SUBSET Node /\ edges \in Seq(PageEdge) /\ EditorTypes /\ up \in Seq(Operation)
  BY ReadyTypes DEF PageReady
<1>6. up' = up \o <<op>>
  BY <1>3, <1>4, <1>5
<1>7. Crossing(<<op>>) = {} /\ Agrees
  <2>1. ~Excused(Known) /\ "crossed" \notin past'
    BY <1>4, StillExcused DEF Known
  <2> QED BY <1>4, <2>1 DEF Crossing, PageReady, PageInv
<1>8. PageCanvas(Labelled(nodes, op.nodeId, op.label), edges) = ApplyOperation(PageCanvas(nodes, edges), op)
  BY <1>3, <1>5, PageChanges
<1>9. Shown' = ApplyOperation(Shown, op)
  BY <1>4, <1>8 DEF Shown
<1>10. FitsOp(Shown, op)
  BY <1>3 DEF FitsOp
<1>11. (WellFormed(Shown) /\ Meet(Shown, down, Live, up) /\ Peace)'
  BY <1>3, <1>4, <1>5, <1>6, <1>7, <1>9, <1>10, OwnStep
<1> QED BY <1>4, <1>7, <1>11 DEF Agrees, OwnPopup

LEMMA RemovalIs ==
    /\ \A id \in NodeIds : /\ DeleteNodeOp(id) \in NodeDeletions /\ DeleteNodeOp(id) \in Operation
                           /\ DeleteNodeOp(id).nodeId = id
                           /\ \A s : FitsOp(s, DeleteNodeOp(id))
    /\ \A id \in EdgeIds : /\ DeleteEdgeOp(id) \in EdgeDeletions /\ DeleteEdgeOp(id) \in Operation
                           /\ DeleteEdgeOp(id).edgeId = id
                           /\ \A s : FitsOp(s, DeleteEdgeOp(id))
BY DEF DeleteNodeOp, DeleteEdgeOp, NodeDeletions, EdgeDeletions, Operation, FitsOp

\* One edge goes, or one node with its edges, in one operation.
LEMMA EdgeGone ==
    ASSUME PageReady, Agrees, NEW id \in EdgeIds, nodes' = nodes, edges' = Without(edges, id),
           up' = up \o <<DeleteEdgeOp(id)>>, Crossing(<<DeleteEdgeOp(id)>>) = {},
           UNCHANGED <<popup, server, down>>
    PROVE  Agrees'
PROOF
<1>1. PICK op \in EdgeDeletions : op = DeleteEdgeOp(id) /\ op \in Operation /\ op.edgeId = id
  BY RemovalIs
<1>2. nodes \in SUBSET Node /\ edges \in Seq(PageEdge) /\ EditorTypes
  BY ReadyTypes DEF PageReady
<1>3. PageCanvas(nodes, Without(edges, id)) = ApplyOperation(PageCanvas(nodes, edges), op)
  BY <1>1, <1>2, PageDeletesEdge
<1>4. Shown' = ApplyOperation(Shown, op) /\ FitsOp(Shown, op)
  BY <1>1, <1>3, RemovalIs DEF Shown
<1>5. (WellFormed(Shown) /\ Meet(Shown, down, Live, up) /\ Peace)'
  BY <1>1, <1>2, <1>4, OwnStep
<1>6. UniqueEntries(edges')
  BY <1>2, UniqueKept DEF Agrees
<1> QED BY <1>5, <1>6 DEF Agrees, OwnPopup

LEMMA NodeGone ==
    ASSUME PageReady, Agrees, NEW id \in NodeIds,
           nodes' = WithoutNode(nodes, id), edges' = Detached(edges, id),
           up' = up \o <<DeleteNodeOp(id)>>, Crossing(<<DeleteNodeOp(id)>>) = {},
           UNCHANGED <<popup, server, down>>
    PROVE  Agrees'
PROOF
<1>1. PICK op \in NodeDeletions : op = DeleteNodeOp(id) /\ op \in Operation /\ op.nodeId = id
  BY RemovalIs
<1>2. nodes \in SUBSET Node /\ edges \in Seq(PageEdge) /\ EditorTypes /\ NoDanglingEdges(Shown)
  BY ReadyTypes DEF PageReady, Agrees, WellFormed
<1>3. PageCanvas(WithoutNode(nodes, id), Detached(edges, id)) = ApplyOperation(PageCanvas(nodes, edges), op)
  BY <1>1, <1>2, PageDeletesNode DEF Shown
<1>4. Shown' = ApplyOperation(Shown, op) /\ FitsOp(Shown, op)
  BY <1>1, <1>3, RemovalIs DEF Shown
<1>5. (WellFormed(Shown) /\ Meet(Shown, down, Live, up) /\ Peace)'
  BY <1>1, <1>2, <1>4, OwnStep
<1>6. UniqueEntries(edges')
  BY <1>2, UniqueKept DEF Agrees
<1> QED BY <1>5, <1>6 DEF Agrees, OwnPopup

LEMMA DeleteEdgeAgrees ==
    ASSUME PageReady, NEW id \in EdgeIds, DeleteSelectedEdge(id), ~Excused(Known)'
    PROVE  Agrees'
PROOF
<1>1. /\ SendUnlessApplying(<<DeleteEdgeOp(id)>>) /\ nodes' = nodes /\ edges' = Without(edges, id)
      /\ UNCHANGED <<popup, server, down>>
  BY DEF DeleteSelectedEdge, Shows, room
<1>2. up' = up \o <<DeleteEdgeOp(id)>> /\ Crossing(<<DeleteEdgeOp(id)>>) = {} /\ Agrees
  BY <1>1, SentPlainly DEF PageReady, PageInv
<1> QED BY <1>1, <1>2, EdgeGone

LEMMA MenuDeleteAgrees ==
    ASSUME PageReady, MenuDelete, ~Excused(Known)'
    PROVE  Agrees'
PROOF
<1>1. menu \in NodeIds \cup EdgeIds /\ UNCHANGED <<popup, server, down>>
  BY DEF MenuDelete, PageReady, EditorTypes, OpenTyped, room
<1>2. CASE menu \in NodeIds
  <2>1. Send(<<DeleteNodeOp(menu)>>) /\ nodes' = WithoutNode(nodes, menu) /\ edges' = Detached(edges, menu)
    BY <1>2 DEF MenuDelete, Shows
  <2>2. up' = up \o <<DeleteNodeOp(menu)>> /\ Crossing(<<DeleteNodeOp(menu)>>) = {} /\ Agrees
    BY <2>1, SentPlainly DEF PageReady, PageInv
  <2> QED BY <1>1, <1>2, <2>1, <2>2, NodeGone
<1>3. CASE menu \notin NodeIds
  <2>1. Send(<<DeleteEdgeOp(menu)>>) /\ nodes' = nodes /\ edges' = Without(edges, menu)
    BY <1>3 DEF MenuDelete, Shows
  <2>2. up' = up \o <<DeleteEdgeOp(menu)>> /\ Crossing(<<DeleteEdgeOp(menu)>>) = {} /\ Agrees
    BY <2>1, SentPlainly DEF PageReady, PageInv
  <2> QED BY <1>1, <1>3, <2>1, <2>2, EdgeGone
<1> QED BY <1>2, <1>3

\* The id of an edge is made of its ends.
LEMMA SameEnds ==
    ASSUME NEW e \in PageEdge, NEW f \in PageEdge, e.id = f.id
    PROVE  e.source = f.source /\ e.target = f.target
BY DEF PageEdge, Edge, EdgeOf

\* A canvas without the first k of some edges.
Left(s, gone, k) ==
    [nodes |-> s.nodes, edges |-> {e \in s.edges : \A i \in 1..k : e.id # gone[i].id},
     revision |-> s.revision]

LEMMA LeftIs ==
    ASSUME NEW s \in CanvasStateData, NEW gone \in Seq(PageEdge)
    PROVE  /\ Left(s, gone, 0) = s
           /\ \A k \in Nat : Left(s, gone, k) \in CanvasStateData
           /\ \A k \in 1..Len(gone) : /\ gone[k].id \in EdgeIds
                                      /\ ApplyOperation(Left(s, gone, k - 1), DeleteEdgeOp(gone[k].id))
                                           = Left(s, gone, k)
PROOF
<1>1. \A k \in Nat : Left(s, gone, k) \in CanvasStateData
  BY DEF Left, CanvasStateData
<1>2. Left(s, gone, 0) = s
  <2>1. {e \in s.edges : \A i \in 1..0 : e.id # gone[i].id} = s.edges
    OBVIOUS
  <2>2. Left(s, gone, 0).nodes = s.nodes /\ Left(s, gone, 0).edges = s.edges
        /\ Left(s, gone, 0).revision = s.revision
    BY <2>1 DEF Left
  <2> QED BY <1>1, <2>2, SameCanvas
<1>3. ASSUME NEW k \in 1..Len(gone)
      PROVE  /\ gone[k].id \in EdgeIds
             /\ ApplyOperation(Left(s, gone, k - 1), DeleteEdgeOp(gone[k].id)) = Left(s, gone, k)
  <2>1. gone[k].id \in EdgeIds
    BY DEF PageEdge, Edge, EdgeOf
  <2>2. PICK op \in EdgeDeletions :
           op = DeleteEdgeOp(gone[k].id) /\ op \in Operation /\ op.edgeId = gone[k].id
    BY <2>1, RemovalIs
  <2>3. Len(gone) \in Nat /\ k \in Nat /\ k - 1 \in Nat
    OBVIOUS
  <2>4. PICK t \in CanvasStateData : t = Left(s, gone, k - 1)
    BY <1>1, <2>3
  <2>5. PICK u \in CanvasStateData : u = ApplyOperation(t, op) /\ u.revision = t.revision
    BY <2>2, ApplyOperationType
  <2>6. u.nodes = t.nodes /\ u.edges = {e \in t.edges : e.id # gone[k].id}
    BY <2>2, <2>5, EffectsOfTheOthers DEF DeleteEdgeEffect
  <2>7. PICK v \in CanvasStateData : v = Left(s, gone, k)
    BY <1>1, <2>3
  <2>8. \A i : i \in 1..k <=> i \in 1..k - 1 \/ i = k
    BY <2>3
  <2>9. v.nodes = u.nodes /\ v.revision = u.revision
    BY <2>4, <2>5, <2>6, <2>7 DEF Left
  <2>10. v.edges = u.edges
    <3>1. v.edges = {e \in s.edges : \A i \in 1..k : e.id # gone[i].id}
      BY <2>7 DEF Left
    <3>2. t.edges = {e \in s.edges : \A i \in 1..k - 1 : e.id # gone[i].id}
      BY <2>4 DEF Left
    <3> QED BY <2>6, <2>8, <3>1, <3>2
  <2>11. u = v
    BY <2>9, <2>10, SameCanvas
  <2> QED BY <2>1, <2>2, <2>4, <2>5, <2>7, <2>11
<1> QED BY <1>1, <1>2, <1>3

\* The edges of a node first, then the node, do what deleting the node does.
LEMMA NodeAfterEdges ==
    ASSUME NEW s \in CanvasStateData, NEW gone \in Seq(PageEdge), NEW id \in NodeIds, HasNode(s, id),
           \A i \in 1..Len(gone) : Touches(gone[i], id)
    PROVE  ApplyOperation(Left(s, gone, Len(gone)), DeleteNodeOp(id)) = ApplyOperation(s, DeleteNodeOp(id))
PROOF
<1>1. PICK op \in NodeDeletions : op = DeleteNodeOp(id) /\ op \in Operation /\ op.nodeId = id
  BY RemovalIs
<1>2. PICK t \in CanvasStateData : t = Left(s, gone, Len(gone))
  BY LeftIs
<1>3. t.nodes = s.nodes /\ t.revision = s.revision
  BY <1>2 DEF Left
<1>4. HasNode(t, id)
  BY <1>3 DEF HasNode
<1>5. PICK u \in CanvasStateData : u = ApplyOperation(s, op) /\ u.revision = s.revision
  BY <1>1, ApplyOperationType
<1>6. PICK v \in CanvasStateData : v = ApplyOperation(t, op) /\ v.revision = t.revision
  BY <1>1, ApplyOperationType
<1>7. DeleteNodeEffect(s, u, op) /\ DeleteNodeEffect(t, v, op)
  BY <1>1, <1>5, <1>6, EffectsOfTheOthers
<1>8. /\ u.nodes = {n \in s.nodes : n.id # id} /\ v.nodes = {n \in t.nodes : n.id # id}
      /\ u.edges = {e \in s.edges : e.source # id /\ e.target # id}
      /\ v.edges = {e \in t.edges : e.source # id /\ e.target # id}
  BY <1>1, <1>4, <1>7 DEF DeleteNodeEffect
<1>9. ASSUME NEW e \in s.edges, e.source # id, e.target # id, NEW i \in 1..Len(gone)
      PROVE  e.id # gone[i].id
  <2>1. e \in PageEdge /\ gone[i] \in PageEdge
    BY DEF CanvasStateData, PageEdge
  <2>2. Touches(gone[i], id)
    OBVIOUS
  <2> QED BY <1>9, <2>1, <2>2, SameEnds DEF Touches
<1>10. t.edges = {e \in s.edges : \A i \in 1..Len(gone) : e.id # gone[i].id}
  BY <1>2 DEF Left
<1>11. u.edges = v.edges
  BY <1>8, <1>9, <1>10
<1>12. u = v
  <2>1. u.nodes = v.nodes /\ u.revision = v.revision
    BY <1>3, <1>5, <1>6, <1>8
  <2> QED BY <1>11, <2>1, SameCanvas
<1> QED BY <1>1, <1>2, <1>5, <1>6, <1>12

LEMMA DeleteNodeAgrees ==
    ASSUME PageReady, NEW id \in NodeIds, DeleteSelectedNode(id), ~Excused(Known)'
    PROVE  Agrees'
PROOF
<1>1. nodes \in SUBSET Node /\ edges \in Seq(PageEdge) /\ EditorTypes /\ Shown \in CanvasStateData
  BY ReadyTypes DEF PageReady
<1>2. PICK gone : /\ gone = Entries(edges, {i \in DOMAIN edges : Touches(edges[i], id)})
                  /\ SendUnlessApplying([i \in DOMAIN gone |-> DeleteEdgeOp(gone[i].id)]
                                        \o <<DeleteNodeOp(id)>>)
  BY DEF DeleteSelectedNode
<1>3. gone \in Seq(PageEdge) /\ \A i \in 1..Len(gone) : Touches(gone[i], id)
  <2>1. gone \in Seq(PageEdge)
    BY <1>1, <1>2, EntriesAre
  <2>2. \A e \in ToSet(gone) : Touches(e, id)
    BY <1>1, <1>2, EntriesAre
  <2>3. \A i \in 1..Len(gone) : gone[i] \in ToSet(gone)
    BY <2>1 DEF ToSet
  <2> QED BY <2>1, <2>2, <2>3
<1>4. PICK ops : ops = [i \in DOMAIN gone |-> DeleteEdgeOp(gone[i].id)] \o <<DeleteNodeOp(id)>>
  OBVIOUS
<1>5. /\ ops \in Seq(Operation) /\ Len(ops) = Len(gone) + 1 /\ ops[Len(gone) + 1] = DeleteNodeOp(id)
      /\ \A i \in 1..Len(gone) : ops[i] = DeleteEdgeOp(gone[i].id)
  <2>1. PICK es : es = [i \in DOMAIN gone |-> DeleteEdgeOp(gone[i].id)]
    OBVIOUS
  <2>2. DOMAIN gone = 1..Len(gone) /\ Len(gone) \in Nat
    BY <1>3
  <2>3. \A i \in DOMAIN gone : DeleteEdgeOp(gone[i].id) \in Operation
    BY <1>1, <1>3, <2>2, LeftIs, RemovalIs
  <2>4. es \in Seq(Operation) /\ Len(es) = Len(gone) /\ \A i \in 1..Len(gone) : es[i] = DeleteEdgeOp(gone[i].id)
    BY <2>1, <2>2, <2>3
  <2>5. PICK op \in Operation : op = DeleteNodeOp(id)
    BY RemovalIs
  <2>6. ops = es \o <<op>>
    BY <1>4, <2>1, <2>5
  <2>7. ops \in Seq(Operation) /\ Len(ops) = Len(es) + 1
    BY <2>4, <2>5, <2>6
  <2>8. ops[Len(es) + 1] = op
    BY <2>4, <2>5, <2>6
  <2>9. \A i \in 1..Len(es) : ops[i] = es[i]
    BY <2>4, <2>5, <2>6
  <2> QED BY <2>4, <2>5, <2>7, <2>8, <2>9
<1>6. up' = up \o ops /\ Crossing(ops) = {} /\ Agrees
  BY <1>2, <1>4, SentPlainly DEF PageReady, PageInv
<1>7. nodes' = WithoutNode(nodes, id) /\ edges' = Detached(edges, id) /\ UNCHANGED <<popup, server, down>>
  BY DEF DeleteSelectedNode, Shows, room
<1>8. Len(gone) \in Nat
  BY <1>3
<1> DEFINE x == [k \in 0..Len(gone) + 1 |->
                    IF k <= Len(gone) THEN Left(Shown, gone, k)
                    ELSE ApplyOperation(Left(Shown, gone, Len(gone)), DeleteNodeOp(id))]
<1>9. Shown' = ApplyOperation(Shown, DeleteNodeOp(id))
  <2>1. PICK op \in NodeDeletions : op = DeleteNodeOp(id) /\ op.nodeId = id
    BY RemovalIs
  <2>2. NoDanglingEdges(PageCanvas(nodes, edges))
    BY <1>6 DEF Agrees, WellFormed, Shown
  <2>3. PageCanvas(WithoutNode(nodes, id), Detached(edges, id)) = ApplyOperation(PageCanvas(nodes, edges), op)
    BY <1>1, <2>1, <2>2, PageDeletesNode
  <2> QED BY <1>7, <2>1, <2>3 DEF Shown
<1>10. HasNode(Shown, id)
  BY <1>1, ReadyTypes DEF DeleteSelectedNode
<1>11. x[Len(ops)] = Shown'
  BY <1>1, <1>3, <1>5, <1>8, <1>9, <1>10, NodeAfterEdges
<1>12. Path(x, Shown, ops)
  <2>1. x \in [0..Len(ops) -> CanvasStateData] /\ x[0] = Shown
    <3>1. \A k \in 0..Len(gone) : Left(Shown, gone, k) \in CanvasStateData
      BY <1>1, <1>3, <1>8, LeftIs
    <3>2. ApplyOperation(Left(Shown, gone, Len(gone)), DeleteNodeOp(id)) \in CanvasStateData
      BY <1>8, <3>1, RemovalIs, ApplyOperationType
    <3>3. Left(Shown, gone, 0) = Shown
      BY <1>1, <1>3, LeftIs
    <3>4. \A k \in 0..Len(gone) + 1 : k <= Len(gone) => k \in 0..Len(gone)
      BY <1>8
    <3> QED BY <1>5, <1>8, <3>1, <3>2, <3>3, <3>4
  <2>2. ASSUME NEW i \in 1..Len(ops)
        PROVE  Fits(x[i - 1], ops[i]) /\ x[i] = Effect(x[i - 1], ops[i])
    <3>1. ops[i] \in Operation /\ ops[i].type # "replace"
      BY <1>5, OperationIs
    <3>2. CASE i <= Len(gone)
      <4>1. i \in 1..Len(gone) /\ x[i - 1] = Left(Shown, gone, i - 1) /\ x[i] = Left(Shown, gone, i)
        BY <1>5, <1>8, <3>2
      <4>2. ops[i] = DeleteEdgeOp(gone[i].id) /\ gone[i].id \in EdgeIds
        BY <1>1, <1>3, <1>5, <4>1, LeftIs
      <4>3. ApplyOperation(Left(Shown, gone, i - 1), DeleteEdgeOp(gone[i].id)) = Left(Shown, gone, i)
        BY <1>1, <1>3, <4>1, LeftIs
      <4>4. FitsOp(x[i - 1], ops[i])
        BY <4>2, RemovalIs
      <4> HIDE DEF x
      <4> QED BY <3>1, <4>1, <4>2, <4>3, <4>4 DEF Fits, Effect
    <3>3. CASE i = Len(gone) + 1
      <4>1. /\ x[i - 1] = Left(Shown, gone, Len(gone))
            /\ x[i] = ApplyOperation(Left(Shown, gone, Len(gone)), DeleteNodeOp(id))
        BY <1>8, <3>3
      <4>2. ops[i] = DeleteNodeOp(id)
        BY <1>5, <3>3
      <4>3. FitsOp(x[i - 1], ops[i])
        BY <4>2, RemovalIs
      <4> HIDE DEF x
      <4> QED BY <3>1, <4>1, <4>2, <4>3 DEF Fits, Effect
    <3> QED BY <1>5, <1>8, <3>2, <3>3
  <2> HIDE DEF x
  <2> QED BY <2>1, <2>2 DEF Path
<1>13. (Meet(Shown, down, Live, up) /\ Peace)'
  <2> HIDE DEF x
  <2> QED BY <1>1, <1>5, <1>6, <1>7, <1>11, <1>12, OwnSteps
<1>14. WellFormed(Shown)'
  <2>1. WellFormed(ApplyOperation(Shown, DeleteNodeOp(id)))
    BY <1>1, <1>6, RemovalIs, ApplyOperationWellFormed DEF Agrees
  <2> QED BY <1>9, <2>1
<1>15. UniqueEntries(edges')
  BY <1>1, <1>6, <1>7, UniqueKept DEF Agrees
<1> QED BY <1>6, <1>7, <1>13, <1>14, <1>15 DEF Agrees, OwnPopup

LEMMA ConnectAgrees ==
    ASSUME PageReady, NEW id \in EdgeIds, Connect(id), ~Excused(Known)'
    PROVE  Agrees'
PROOF
<1>1. /\ edges' = Connected(edges, id, Pending) /\ popup' = [connection |-> id, edge |-> Last(edges').id]
      /\ UNCHANGED <<nodes, server, up, down>>
      /\ past' = past \cup (IF id \in EdgeIdsOf(edges) THEN {"connected twice"} ELSE {})
  BY DEF Connect, Note, room
<1>2. id \notin EdgeIdsOf(edges) /\ Agrees
  <2>1. ~Excused(Known) /\ "connected twice" \notin past'
    BY <1>1, StillExcused DEF Known
  <2> QED BY <1>1, <2>1 DEF PageReady, PageInv
<1>3. edges \in Seq(PageEdge)
  BY ReadyTypes DEF PageReady
<1>4. EdgeOf(id, Pending) \in PageEdge /\ EdgeOf(id, Pending).id = id /\ EdgeOf(id, Pending).edgeType = Pending
  BY EdgeOfIs
<1>5. edges' = Append(edges, EdgeOf(id, Pending))
  BY <1>1, <1>2 DEF Connected
<1>6. UniqueEntries(edges')
  BY <1>2, <1>3, <1>4, <1>5, UniqueAppended DEF Agrees
<1>7. ToSet(edges') = ToSet(edges) \cup {EdgeOf(id, Pending)} /\ Last(edges') = EdgeOf(id, Pending)
  BY <1>3, <1>4, <1>5, AddedToSet, LastAdded
<1>8. OwnPopup'
  BY <1>1, <1>4, <1>7 DEF OwnPopup
<1>9. {e \in ToSet(edges') : e.edgeType # Pending} = {e \in ToSet(edges) : e.edgeType # Pending}
  BY <1>4, <1>7
<1> QED BY <1>1, <1>2, <1>6, <1>8, <1>9, SameAgrees

\* Without the pending edge of the popup, the page is what it was.
LEMMA RestIs ==
    ASSUME PageReady, popup # Nil, ~Excused(Known), NEW rest, rest = Without(edges, popup.edge)
    PROVE  /\ Agrees /\ popup \in Popup /\ popup.edge = popup.connection
           /\ rest \in Seq(PageEdge) /\ UniqueEntries(rest) /\ popup.edge \notin EdgeIdsOf(rest)
           /\ {e \in ToSet(rest) : e.edgeType # Pending} = {e \in ToSet(edges) : e.edgeType # Pending}
PROOF
<1>1. Agrees /\ popup \in Popup
  BY DEF PageReady, PageInv, EditorTypes, OpenTyped
<1>2. edges \in Seq(PageEdge)
  BY ReadyTypes DEF PageReady
<1>3. rest \in Seq(PageEdge) /\ ToSet(rest) = {e \in ToSet(edges) : e.id # popup.edge}
  BY <1>2, WithoutIs
<1>4. UniqueEntries(rest)
  BY <1>1, <1>2, UniqueKept DEF Agrees
<1>5. \A e \in ToSet(edges) : e.id = popup.edge => e.edgeType = Pending
  <2>1. Single
    BY DEF Single, Excused, Known
  <2> QED BY <2>1 DEF PageReady, PopupInv, PopupOnPending
<1> QED BY <1>1, <1>3, <1>4, <1>5 DEF Agrees, OwnPopup, EdgeIdsOf

LEMMA CloseAgrees ==
    ASSUME PageReady, ClosePopup, ~Excused(Known)'
    PROVE  Agrees'
PROOF
<1>1. popup # Nil /\ popup' = Nil /\ UNCHANGED <<nodes, server, up, down, past>>
  BY DEF ClosePopup, room
<1>2. ~Excused(Known)
  BY <1>1 DEF Excused
<1>3. PICK rest : rest = Without(edges, popup.edge) /\ edges' = rest
  BY DEF ClosePopup, Discarded
<1>4. OwnPopup'
  BY <1>1 DEF OwnPopup
<1> QED BY <1>1, <1>2, <1>3, <1>4, RestIs, SameAgrees

LEMMA SelectAgrees ==
    ASSUME PageReady, NEW type \in EdgeTypes, SelectEdgeType(type), ~Excused(Known)'
    PROVE  Agrees'
PROOF
<1>1. popup # Nil /\ popup' = Nil /\ UNCHANGED <<nodes, server, down>>
  BY DEF SelectEdgeType, room
<1>2. PICK rest, list, sent :
         /\ rest = Without(edges, popup.edge)
         /\ list = Connected(rest, popup.connection, type)
         /\ sent = [type |-> "addEdge", edge |-> [Last(list) EXCEPT !.edgeType = type]]
         /\ edges' = list /\ up' = Append(up, sent)
         /\ past' = past \cup (Crossing(<<sent>>) \cup Overtaken)
  BY DEF SelectEdgeType, Note
<1>3. ~Excused(Known) /\ Crossing(<<sent>>) = {} /\ Overtaken = {}
  <2>1. ~Excused(Known) /\ "crossed" \notin past' /\ "end gone" \notin past'
    BY <1>2, StillExcused DEF Known
  <2> QED BY <1>2, <2>1 DEF Crossing, Overtaken
<1>4. PICK id \in EdgeIds : id = popup.connection /\ id = popup.edge
  BY <1>1, <1>2, <1>3, RestIs DEF Popup
<1>5. /\ Agrees /\ rest \in Seq(PageEdge) /\ UniqueEntries(rest) /\ id \notin EdgeIdsOf(rest)
      /\ {e \in ToSet(rest) : e.edgeType # Pending} = {e \in ToSet(edges) : e.edgeType # Pending}
  BY <1>1, <1>2, <1>3, <1>4, RestIs
<1>6. PICK new \in Edge : /\ new = EdgeOf(id, type) /\ new \in PageEdge /\ new.id = id /\ new.edgeType = type
                          /\ new.source = Ends[id][1] /\ new.target = Ends[id][2]
  <2>1. EdgeOf(id, type) \in Edge
    BY DEF Edge
  <2>2. EdgeOf(id, type) \in PageEdge /\ EdgeOf(id, type).id = id /\ EdgeOf(id, type).edgeType = type
    BY EdgeOfIs
  <2>3. EdgeOf(id, type).source = Ends[id][1] /\ EdgeOf(id, type).target = Ends[id][2]
    BY DEF EdgeOf
  <2> QED BY <2>1, <2>2, <2>3
<1>7. list = Append(rest, new)
  BY <1>2, <1>4, <1>5, <1>6 DEF Connected
<1>8. /\ list \in Seq(PageEdge) /\ ToSet(list) = ToSet(rest) \cup {new} /\ Last(list) = new
      /\ UniqueEntries(list)
  BY <1>5, <1>6, <1>7, AddedToSet, LastAdded, UniqueAppended
<1>9. [new EXCEPT !.edgeType = type] = new
  BY <1>6 DEF EdgeOf
<1>10. PICK op \in EdgeAdditions : op = sent /\ op.edge = new /\ op.type = "addEdge" /\ op \in Operation
  BY <1>2, <1>8, <1>9 DEF EdgeAdditions, Operation
<1>11. nodes \in SUBSET Node /\ edges \in Seq(PageEdge) /\ EditorTypes /\ up \in Seq(Operation)
  BY ReadyTypes DEF PageReady
<1>12. FitsOp(Shown, op)
  <2>1. HasNode(Shown, new.source) /\ HasNode(Shown, new.target)
    <3>1. \A k \in 1..2 : Here(Ends[id][k])
      BY <1>3, <1>4 DEF Overtaken
    <3>2. Here(new.source) /\ Here(new.target)
      BY <1>6, <3>1
    <3> QED BY <1>11, <3>2, ReadyTypes
  <2>2. ~HasEdge(Shown, new.id)
    <3>1. \A e \in Shown.edges : e \in ToSet(rest)
      BY <1>5 DEF Shown, PageCanvas
    <3> QED BY <1>5, <1>6, <3>1 DEF HasEdge, EdgeIdsOf
  <2> QED BY <1>10, <2>1, <2>2 DEF FitsOp
<1>13. {e \in ToSet(list) : e.edgeType # Pending} =
           {e \in ToSet(edges) : e.edgeType # Pending} \cup {op.edge}
  <2>1. new.edgeType # Pending
    BY <1>6, EditorAssumption
  <2> QED BY <1>5, <1>8, <1>10, <2>1
<1>14. Shown' = ApplyOperation(Shown, op)
  <2>1. PageCanvas(nodes, list) = ApplyOperation(PageCanvas(nodes, edges), op)
    BY <1>8, <1>11, <1>12, <1>13, PageConnects DEF Shown
  <2> QED BY <1>1, <1>2, <2>1 DEF Shown
<1>15. up' = up \o <<op>>
  <2>1. up' = Append(up, op)
    BY <1>2, <1>10
  <2>2. Append(up, op) = up \o <<op>>
    BY <1>10, <1>11
  <2> QED BY <2>1, <2>2
<1>16. (WellFormed(Shown) /\ Meet(Shown, down, Live, up) /\ Peace)'
  BY <1>1, <1>3, <1>5, <1>10, <1>11, <1>12, <1>14, <1>15, OwnStep
<1>17. OwnPopup'
  BY <1>1 DEF OwnPopup
<1> QED BY <1>2, <1>8, <1>16, <1>17 DEF Agrees

-----------------------------------------------------------------------------
(* The server and the others.                                              *)

\* The server handles what the page has sent.
LEMMA HandleAgrees ==
    ASSUME PageReady, HandleOperation, ~Excused(Known)'
    PROVE  Agrees'
PROOF
<1>1. /\ up # <<>> /\ server' = ApplyOperation(server, Head(up)) /\ up' = Tail(up)
      /\ UNCHANGED <<nodes, edges, popup, down, past>>
  BY DEF HandleOperation, store, open
<1>2. Agrees /\ EditorTypes
  BY <1>1 DEF PageReady, PageInv, Excused
<1>3. up \in Seq(Operation) /\ up \in Seq(Messages)
  BY <1>2, ReadyTypes
<1>4. PICK op \in Operation : op = Head(up) /\ op.type # "replace"
  BY <1>1, <1>3, OperationIs
<1>5. Live' = ApplyOperation(Live, op)
  BY <1>1, <1>2, <1>4, LiveApplies DEF Live
<1>6. Shown' = Shown
  BY <1>1 DEF Shown
<1>7. Meet(Live, up, Shown, down)
  BY <1>2, MeetSymmetric DEF Agrees
<1>8. Meet(Effect(Live, op), Tail(up), Shown, down)
  BY <1>1, <1>3, <1>4, <1>7, MeetHead
<1>9. Meet(Shown, down, Effect(Live, op), Tail(up))
  BY <1>8, MeetSymmetric
<1>10. Meet(Shown, down, Live, up)'
  BY <1>1, <1>4, <1>5, <1>6, <1>9 DEF Effect
<1>11. Peace'
  <2>1. \A j \in DOMAIN up' : j + 1 \in DOMAIN up /\ up'[j] = up[j + 1]
    BY <1>1, <1>3
  <2> QED BY <1>1, <1>2, <2>1 DEF Agrees, Peace
<1>12. WellFormed(Shown)'
  BY <1>2, <1>6 DEF Agrees
<1> QED BY <1>1, <1>2, <1>10, <1>11, <1>12 DEF Agrees, OwnPopup

\* Somebody else edits the canvas, and the page will hear of it.
LEMMA OthersEditAgrees ==
    ASSUME PageReady, OthersEdit, ~Excused(Known)'
    PROVE  Agrees'
PROOF
<1>1. UNCHANGED <<nodes, edges, popup, up>>
  BY DEF OthersEdit, store, open
<1>2. PICK op \in RemoteEdits :
         /\ CanEdit(server, op) /\ server' = ApplyOperation(server, op) /\ down' = Append(down, op)
         /\ past' = past \cup (IF \E i \in DOMAIN up : Clashing(op, up[i]) THEN {"crossed"} ELSE {})
  BY DEF OthersEdit, Note
<1>3. op \in Operation /\ op.type # "replace" /\ op \in Messages
  BY EditorAssumption, OperationIs DEF Messages
<1>4. Agrees /\ EditorTypes /\ \A i \in DOMAIN up : ~Clashing(op, up[i])
  <2>1. ~Excused(Known) /\ "crossed" \notin past'
    BY <1>2, StillExcused DEF Known
  <2> QED BY <1>2, <2>1 DEF PageReady, PageInv
<1>5. up \in Seq(Operation) /\ up \in Seq(Messages) /\ down \in Seq(Messages)
  BY <1>4, ReadyTypes
<1>6. FitsOp(Live, op)
  <2>1. op.type = "addNode" => ~HasNode(server, op.node.id)
    BY <1>2 DEF CanEdit
  <2>2. op.type = "addEdge" => /\ HasNode(server, op.edge.source) /\ HasNode(server, op.edge.target)
                               /\ ~HasEdge(server, op.edge.id)
    BY <1>2 DEF CanEdit
  <2> QED BY <1>4, <2>1, <2>2, ReadyTypes DEF FitsOp
<1>7. \A j \in 1..Len(up) : Harmless(up[j], op)
  <2>1. \A j \in 1..Len(up) : up[j] \in Operation /\ j \in DOMAIN up
    BY <1>5
  <2> QED BY <1>4, <2>1, OperationIs DEF Harmless
<1>8. Live' = ApplyOperation(Live, op) /\ Shown' = Shown
  BY <1>1, <1>2, <1>3, <1>4, LiveApplies DEF Live, Shown
<1>9. Meet(Live, up, Shown, down)
  BY <1>4, MeetSymmetric DEF Agrees
<1>10. Meet(ApplyOperation(Live, op), up, Shown, Append(down, op))
  BY <1>3, <1>5, <1>6, <1>7, <1>9, MeetUnder
<1>11. Meet(Shown, Append(down, op), ApplyOperation(Live, op), up)
  BY <1>10, MeetSymmetric
<1>12. Meet(Shown, down, Live, up)'
  BY <1>1, <1>2, <1>8, <1>11
<1>13. Peace'
  <2>1. \A i \in DOMAIN down' : (i \in DOMAIN down /\ down'[i] = down[i]) \/ down'[i] = op
    BY <1>2, <1>5
  <2>2. \A j \in DOMAIN up : Harmless(op, up[j])
    BY <1>3, <1>4, ClashingIsSymmetric DEF Harmless
  <2> QED BY <1>1, <1>4, <2>1, <2>2 DEF Agrees, Peace
<1>14. WellFormed(Shown)'
  BY <1>4, <1>8 DEF Agrees
<1> QED BY <1>1, <1>4, <1>12, <1>13, <1>14 DEF Agrees, OwnPopup

LEMMA OthersRestoreAgrees ==
    ASSUME PageReady, OthersRestore, ~Excused(Known)'
    PROVE  Agrees'
PROOF
<1>1. UNCHANGED <<nodes, edges, popup, up>> /\ past' = past \cup (IF up = <<>> THEN {} ELSE {"crossed"})
  BY DEF OthersRestore, store, open, Note
<1>2. PICK m \in Replacement : server' = m.content /\ down' = Append(down, m) /\ m.type = "replace"
  BY DEF OthersRestore, Replacement
<1>3. Agrees /\ EditorTypes /\ up = <<>>
  <2>1. ~Excused(Known) /\ "crossed" \notin past'
    BY <1>1, StillExcused DEF Known
  <2> QED BY <1>1, <2>1 DEF PageReady, PageInv
<1>4. m \in Messages /\ down \in Seq(Messages) /\ Live \in CanvasStateData
  BY <1>3, ReadyTypes DEF Messages
<1>5. Live' = Effect(Live, m) /\ Shown' = Shown
  BY <1>1, <1>2 DEF Live, Shown, Effect
<1>6. Effect(Live, m) \in CanvasStateData
  BY <1>4, EffectType
<1>7. Meet(Live, up, Shown, down)
  BY <1>3, MeetSymmetric DEF Agrees
<1>8. Meet(Shown, Append(down, m), Effect(Live, m), <<>>)
  BY <1>2, <1>4, <1>6, <1>7, MeetReplaced
<1>9. Meet(Shown, down, Live, up)'
  BY <1>1, <1>2, <1>3, <1>5, <1>8
<1>10. Peace'
  BY <1>1, <1>3 DEF Peace
<1>11. WellFormed(Shown)'
  BY <1>3, <1>5 DEF Agrees
<1> QED BY <1>1, <1>3, <1>9, <1>10, <1>11 DEF Agrees, OwnPopup

-----------------------------------------------------------------------------
(* What arrives on the page.                                               *)

LEMMA CataloguedTail ==
    ASSUME Catalogued, down \in Seq(Messages), down # <<>>, down' = Tail(down)
    PROVE  Catalogued'
PROOF
<1>1. \A i \in DOMAIN down' : i + 1 \in DOMAIN down /\ down'[i] = down[i + 1]
  OBVIOUS
<1> QED BY <1>1 DEF Catalogued, Adds

LEMMA CataloguedAppended ==
    ASSUME Catalogued, down \in Seq(Messages), NEW m \in Messages, down' = Append(down, m),
           m.type = "addNode" => Sanitize[m.node.label] = m.node.label
    PROVE  Catalogued'
PROOF
<1>1. \A i \in DOMAIN down' : (i \in DOMAIN down /\ down'[i] = down[i]) \/ down'[i] = m
  OBVIOUS
<1> QED BY <1>1 DEF Catalogued, Adds

\* The first message that is on its way takes effect on the page.
LEMMA ArrivesAgrees ==
    ASSUME PageReady, down # <<>>, down' = Tail(down), UNCHANGED <<server, up, popup>>, Agrees,
           Shown' = Effect(Shown, Head(down)), WellFormed(Effect(Shown, Head(down))), UniqueEntries(edges')
    PROVE  Agrees'
PROOF
<1>1. down \in Seq(Messages)
  BY ReadyTypes DEF PageReady
<1>2. Meet(Shown, down, Live, up)
  BY DEF Agrees
<1>3. Meet(Effect(Shown, Head(down)), Tail(down), Live, up)
  BY <1>1, <1>2, MeetHead
<1>4. Live' = Live
  BY DEF Live
<1>5. Meet(Shown, down, Live, up)'
  BY <1>3, <1>4
<1>6. Peace'
  <2>1. \A i \in DOMAIN down' : i + 1 \in DOMAIN down /\ down'[i] = down[i + 1]
    BY <1>1
  <2> QED BY <2>1 DEF Agrees, Peace
<1>7. WellFormed(Shown)' /\ OwnPopup'
  BY DEF Agrees, OwnPopup
<1> QED BY <1>5, <1>6, <1>7 DEF Agrees

LEMMA BroadcastAgrees ==
    ASSUME PageReady, OnOperationBroadcast, ~Excused(Known)'
    PROVE  Agrees'
PROOF
<1>1. /\ down # <<>> /\ down' = Tail(down) /\ UNCHANGED <<server, up, popup>> /\ past \subseteq past'
      /\ Message.type = "addEdge" => past' = past \cup Doubled({Message.edge.id})
  BY DEF OnOperationBroadcast, Note
<1>2. EditorTypes /\ Agrees /\ Catalogued /\ "edge doubled" \notin past'
  BY <1>1, StillExcused DEF PageReady, PageInv, Known
<1>3. /\ nodes \in SUBSET Node /\ edges \in Seq(PageEdge) /\ down \in Seq(Messages)
      /\ Shown \in CanvasStateData
  BY <1>2, ReadyTypes
<1>4. PICK m \in Operation : /\ m = Message /\ m = Head(down) /\ m.type # "replace"
                             /\ Shows(BroadcastNodes(m), BroadcastEdges(m))
  BY <1>2, BroadcastShows, OperationIs DEF Message
<1>5. FitsOp(Shown, m)
  <2>1. Meet(Shown, down, Live, up)
    BY <1>2 DEF Agrees
  <2> QED BY <1>1, <1>3, <1>4, <2>1, MeetHead DEF Fits
<1>6. nodes' = BroadcastNodes(m) /\ edges' = BroadcastEdges(m)
  BY <1>4 DEF Shows
<1>7. Shown = PageCanvas(nodes, edges)
  BY DEF Shown
<1>8. ASSUME m \in NodeAdditions PROVE Shown' = ApplyOperation(Shown, m) /\ UniqueEntries(edges')
  <2>1. m.type = "addNode"
    BY <1>8 DEF NodeAdditions
  <2>2. nodes' = nodes \cup {m.node} /\ edges' = edges
    BY <1>6, <2>1 DEF BroadcastNodes, BroadcastEdges
  <2>3. m.node.id \notin IdsOf(nodes)
    BY <1>3, <1>5, <1>7, <2>1, PageCanvasIs DEF FitsOp
  <2>4. Sanitize[m.node.label] = m.node.label
    <3>1. 1 \in DOMAIN down /\ down[1] = m
      BY <1>1, <1>3, <1>4
    <3> QED BY <1>2, <2>1, <3>1 DEF Catalogued, Adds
  <2>5. PageCanvas(nodes \cup {m.node}, edges) = ApplyOperation(PageCanvas(nodes, edges), m)
    BY <1>3, <1>8, <2>3, <2>4, PageAdds
  <2> QED BY <1>2, <2>2, <2>5 DEF Shown, Agrees
<1>9. ASSUME m \in NodeMoves \cup NodeUpdates PROVE Shown' = ApplyOperation(Shown, m) /\ UniqueEntries(edges')
  <2>1. m.type \in {"moveNode", "updateNode"}
    BY <1>9 DEF NodeMoves, NodeUpdates
  <2>2. /\ edges' = edges
        /\ nodes' = IF m.type = "moveNode" THEN Moved(nodes, m.nodeId, m.position)
                    ELSE Labelled(nodes, m.nodeId, m.label)
    BY <1>6, <2>1 DEF BroadcastNodes, BroadcastEdges
  <2>3. PageCanvas(nodes', edges) = ApplyOperation(PageCanvas(nodes, edges), m)
    BY <1>3, <1>9, <2>2, PageChanges
  <2> QED BY <1>2, <2>2, <2>3 DEF Shown, Agrees
<1>10. ASSUME m \in NodeDeletions PROVE Shown' = ApplyOperation(Shown, m) /\ UniqueEntries(edges')
  <2>1. m.type = "deleteNode"
    BY <1>10 DEF NodeDeletions
  <2>2. nodes' = WithoutNode(nodes, m.nodeId) /\ edges' = Detached(edges, m.nodeId)
    BY <1>6, <2>1 DEF BroadcastNodes, BroadcastEdges
  <2>3. NoDanglingEdges(PageCanvas(nodes, edges)) /\ UniqueEntries(edges)
    BY <1>2, <1>7 DEF Agrees, WellFormed
  <2>4. PageCanvas(nodes', edges') = ApplyOperation(PageCanvas(nodes, edges), m)
    BY <1>3, <1>10, <2>2, <2>3, PageDeletesNode
  <2> QED BY <1>3, <2>2, <2>3, <2>4, UniqueKept DEF Shown
<1>11. ASSUME m \in EdgeDeletions PROVE Shown' = ApplyOperation(Shown, m) /\ UniqueEntries(edges')
  <2>1. m.type = "deleteEdge"
    BY <1>11 DEF EdgeDeletions
  <2>2. nodes' = nodes /\ edges' = Without(edges, m.edgeId)
    BY <1>6, <2>1 DEF BroadcastNodes, BroadcastEdges
  <2>3. PageCanvas(nodes, Without(edges, m.edgeId)) = ApplyOperation(PageCanvas(nodes, edges), m)
    BY <1>3, <1>11, PageDeletesEdge
  <2>4. UniqueEntries(edges)
    BY <1>2 DEF Agrees
  <2> QED BY <1>3, <2>2, <2>3, <2>4, UniqueKept DEF Shown
<1>12. ASSUME m \in EdgeAdditions PROVE Shown' = ApplyOperation(Shown, m) /\ UniqueEntries(edges')
  <2>1. m.type = "addEdge" /\ m.edge \in Edge
    BY <1>12 DEF EdgeAdditions
  <2>2. nodes' = nodes /\ edges' = Append(edges, m.edge)
    BY <1>6, <2>1 DEF BroadcastNodes, BroadcastEdges
  <2>3. m.edge.edgeType # Pending /\ m.edge \in PageEdge
    BY <2>1, EditorAssumption DEF Edge, EdgeOf, PageEdge
  <2>4. m.edge.id \notin EdgeIdsOf(edges)
    <3>1. ~HasEdge(Shown, m.edge.id)
      BY <1>5, <2>1 DEF FitsOp
    <3>2. \A e \in ToSet(edges) : e.edgeType # Pending => e.id # m.edge.id
      BY <3>1 DEF HasEdge, Shown, PageCanvas
    <3>3. popup # Nil => popup.edge # m.edge.id
      BY <1>1, <1>2, <1>4, <2>1 DEF Doubled
    <3>4. \A e \in ToSet(edges) : e.edgeType = Pending => e.id # m.edge.id
      BY <3>3 DEF PageReady, PopupInv, PendingInPopup
    <3> QED BY <3>2, <3>4 DEF EdgeIdsOf
  <2>5. UniqueEntries(edges')
    BY <1>2, <1>3, <2>2, <2>3, <2>4, UniqueAppended DEF Agrees
  <2>6. PICK q \in Seq(PageEdge) : q = Append(edges, m.edge) /\ ToSet(q) = ToSet(edges) \cup {m.edge}
    BY <1>3, <2>3, AddedToSet
  <2>7. {e \in ToSet(q) : e.edgeType # Pending} = {e \in ToSet(edges) : e.edgeType # Pending} \cup {m.edge}
    BY <2>3, <2>6
  <2>8. PageCanvas(nodes, q) = ApplyOperation(PageCanvas(nodes, edges), m)
    BY <1>3, <1>5, <1>7, <1>12, <2>7, PageConnects
  <2> QED BY <2>2, <2>5, <2>6, <2>8 DEF Shown
<1>13. Shown' = ApplyOperation(Shown, m) /\ UniqueEntries(edges')
  <2>1. Operation = NodeAdditions \cup NodeDeletions \cup NodeMoves \cup NodeUpdates
                       \cup EdgeAdditions \cup EdgeDeletions
    BY DEF Operation, NodeAdditions, NodeDeletions, NodeMoves, NodeUpdates, EdgeAdditions, EdgeDeletions
  <2> QED BY <1>8, <1>9, <1>10, <1>11, <1>12, <2>1
<1>14. WellFormed(ApplyOperation(Shown, m))
  BY <1>2, <1>3, ApplyOperationWellFormed DEF Agrees
<1>15. Effect(Shown, Head(down)) = ApplyOperation(Shown, m)
  BY <1>4 DEF Effect
<1> QED BY <1>1, <1>2, <1>13, <1>14, <1>15, ArrivesAgrees

\* A content with plain labels is shown as it is.
LEMMA ContentShown ==
    ASSUME NEW c \in {Start} \cup Restorable
    PROVE  /\ PageCanvas(c.nodes, SetToSeq(c.edges)) = AtRevision(c, 0)
           /\ WellFormed(AtRevision(c, 0)) /\ UniqueEntries(SetToSeq(c.edges))
PROOF
<1>1. /\ c.nodes \in SUBSET Node /\ ToSet(SetToSeq(c.edges)) = c.edges /\ c.edges \subseteq Edge
  BY StartTyped
<1>2. WellFormed(c) /\ \A n \in c.nodes : Sanitize[n.label] = n.label
  BY EditorAssumption
<1>3. {San(n) : n \in c.nodes} = c.nodes
  BY <1>1, <1>2, SanIs
<1>4. {e \in c.edges : e.edgeType # Pending} = c.edges
  BY <1>1, EditorAssumption DEF Edge, EdgeOf
<1>5. PageCanvas(c.nodes, SetToSeq(c.edges)) = AtRevision(c, 0)
  BY <1>1, <1>3, <1>4 DEF PageCanvas, AtRevision
<1>6. WellFormed(AtRevision(c, 0))
  BY <1>2 DEF AtRevision, WellFormed, UniqueNodeIds, UniqueEdgeIds, NoDanglingEdges, HasNode
<1> QED BY <1>5, <1>6, UniqueListed

LEMMA ReplacedAgrees ==
    ASSUME PageReady, OnCanvasReplaced, ~Excused(Known)'
    PROVE  Agrees'
PROOF
<1>1. /\ down # <<>> /\ down' = Tail(down) /\ UNCHANGED <<server, up, popup>> /\ past \subseteq past'
      /\ Message.type = "replace"
      /\ nodes' = Message.content.nodes /\ edges' = SetToSeq(Message.content.edges)
  BY DEF OnCanvasReplaced, Note, Shows
<1>2. EditorTypes /\ Agrees
  BY <1>1, StillExcused DEF PageReady, PageInv
<1>3. PICK c \in Restorable : c = Message.content
  BY <1>1, <1>2, MessageTyped
<1>4. /\ PageCanvas(c.nodes, SetToSeq(c.edges)) = AtRevision(c, 0)
      /\ WellFormed(AtRevision(c, 0)) /\ UniqueEntries(SetToSeq(c.edges))
  BY ContentShown
<1>5. Effect(Shown, Head(down)) = AtRevision(c, 0)
  BY <1>1, <1>3 DEF Effect, Message
<1>6. Shown' = AtRevision(c, 0)
  BY <1>1, <1>3, <1>4 DEF Shown
<1>7. UniqueEntries(edges')
  BY <1>1, <1>3, <1>4
<1> QED BY <1>1, <1>2, <1>4, <1>5, <1>6, <1>7, ArrivesAgrees

-----------------------------------------------------------------------------
(* Every step.                                                             *)

LEMMA NextCatalogued ==
    ASSUME EditorTypes, Catalogued, [Next]_vars
    PROVE  Catalogued'
PROOF
<1>1. down \in Seq(Messages)
  BY ReadyTypes
<1>2. CASE OthersEdit
  <2>1. PICK op \in RemoteEdits : down' = Append(down, op)
    BY <1>2 DEF OthersEdit
  <2>2. op \in Messages /\ (op.type = "addNode" => Sanitize[op.node.label] = op.node.label)
    BY EditorAssumption DEF Messages
  <2> QED BY <1>1, <2>1, <2>2, CataloguedAppended
<1>3. CASE OthersRestore
  <2>1. PICK m \in Replacement : down' = Append(down, m) /\ m.type = "replace"
    BY <1>3 DEF OthersRestore, Replacement
  <2> QED BY <1>1, <2>1, CataloguedAppended DEF Messages
<1>4. CASE OnOperationBroadcast \/ OnCanvasReplaced
  BY <1>1, <1>4, CataloguedTail DEF OnOperationBroadcast, OnCanvasReplaced
<1>5. CASE \/ \E n \in Node : AddNodeHere(n)
           \/ \E id \in NodeIds : \/ DeleteSelectedNode(id) \/ StartEdit(id)
                                  \/ \E pos \in Positions : DragNode(id, pos)
           \/ \E id \in EdgeIds : DeleteSelectedEdge(id) \/ Connect(id)
           \/ \E id \in NodeIds \cup EdgeIds : OpenMenu(id)
           \/ CloseMenu \/ MenuDelete
           \/ \E type \in EdgeTypes : SelectEdgeType(type)
           \/ ClosePopup
           \/ \E text \in Labels \cup {Blank} : TypeLabel(text)
           \/ CommitEdit \/ CancelEdit \/ HandleOperation \/ TimerFires
           \/ UNCHANGED vars
  <2>1. down' = down
    BY <1>5 DEF AddNodeHere, DeleteSelectedNode, StartEdit, DragNode, DeleteSelectedEdge, Connect,
                OpenMenu, CloseMenu, MenuDelete, SelectEdgeType, ClosePopup, TypeLabel, CommitEdit,
                CancelEdit, HandleOperation, TimerFires, vars, room
  <2> QED BY <2>1, SameCatalogued
<1> QED BY <1>2, <1>3, <1>4, <1>5 DEF Next

LEMMA NextPage ==
    ASSUME PageReady, [Next]_vars
    PROVE  PageInv'
PROOF
<1>1. Catalogued'
  BY NextCatalogued DEF PageReady, PageInv
<1>2. CASE \/ \E n \in Node : AddNodeHere(n)
           \/ \E id \in NodeIds : \/ DeleteSelectedNode(id)
                                  \/ \E pos \in Positions : DragNode(id, pos)
           \/ \E id \in EdgeIds : DeleteSelectedEdge(id) \/ Connect(id)
           \/ MenuDelete \/ (CommitEdit /\ Changed)
  BY <1>1, <1>2, AddNodeAgrees, DeleteNodeAgrees, DragAgrees, DeleteEdgeAgrees, ConnectAgrees,
     MenuDeleteAgrees, CommitAgrees DEF PageInv
<1>3. CASE \/ \E type \in EdgeTypes : SelectEdgeType(type)
           \/ ClosePopup \/ HandleOperation \/ OthersEdit \/ OthersRestore
           \/ OnOperationBroadcast \/ OnCanvasReplaced
  BY <1>1, <1>3, SelectAgrees, CloseAgrees, HandleAgrees, OthersEditAgrees, OthersRestoreAgrees,
     BroadcastAgrees, ReplacedAgrees DEF PageInv
<1>4. CASE \/ \E id \in NodeIds : StartEdit(id)
           \/ \E id \in NodeIds \cup EdgeIds : OpenMenu(id)
           \/ CloseMenu \/ CancelEdit \/ TimerFires
           \/ \E text \in Labels \cup {Blank} : TypeLabel(text)
           \/ (CommitEdit /\ ~Changed)
           \/ UNCHANGED vars
  <2>1. UNCHANGED <<store, popup, server, up, down, past>>
    BY <1>4 DEF StartEdit, OpenMenu, CloseMenu, CancelEdit, TimerFires, TypeLabel, CommitEdit,
                vars, store, open, room
  <2> QED BY <2>1, IdleAgrees DEF PageReady
<1> QED BY <1>2, <1>3, <1>4 DEF Next

LEMMA InitPage == Init => PageInv
PROOF
<1> SUFFICES ASSUME Init PROVE PageInv
  OBVIOUS
<1>1. /\ nodes = Start.nodes /\ edges = SetToSeq(Start.edges) /\ popup = Nil
      /\ server = Start /\ up = <<>> /\ down = <<>>
  BY DEF Init
<1>2. Catalogued /\ Peace /\ OwnPopup
  BY <1>1 DEF Catalogued, Peace, OwnPopup
<1>3. /\ PageCanvas(Start.nodes, SetToSeq(Start.edges)) = AtRevision(Start, 0)
      /\ WellFormed(AtRevision(Start, 0)) /\ UniqueEntries(SetToSeq(Start.edges))
  BY ContentShown
<1>4. Shown = Live /\ WellFormed(Shown) /\ UniqueEntries(edges)
  BY <1>1, <1>3 DEF Shown, Live
<1>5. Live \in CanvasStateData
  BY InitTyped, ReadyTypes
<1>6. Meet(Shown, down, Live, up)
  BY <1>1, <1>4, <1>5, MeetAtOnce
<1> QED BY <1>2, <1>4, <1>6 DEF PageInv, Agrees

\* Whatever is open on the page and in whatever order edits arrive, once nothing
\* is on its way the page shows the server's canvas, with each edge once: what
\* comes in behind an open popup, menu or editor is neither lost nor applied twice
\* (Canvas.tsx:146-233, 324-354, useCollaboration.ts:95-205), but for the known
\* exceptions.
THEOREM PageAgrees == Spec => []PageAgreesWithServer
PROOF
<1>1. EditorTypes /\ PopupInv /\ (IdsInv /\ LabelInv) /\ PageInv /\ [Next]_vars => PageInv'
  BY NextPage DEF PageReady
<1>2. EditorTypes /\ PopupInv /\ PageInv => PageAgreesWithServer
  <2> SUFFICES ASSUME EditorTypes, PopupInv, PageInv, up = <<>>, down = <<>>, popup = Nil, ~Excused(Known)
               PROVE  /\ {[n EXCEPT !.label = Sanitize[@]] : n \in nodes} = server.nodes
                      /\ ToSet(edges) = server.edges /\ IsInjective(edges)
    BY DEF PageAgreesWithServer
  <2>1. UniqueEntries(edges) /\ Meet(Shown, <<>>, Live, <<>>)
    BY DEF PageInv, Agrees
  <2>2. Shown = Live
    BY <2>1, MeetAtLast
  <2>3. {San(n) : n \in nodes} = server.nodes /\ {e \in ToSet(edges) : e.edgeType # Pending} = server.edges
    BY <2>2 DEF Shown, Live, PageCanvas, AtRevision
  <2>4. \A e \in ToSet(edges) : e.edgeType # Pending
    BY DEF PopupInv, PendingInPopup
  <2>5. IsInjective(edges)
    BY <2>1 DEF UniqueEntries, IsInjective
  <2> QED BY <2>3, <2>4, <2>5 DEF San
<1> QED BY <1>1, <1>2, InitPage, TypesInvariant, PopupInvariant, LabelInvariant, PTL DEF Spec
=============================================================================
