--------------------------- MODULE EditingProofs ---------------------------
(***************************************************************************)
(* Theorems about every canvas that a sequence of operations can produce   *)
(* from the empty one, over any ids, labels, positions and edge types.     *)
(***************************************************************************)
EXTENDS MCCanvas, CanvasProofs

\* Every such canvas is one the operations are about, and well formed.
LEMMA EditingInvariant == Spec => [](canvas \in CanvasStateData /\ WellFormed(canvas))
PROOF
<1> DEFINE I == canvas \in CanvasStateData /\ WellFormed(canvas)
<1>1. Init => I
  BY EmptyCanvasOK DEF Init
<1>2. I /\ [Next]_canvas => I'
  <2> SUFFICES ASSUME I, [Next]_canvas PROVE I'
    OBVIOUS
  <2>1. CASE Next
    <3>1. PICK op \in Operation : canvas' = ApplyOperation(canvas, op)
      BY <2>1 DEF Next
    <3> QED BY <3>1, ApplyOperationType, ApplyOperationWellFormed
  <2>2. CASE UNCHANGED canvas
    BY <2>2
  <2> QED BY <2>1, <2>2
<1> QED BY <1>1, <1>2, PTL DEF Spec

\* However users edit, ids stay unique and every edge keeps its two ends
\* (ot.ts:29, 40, 66, 71).
THEOREM CanvasesStayWellFormed == Spec => []CanvasWellFormed
PROOF
<1>1. WellFormed(canvas) => CanvasWellFormed
  BY DEF CanvasWellFormed
<1> QED BY <1>1, EditingInvariant, PTL

\* However users have edited, an operation that arrives twice does what it does
\* when it arrives once (ot.ts:28 "Idempotent", 37, 68-73, 82).
THEOREM RedeliveryIsHarmless == Spec => []RedeliveryHarmless
PROOF
<1>1. canvas \in CanvasStateData => RedeliveryHarmless
  <2> SUFFICES ASSUME canvas \in CanvasStateData, NEW op \in Operation
               PROVE  ApplyOperation(ApplyOperation(canvas, op), op) = ApplyOperation(canvas, op)
    BY SMT DEF RedeliveryHarmless
  <2> QED BY RedeliveryChangesNothing
<1> QED BY <1>1, EditingInvariant, PTL

\* However users have edited, two operations may be applied in either order, for
\* any two of the six kinds, unless one of them creates or overwrites what the
\* other names (ot.ts:5-16, "last write wins").
THEOREM OthersCommuteEverywhere == Spec => []OthersCommute
PROOF
<1>1. canvas \in CanvasStateData => OthersCommute
  <2> SUFFICES ASSUME canvas \in CanvasStateData, NEW a \in Operation, NEW b \in Operation
               PROVE  OrderMatters(a, b) \/ ApplyOperation(ApplyOperation(canvas, a), b)
                                          = ApplyOperation(ApplyOperation(canvas, b), a)
    BY Zenon DEF OthersCommute
  <2> QED BY OperationsCommute
<1> QED BY <1>1, EditingInvariant, PTL
=============================================================================
