------------------------------ MODULE MCCanvas ------------------------------
(***************************************************************************)
(* Every canvas that operations can produce from the empty one, over two   *)
(* nodes, an edge between them and a loop, two edge types, two positions,  *)
(* and three labels of which sanitizeText changes one.                     *)
(***************************************************************************)
EXTENDS Canvas

VARIABLE canvas

MCEnds == [ab |-> <<"a", "b">>, bb |-> <<"b", "b">>]
MCSanitize == [plain |-> "plain", raw |-> "escaped", escaped |-> "escaped"]

Init == canvas = EmptyCanvas
Next == \E op \in Operation : canvas' = ApplyOperation(canvas, op)
Spec == Init /\ [][Next]_canvas

\* Operations never leave two items with one id, nor an edge without its ends
\* (ot.ts:66 "Only add edge if both endpoints exist", ot.ts:40 "Also remove any
\* edges connected to the deleted node").
CanvasWellFormed == WellFormed(canvas)

\* Applying an operation again changes nothing: a resent operation is harmless
\* (ot.ts:28 "Idempotent").
RedeliveryHarmless ==
    \A op \in Operation :
        LET once == ApplyOperation(canvas, op) IN ApplyOperation(once, op) = once

\* Two operations may be applied in either order unless one of them creates or
\* overwrites what the other names (ot.ts:5-16, "last write wins").
OthersCommute ==
    \A a, b \in Operation :
        OrderMatters(a, b) \/ ApplyOperation(ApplyOperation(canvas, a), b)
                            = ApplyOperation(ApplyOperation(canvas, b), a)
=============================================================================
