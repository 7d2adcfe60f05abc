----------------------------- MODULE LiveCanvas -----------------------------
(***************************************************************************)
(* What the server promises about a room's canvas, without saying how: one *)
(* live canvas that edits and restores change one at a time, a durable     *)
(* copy that is brought up to date from it, and no way for a live canvas   *)
(* to disappear before its content is durable (README, "Two-layer          *)
(* storage").  CanvasSync keeps the promise when it handles one request    *)
(* after another; its violation runs show which interleavings break it.    *)
(***************************************************************************)
EXTENDS Canvas

CONSTANTS Rooms, Ops, Nil

VARIABLES
    live,       \* [Rooms -> canvas or Nil]: what the users of a room share
    durable,    \* [Rooms -> canvas or Nil]: what survives when they are gone
    snapshots   \* contents users have kept

vars == <<live, durable, snapshots>>

\* A room nobody has saved yet is an empty canvas at revision 0.
CanvasOr(s) == IF s = Nil THEN EmptyCanvas ELSE s

Load(r) ==
    /\ live[r] = Nil
    /\ live' = [live EXCEPT ![r] = CanvasOr(durable[r])]
    /\ UNCHANGED <<durable, snapshots>>

Edit(r) ==
    /\ live[r] # Nil
    /\ \E op \in Ops :
          live' = [live EXCEPT ![r] =
                     AtRevision(ApplyOperation(live[r], op), live[r].revision + 1)]
    /\ UNCHANGED <<durable, snapshots>>

Restore(r) ==
    /\ \E c \in snapshots :
          live' = [live EXCEPT ![r] = AtRevision(c, CanvasOr(live[r]).revision + 1)]
    /\ UNCHANGED <<durable, snapshots>>

Flush(r) ==
    /\ live[r] # Nil
    /\ durable' = [durable EXCEPT ![r] = live[r]]
    /\ UNCHANGED <<live, snapshots>>

TakeSnapshot(r) ==
    /\ snapshots' = snapshots \cup
          {ContentOf(IF live[r] = Nil THEN CanvasOr(durable[r]) ELSE live[r])}
    /\ UNCHANGED <<live, durable>>

\* A live canvas goes away only when nothing is lost with it.
Evict(r) ==
    /\ live[r] # Nil
    /\ ContentOf(live[r]) = ContentOf(CanvasOr(durable[r]))
    /\ live' = [live EXCEPT ![r] = Nil]
    /\ UNCHANGED <<durable, snapshots>>

Next == \E r \in Rooms :
    Load(r) \/ Edit(r) \/ Restore(r) \/ Flush(r) \/ TakeSnapshot(r) \/ Evict(r)

Spec == [][Next]_vars
=============================================================================
