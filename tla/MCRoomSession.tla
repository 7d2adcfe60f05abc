--------------------------- MODULE MCRoomSession ----------------------------
(***************************************************************************)
(* Instances of RoomSession: a user in the room, another who comes, and a  *)
(* second tab of the first.  Each workload is a question of its own.       *)
(***************************************************************************)
EXTENDS RoomSession

CONSTANTS a, b, c, u1, u2

MCTabs == {a, b, c}
MCUsers == {u1, u2}
MCUserOf == [t \in MCTabs |-> IF t = b THEN u2 ELSE u1]

Nothing == [what \in Events |-> 0]
In(tabs, present, w) ==
    [what \in Events \cup {"tabs", "present"} |->
        CASE what = "tabs" -> tabs [] what = "present" -> present [] OTHER -> w[what]]

\* Comings and goings, with and without a lost connection.
Visits == In(MCTabs, {a}, [Nothing EXCEPT !.opens = 2, !.leaves = 1])
Returns == In({a, b}, {a, b}, [Nothing EXCEPT !.opens = 1, !.leaves = 1, !.drops = 1])
Pointing == In({a, b}, {a, b}, [Nothing EXCEPT !.leaves = 1, !.drops = 1, !.cursors = 2])
Tokens == In({a, b}, {a}, [Nothing EXCEPT !.opens = 1, !.drops = 1, !.tokens = 1])
Deletion == In({a, b}, {a}, [Nothing EXCEPT !.opens = 1, !.edits = 1, !.deletions = 1])
LostDeletion == In({a, b}, {a, b}, [Nothing EXCEPT !.drops = 1, !.deletions = 1])
Expiry == In({a, b}, {a}, [Nothing EXCEPT !.opens = 1, !.leaves = 1, !.expiries = 1])

\* Edits, comments and snapshots: made while another comes, and around a lost connection.
Editing == In(MCTabs, {a}, [Nothing EXCEPT !.opens = 2, !.edits = 1])
LostEdits == In({a, b}, {a, b}, [Nothing EXCEPT !.drops = 1, !.edits = 1])
LoneEdits == In({a}, {a}, [Nothing EXCEPT !.drops = 1, !.edits = 3])
Discussion == In({a, b}, {a}, [Nothing EXCEPT !.opens = 1, !.posts = 2, !.removals = 1])
LostDiscussion == In({a, b}, {a, b}, [Nothing EXCEPT !.drops = 1, !.posts = 1, !.removals = 1])
Panel == In({a, b}, {a, b}, [Nothing EXCEPT !.panels = 2, !.posts = 1, !.removals = 1])
LostPanel == In({a}, {a}, [Nothing EXCEPT !.drops = 1, !.panels = 2, !.posts = 1, !.removals = 1])
PanelLeft == In({a}, {a}, [Nothing EXCEPT !.opens = 1, !.leaves = 1, !.panels = 2, !.posts = 1])

AllWorkloads == {Visits, Returns, Pointing, Tokens, Deletion, LostDeletion, Expiry, Editing,
                 LostEdits, LoneEdits, Discussion, LostDiscussion, Panel, LostPanel,
                 PanelLeft}
=============================================================================
