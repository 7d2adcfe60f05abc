------------------------------ MODULE MCRooms -------------------------------
(***************************************************************************)
(* Instances of Rooms: two users, a room that one of them made, and a room *)
(* to make.  Each workload is a question of its own.                       *)
(***************************************************************************)
EXTENDS Rooms, TLC

CONSTANTS r1, r2, u1, u2, h1, h2, h3

MCRooms == {r1, r2}
MCUsers == {u1, u2}
MCHandlers == {h1, h2, h3}
HandlersAlike == Permutations(MCHandlers)

Membership == {"createRoom", "joinRoom", "deleteRoom"}
Links == {"joinRoom", "regenerate", "rename"}
Discussion == {"deleteRoom", "createComment", "deleteComment"}
Snapshots == {"deleteRoom", "createSnapshot", "deleteSnapshot"}
Canvases == {"deleteRoom", "open", "edit", "flush", "save"}
Lifecycle == {"deleteRoom", "regenerate", "rename"}
Accounts == {"register"}

AllWorkloads == {Membership, Links, Discussion, Snapshots, Canvases, Lifecycle, Accounts}
JustLinks == {{"regenerate", "rename"}}
=============================================================================
