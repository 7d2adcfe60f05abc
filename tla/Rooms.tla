------------------------------- MODULE Rooms --------------------------------
(***************************************************************************)
(* Rooms, their members, invite links and rows: the requests of            *)
(* rooms.service.ts, comments.service.ts, snapshots.service.ts and the     *)
(* registration of auth.service.ts, one action per query.  Requests        *)
(* overlap, and any of them may fail between two queries (a crash fails    *)
(* all of them).  Names, texts and canvases are left out: a row is what    *)
(* identifies it and the room it belongs to.                               *)
(***************************************************************************)
EXTENDS Naturals, FiniteSets, Sequences

CONSTANTS
    Users, Rooms, Handlers,
    Existing, Owner,    \* the room there is at the start, and who made it
    Emails,
    Workloads,          \* sets of requests: a behaviour makes those of one
    MaxRequests

Requests == {"createRoom", "joinRoom", "regenerate", "rename", "deleteRoom",
             "createComment", "deleteComment", "createSnapshot", "deleteSnapshot",
             "open", "edit", "flush", "save", "register"}

ASSUME RoomsAssumption == Existing \in Rooms /\ Owner \in Users
ASSUME WorkloadsAssumption == Workloads \subseteq SUBSET Requests
ASSUME MaxRequestsAssumption == MaxRequests \in Nat

VARIABLES
    db,         \* the tables, and the live canvases in Redis
    handlers,   \* the requests in flight
    past,       \* what has been reported to users, and what went on at once
    work        \* the requests of this behaviour

vars == <<db, handlers, past, work>>

-----------------------------------------------------------------------------
(* Rows.  late marks a row that was inserted behind a deletion of its room. *)

Room(owner, token, name) == [ownerId |-> owner, inviteToken |-> token, name |-> name]
NoRow == [ownerId |-> "none"]

Member(id, room, user, role) == [id |-> id, room |-> room, user |-> user, role |-> role]
Item(id, room, author, late) == [id |-> id, room |-> room, author |-> author, late |-> late]
CanvasOf(room, late) == [room |-> room, late |-> late]

\* A table of which k is the key, with a row inserted or replaced.
WithRow(table, k, row) == [x \in DOMAIN table \cup {k} |-> IF x = k THEN row ELSE table[x]]

HasRoom(r) == r \in DOMAIN db.rooms
IsMember(u, r) == \E m \in db.members : m.user = u /\ m.room = r
In(table, r) == {x \in table : x.room = r}

-----------------------------------------------------------------------------
(* Requests and their handlers.                                            *)

Idle == [op |-> "none", at |-> "idle"]
Running(h, op, at) == handlers[h].op = op /\ handlers[h].at = at
Go(h, at) == handlers' = [handlers EXCEPT ![h].at = at]
Reply(h) == handlers' = [handlers EXCEPT ![h] = Idle]

Deleting(r) == \E h \in Handlers : handlers[h].at = "delete" /\ handlers[h].room = r
Late(r) == ~HasRoom(r) \/ Deleting(r)

Begin(h, op, at, user, room, arg) ==
    /\ handlers[h] = Idle
    /\ op \in work
    /\ past.requests < MaxRequests
    /\ handlers' = [handlers EXCEPT ![h] =
                        [op |-> op, at |-> at, user |-> user, room |-> room, arg |-> arg,
                         was |-> NoRow, save |-> {}, step |-> 1]]
    /\ past' = [past EXCEPT !.requests = @ + 1]
    /\ UNCHANGED <<db, work>>

\* getRoom: the user must be in room_members.
Access(h) ==
    /\ handlers[h].at = "access"
    /\ IF IsMember(handlers[h].user, handlers[h].room) THEN Go(h, "admitted") ELSE Reply(h)
    /\ UNCHANGED <<db, past, work>>

-----------------------------------------------------------------------------
(* Creating and joining a room.                                            *)

CreateRequest(h) == \E u \in Users : Begin(h, "createRoom", "insert", u, Existing, 0)

InsertMemberAnywhere(id, room, user, role) ==
    db' = [db EXCEPT !.members = @ \cup {Member(id, room, user, role)}]

\* The membership references the room: without one the insert is refused.
InsertMember(id, room, user, role) ==
    db' = [db EXCEPT !.members = IF HasRoom(room)
                                 THEN @ \cup {Member(id, room, user, role)} ELSE @]

CreateRoomOnly(h, r) ==
    /\ Reply(h)
    /\ past' = [past EXCEPT !.used = @ \cup {r}, !.uuid = @ + 1, !.created = @ \cup {r}]

\* The room has its row, the owner's membership follows.
CreateRoomNext(h, r) ==
    /\ handlers' = [handlers EXCEPT ![h].at = "member", ![h].room = r]
    /\ past' = [past EXCEPT !.used = @ \cup {r}, !.uuid = @ + 1]

CreateRoom(h) ==
    /\ Running(h, "createRoom", "insert")
    /\ Rooms \ past.used # {}
    /\ LET r == CHOOSE r \in Rooms \ past.used : TRUE
       IN  /\ db' = [db EXCEPT !.rooms = WithRow(@, r, Room(handlers[h].user, past.uuid, "new"))]
           /\ CreateRoomNext(h, r)
    /\ UNCHANGED work

CreateMember(h) ==
    /\ Running(h, "createRoom", "member")
    /\ InsertMember(past.uuid, handlers[h].room, handlers[h].user, "owner")
    /\ Reply(h)
    /\ past' = [past EXCEPT !.uuid = @ + 1, !.created = IF HasRoom(handlers[h].room)
                                THEN @ \cup {handlers[h].room} ELSE @]
    /\ UNCHANGED work

\* The share popup shows the invite link to the owner and to the members, who
\* pass it on.
Link(u, r) == IF HasRoom(r) /\ (db.rooms[r].ownerId = u \/ IsMember(u, r))
              THEN {db.rooms[r].inviteToken} ELSE {}

Share(u, r) ==
    /\ "joinRoom" \in work
    /\ ~(Link(u, r) \subseteq past.links)
    /\ past' = [past EXCEPT !.links = @ \cup Link(u, r)]
    /\ UNCHANGED <<db, handlers, work>>

JoinRequest(h) ==
    \E u \in Users, token \in past.links : Begin(h, "joinRoom", "find", u, Existing, token)

JoinFind(h) ==
    /\ Running(h, "joinRoom", "find")
    /\ LET found == {r \in DOMAIN db.rooms : db.rooms[r].inviteToken = handlers[h].arg}
       IN  IF found = {} THEN Reply(h)
           ELSE \E r \in found : handlers' = [handlers EXCEPT ![h].at = "lookup", ![h].room = r]
    /\ UNCHANGED <<db, past, work>>

\* A membership of u is about to be inserted.
Admitting(u, r) ==
    \E g \in Handlers : /\ Running(g, "joinRoom", "insert") \/ Running(g, "createRoom", "member")
                        /\ handlers[g].user = u /\ handlers[g].room = r

NeverMember(u, r) == FALSE
AlreadyMember(u, r) == IsMember(u, r)

JoinLookup(h) ==
    /\ Running(h, "joinRoom", "lookup")
    /\ LET u == handlers[h].user
           r == handlers[h].room
       IN  IF AlreadyMember(u, r) THEN Reply(h) /\ UNCHANGED past
           ELSE /\ Go(h, "insert")
                /\ past' = [past EXCEPT !.doubled = @ \/ Admitting(u, r)]
    /\ UNCHANGED <<db, work>>

JoinInsert(h) ==
    /\ Running(h, "joinRoom", "insert")
    /\ InsertMember(past.uuid, handlers[h].room, handlers[h].user, "editor")
    /\ past' = [past EXCEPT !.uuid = @ + 1]
    /\ Reply(h)
    /\ UNCHANGED work

-----------------------------------------------------------------------------
(* Changing a room's row.  TypeORM's save of a loaded row reads it again    *)
(* and updates the columns in which the two differ, or inserts the row if   *)
(* it is gone.                                                             *)

RenameRequest(h) ==
    \E u \in Users, r \in past.used : Begin(h, "rename", "load", u, r, 0)
RegenerateRequest(h) ==
    \E u \in Users, r \in past.used : Begin(h, "regenerate", "load", u, r, 0)

Changes(op) == op \in {"rename", "regenerate"}

\* The new name, or a new token.
Value(h) == IF handlers[h].op = "rename" THEN "renamed" ELSE past.uuid

RowLoad(h) ==
    /\ handlers[h].at = "load" /\ Changes(handlers[h].op)
    /\ IF HasRoom(handlers[h].room) /\ db.rooms[handlers[h].room].ownerId = handlers[h].user
       THEN handlers' = [handlers EXCEPT ![h].at = "reload",
                                         ![h].was = db.rooms[handlers[h].room],
                                         ![h].arg = Value(h)]
       ELSE Reply(h)
    /\ past' = [past EXCEPT !.uuid = IF handlers[h].op = "regenerate" THEN @ + 1 ELSE @]
    /\ UNCHANGED <<db, work>>

\* The row that handler h wants to save.
Wanted(h) == IF handlers[h].op = "rename" THEN [handlers[h].was EXCEPT !.name = handlers[h].arg]
             ELSE [handlers[h].was EXCEPT !.inviteToken = handlers[h].arg]

AllColumns(row, new) == DOMAIN new
Differing(row, new) == {c \in DOMAIN new : row = NoRow \/ row[c] # new[c]}

RowReload(h) ==
    /\ handlers[h].at = "reload"
    /\ LET row == IF HasRoom(handlers[h].room) THEN db.rooms[handlers[h].room] ELSE NoRow
       IN  /\ handlers' = [handlers EXCEPT
                               ![h].at = IF row = NoRow THEN "insertRow" ELSE "update",
                               ![h].save = Differing(row, Wanted(h))]
           /\ past' = [past EXCEPT !.stale = @ \/ row # handlers[h].was]
    /\ UNCHANGED <<db, work>>

PutRow(r, row) == db' = [db EXCEPT !.rooms = WithRow(@, r, row)]

RowInsert(h) ==
    /\ handlers[h].at = "insertRow"
    /\ PutRow(handlers[h].room, Wanted(h))

RowUpsert(h) ==
    /\ handlers[h].at = "update"
    /\ LET r == handlers[h].room
       IN  PutRow(r, [c \in DOMAIN Wanted(h) |-> IF HasRoom(r) /\ c \notin handlers[h].save
                                                 THEN db.rooms[r][c] ELSE Wanted(h)[c]])

\* An UPDATE of a row that is gone changes nothing.
RowUpdate(h) ==
    /\ handlers[h].at = "update"
    /\ LET r == handlers[h].room
           columns == handlers[h].save
       IN  IF HasRoom(r)
           THEN PutRow(r, [c \in DOMAIN db.rooms[r] |-> IF c \in columns THEN Wanted(h)[c]
                                                        ELSE db.rooms[r][c]])
           ELSE UNCHANGED db

\* The invite link is replaced: the old one is revoked.
RowWrite(h) ==
    /\ RowInsert(h) \/ RowUpdate(h)
    /\ past' = IF handlers[h].op = "rename" THEN past
               ELSE [past EXCEPT !.revoked = @ \cup {handlers[h].was.inviteToken},
                                 !.links = @ \cup {handlers[h].arg}]
    /\ Reply(h)
    /\ UNCHANGED work

-----------------------------------------------------------------------------
(* Deleting a room: verifyOwner, the broadcast, the same check again, then  *)
(* the deletes, each a query of its own.                                    *)

DeleteRequest(h) ==
    \E u \in Users, r \in past.used : Begin(h, "deleteRoom", "verify", u, r, 0)

Owns(u, r) == HasRoom(r) /\ db.rooms[r].ownerId = u

DeleteVerify(h) ==
    /\ Running(h, "deleteRoom", "verify")
    /\ IF Owns(handlers[h].user, handlers[h].room)
       THEN /\ Go(h, "find")
            /\ past' = [past EXCEPT !.closing = @ \cup {handlers[h].room}]
       ELSE Reply(h) /\ UNCHANGED past
    /\ UNCHANGED <<db, work>>

\* What is there when a deletion begins is not behind it.
NotLate(table, r) == {IF x.room = r THEN [x EXCEPT !.late = FALSE] ELSE x : x \in table}

DeleteFind(h) ==
    /\ Running(h, "deleteRoom", "find")
    /\ LET r == handlers[h].room
       IN  IF Owns(handlers[h].user, r)
           THEN /\ Go(h, "delete")
                /\ db' = IF Deleting(r) THEN db
                         ELSE [db EXCEPT !.comments = NotLate(@, r), !.snapshots = NotLate(@, r),
                                         !.canvases = NotLate(@, r), !.live = NotLate(@, r)]
           ELSE Reply(h) /\ UNCHANGED db
    /\ UNCHANGED <<past, work>>

RoomBeforeCanvas == <<"comments", "snapshots", "members", "room", "canvases", "live">>
DeletionOrder == <<"comments", "snapshots", "canvases", "members", "room", "live">>

\* A room with members cannot be deleted: the last two deletes are not reached.
DeleteStep(h) ==
    /\ Running(h, "deleteRoom", "delete")
    /\ LET r == handlers[h].room
           n == handlers[h].step
           table == DeletionOrder[n]
           refused == table = "room" /\ In(db.members, r) # {}
       IN  /\ db' = IF refused THEN db
                    ELSE IF table = "room" THEN [db EXCEPT !.rooms = [q \in DOMAIN @ \ {r} |-> @[q]]]
                    ELSE [db EXCEPT ![table] = @ \ In(@, r)]
           /\ IF refused \/ n = Len(DeletionOrder) THEN Reply(h)
              ELSE handlers' = [handlers EXCEPT ![h].step = n + 1]
           /\ past' = IF n = Len(DeletionOrder) THEN [past EXCEPT !.deleted = @ \cup {r}] ELSE past
    /\ UNCHANGED work

-----------------------------------------------------------------------------
(* Comments and snapshots.  Their rows reference the room by its id, with   *)
(* no foreign key.                                                          *)

CommentRequest(h) ==
    \E u \in Users, r \in past.used : Begin(h, "createComment", "access", u, r, 0)
SnapshotRequest(h) ==
    \E u \in Users, r \in past.used : Begin(h, "createSnapshot", "access", u, r, 0)

Insert(h, op, table) ==
    /\ Running(h, op, "admitted")
    /\ db' = [db EXCEPT ![table] = @ \cup {Item(past.uuid, handlers[h].room, handlers[h].user,
                                               Late(handlers[h].room))}]
    /\ past' = [past EXCEPT !.uuid = @ + 1]
    /\ Reply(h)
    /\ UNCHANGED work

CreateComment(h) == Insert(h, "createComment", "comments")
CreateSnapshot(h) == Insert(h, "createSnapshot", "snapshots")

DeleteCommentRequest(h) ==
    \E u \in Users, c \in db.comments : Begin(h, "deleteComment", "find", u, c.room, c.id)
DeleteSnapshotRequest(h) ==
    \E u \in Users, s \in db.snapshots : Begin(h, "deleteSnapshot", "find", u, s.room, s.id)

\* A comment is deleted by its author only.
CommentFind(h) ==
    /\ Running(h, "deleteComment", "find")
    /\ IF \E c \in db.comments : c.id = handlers[h].arg /\ c.author = handlers[h].user
       THEN Go(h, "admitted") ELSE Reply(h)
    /\ UNCHANGED <<db, past, work>>

\* A snapshot is deleted by any member.
SnapshotFind(h) ==
    /\ Running(h, "deleteSnapshot", "find")
    /\ IF \E s \in db.snapshots : s.id = handlers[h].arg THEN Go(h, "access") ELSE Reply(h)
    /\ UNCHANGED <<db, past, work>>

Delete(h, op, table) ==
    /\ Running(h, op, "admitted")
    /\ db' = [db EXCEPT ![table] = {x \in @ : x.id # handlers[h].arg}]
    /\ Reply(h)
    /\ UNCHANGED <<past, work>>

DeleteComment(h) == Delete(h, "deleteComment", "comments")
DeleteSnapshot(h) == Delete(h, "deleteSnapshot", "snapshots")

-----------------------------------------------------------------------------
(* The canvas: a socket opens the room and warms the live copy, operations *)
(* need the live copy but no membership, a flush and a save write the row. *)

OpenRequest(h) == \E u \in Users, r \in past.used : Begin(h, "open", "access", u, r, 0)
EditRequest(h) == \E r \in past.used : Begin(h, "edit", "get", Owner, r, 0)
FlushRequest(h) == \E r \in past.used : Begin(h, "flush", "get", Owner, r, 0)
SaveRequest(h) == \E u \in Users, r \in past.used : Begin(h, "save", "access", u, r, 0)

CanvasGet(h) ==
    /\ handlers[h].at = "get"
    /\ IF In(db.live, handlers[h].room) # {} THEN Go(h, "admitted") ELSE Reply(h)
    /\ UNCHANGED <<db, past, work>>

CanvasPut(h, ops, table) ==
    /\ handlers[h].at = "admitted" /\ handlers[h].op \in ops
    /\ LET r == handlers[h].room
       IN  db' = [db EXCEPT ![table] = IF In(@, r) # {} THEN @ ELSE @ \cup {CanvasOf(r, Late(r))}]
    /\ Reply(h)
    /\ UNCHANGED <<past, work>>

CanvasSet(h) == CanvasPut(h, {"open", "edit"}, "live")
CanvasSave(h) == CanvasPut(h, {"flush", "save"}, "canvases")

-----------------------------------------------------------------------------
(* Registration; users' emails are unique in their table.                   *)

RegisterRequest(h) ==
    \E u \in Users, e \in Emails : Begin(h, "register", "find", u, Existing, e)

RegisterFind(h) ==
    /\ Running(h, "register", "find")
    /\ IF handlers[h].arg \in DOMAIN db.users THEN Reply(h) ELSE Go(h, "insert")
    /\ UNCHANGED <<db, past, work>>

Overwriting(e, u) == TRUE
Unique(e, u) == e \notin DOMAIN db.users

RegisterInsert(h) ==
    /\ Running(h, "register", "insert")
    /\ LET e == handlers[h].arg
           u == handlers[h].user
       IN  IF Unique(e, u)
           THEN /\ db' = [db EXCEPT !.users = WithRow(@, e, u)]
                /\ past' = [past EXCEPT !.registered = @ \cup {<<e, u>>}]
           ELSE UNCHANGED <<db, past>>
    /\ Reply(h)
    /\ UNCHANGED work

\* Whoever knows the password that was registered is let in.
Login(e, u) == e \in DOMAIN db.users /\ db.users[e] = u

-----------------------------------------------------------------------------

\* A query fails, or the process ends, and the request with it.
Fail(h) ==
    /\ handlers[h] # Idle
    /\ Reply(h)
    /\ UNCHANGED <<db, past, work>>

Init ==
    /\ \E guests \in SUBSET (Users \ {Owner}) :
          db = [rooms     |-> [r \in {Existing} |-> Room(Owner, 1, "old")],
                members   |-> {Member(2, Existing, Owner, "owner")} \cup
                              {Member(3, Existing, u, "editor") : u \in guests},
                comments  |-> {Item(4, Existing, Owner, FALSE)},
                snapshots |-> {Item(5, Existing, Owner, FALSE)},
                canvases  |-> {CanvasOf(Existing, FALSE)},
                live      |-> {CanvasOf(Existing, FALSE)},
                users     |-> <<>>]
    /\ handlers = [h \in Handlers |-> Idle]
    /\ past = [uuid |-> 6, requests |-> 0, used |-> {Existing}, created |-> {Existing},
               links |-> {}, revoked |-> {}, closing |-> {}, deleted |-> {}, registered |-> {},
               stale |-> FALSE, doubled |-> FALSE]
    /\ work \in Workloads

Request(h) ==
    \/ CreateRequest(h) \/ JoinRequest(h) \/ RenameRequest(h) \/ RegenerateRequest(h)
    \/ DeleteRequest(h) \/ CommentRequest(h) \/ DeleteCommentRequest(h)
    \/ SnapshotRequest(h) \/ DeleteSnapshotRequest(h) \/ RegisterRequest(h)
    \/ OpenRequest(h) \/ EditRequest(h) \/ FlushRequest(h) \/ SaveRequest(h)

Step(h) ==
    \/ Access(h) \/ CreateRoom(h) \/ CreateMember(h)
    \/ JoinFind(h) \/ JoinLookup(h) \/ JoinInsert(h)
    \/ RowLoad(h) \/ RowReload(h) \/ RowWrite(h)
    \/ DeleteVerify(h) \/ DeleteFind(h) \/ DeleteStep(h)
    \/ CreateComment(h) \/ CommentFind(h) \/ DeleteComment(h)
    \/ CreateSnapshot(h) \/ SnapshotFind(h) \/ DeleteSnapshot(h)
    \/ CanvasGet(h) \/ CanvasSet(h) \/ CanvasSave(h)
    \/ RegisterFind(h) \/ RegisterInsert(h)

Next ==
    \/ \E h \in Handlers : Request(h) \/ Step(h) \/ Fail(h)
    \/ \E u \in Users, r \in Rooms : Share(u, r)

Spec == Init /\ [][Next]_vars

-----------------------------------------------------------------------------
(* Properties.                                                             *)

Rows == [room : Rooms, late : BOOLEAN]
Items == [id : 1..past.uuid, room : Rooms, author : Users, late : BOOLEAN]

\* The tables hold rows of their types, and a member is a member of a room that
\* there is.
TypeOK ==
    /\ DOMAIN db.rooms \subseteq past.used
    /\ \A r \in DOMAIN db.rooms :
          db.rooms[r] \in [ownerId : Users, inviteToken : 1..past.uuid, name : {"old", "new", "renamed"}]
    /\ db.members \subseteq [id : 1..past.uuid, room : DOMAIN db.rooms, user : Users,
                             role : {"owner", "editor"}]
    /\ db.comments \subseteq Items /\ db.snapshots \subseteq Items
    /\ db.canvases \subseteq Rows /\ db.live \subseteq Rows
    /\ DOMAIN db.users \subseteq Emails /\ \A e \in DOMAIN db.users : db.users[e] \in Users
    /\ \A h \in Handlers : handlers[h] # Idle => handlers[h].op \in work

getMyRooms(u) == {r \in DOMAIN db.rooms : db.rooms[r].ownerId = u}
getSharedRooms(u) == {m.room : m \in {m \in db.members : m.user = u /\ m.role = "editor"}}

\* The rooms whose creation was reported and whose deletion nobody has begun.
Settled == past.created \ past.closing

\* The dashboard lists rooms by their owner and by memberships of one role, the
\* access check (rooms.service.ts:81) looks for any membership: they agree, so
\* every room that is listed opens, and every room that opens is listed, also
\* after a creation that failed halfway.
WhatIsListedOpens ==
    \A r \in Settled, u \in Users :
        r \in getMyRooms(u) \cup getSharedRooms(u) <=> IsMember(u, r)

\* "This way all access checks go through one table" (rooms.service.ts:46): a
\* user has one membership in a room, the owner as its owner and the others as
\* editors, unless a user joined twice at once, or a room being created.
OneMembershipEach ==
    ~past.doubled =>
        \A r \in Settled : \A m, n \in In(db.members, r) :
            /\ m.user = n.user => m = n
            /\ m.role = "owner" <=> m.user = db.rooms[r].ownerId

\* "Regenerate to revoke access for new joiners" (README.md:25): a link that was
\* replaced never again leads into the room, whatever else its owner changes at
\* the same time, unless a save meets a row that changed since it was loaded.
RevokedStaysRevoked ==
    ~past.stale => \A r \in DOMAIN db.rooms : db.rooms[r].inviteToken \notin past.revoked

\* The same without the exception.
RevokedLinksAreDead == \A r \in DOMAIN db.rooms : db.rooms[r].inviteToken \notin past.revoked

\* Unless a save of its row was under way, a room that was deleted does not come
\* back, and of its live canvas nothing is left but what handlers wrote behind the
\* deletion (rooms.service.ts:208-214).
DeletedStaysDeleted ==
    ~past.stale => \A r \in past.deleted : ~HasRoom(r) /\ \A c \in In(db.live, r) : c.late

\* "No DB-level cascades exist - delete in FK-safe order" (rooms.service.ts:208):
\* at whatever query a deletion fails, a room that is gone leaves no comment, no
\* snapshot and no canvas, except those inserted behind the deletion.
NothingLeftBehind ==
    \A r \in past.used \ DOMAIN db.rooms :
        \A x \in In(db.comments, r) \cup In(db.snapshots, r) \cup In(db.canvases, r) : x.late

\* Whoever was told that they registered can log in with their own password,
\* also when the same email is registered twice at once.
RegisteredCanLogIn == \A p \in past.registered : Login(p[1], p[2])
=============================================================================
