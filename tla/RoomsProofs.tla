---------------------------- MODULE RoomsProofs ----------------------------
(***************************************************************************)
(* Theorems about Rooms, for any number of users, rooms, emails and        *)
(* requests in flight, and for any mix of requests.                        *)
(***************************************************************************)
EXTENDS Rooms, TLAPS

-----------------------------------------------------------------------------
(* What the variables hold.  A token or an id in use was issued, so the     *)
(* next one, past.uuid, is new.                                             *)

Issued == 1..(past.uuid - 1)
Columns == {"ownerId", "inviteToken", "name"}
Tables == {"rooms", "members", "comments", "snapshots", "canvases", "live", "users"}

RoomRow == [ownerId : Users, inviteToken : Issued, name : {"old", "new", "renamed"}]
MemberRow == [id : Issued, room : DOMAIN db.rooms, user : Users, role : {"owner", "editor"}]
ItemRow == [id : Issued, room : past.used, author : Users, late : BOOLEAN]

PastTyped ==
    /\ DOMAIN past = {"uuid", "requests", "used", "created", "links", "revoked", "closing",
                      "deleted", "registered", "stale", "doubled"}
    /\ past.uuid \in Nat \ {0} /\ past.requests \in Nat /\ Existing \in past.used
    /\ past.used \subseteq Rooms /\ past.created \subseteq Rooms
    /\ past.closing \subseteq Rooms /\ past.deleted \subseteq Rooms
    /\ past.links \subseteq Issued /\ past.revoked \subseteq Issued
    /\ past.registered \subseteq Emails \X Users
    /\ past.stale \in BOOLEAN /\ past.doubled \in BOOLEAN

DbTyped ==
    /\ DOMAIN db = Tables
    /\ DOMAIN db.rooms \subseteq past.used
    /\ \A r \in DOMAIN db.rooms : db.rooms[r] \in RoomRow
    /\ db.members \subseteq MemberRow
    /\ db.comments \subseteq ItemRow /\ db.snapshots \subseteq ItemRow
    /\ db.canvases \subseteq Rows /\ db.live \subseteq Rows
    /\ DOMAIN db.users \subseteq Emails
    /\ \A e \in DOMAIN db.users : db.users[e] \in Users

\* Where a handler can be.
Stages == {"idle", "access", "admitted", "insert", "member", "find", "lookup", "load",
           "reload", "insertRow", "update", "verify", "delete", "get"}

\* A request being handled.
Busy == [op : Requests, at : Stages, user : Users, room : Rooms,
         arg : Issued \cup {0, "renamed"} \cup Emails, was : RoomRow \cup {NoRow},
         save : SUBSET Columns, step : 1..6]

\* A handler between the load of a room's row and its save.
Holding(h) == handlers[h].at \in {"reload", "insertRow", "update"}

HandlersTyped ==
    /\ handlers \in [Handlers -> Busy \cup {Idle}]
    /\ work \subseteq Requests
    /\ \A h \in Handlers :
          handlers[h] # Idle => handlers[h].op \in work /\ handlers[h].room \in past.used
    /\ \A h \in Handlers :
          /\ handlers[h].op = "joinRoom" => handlers[h].arg \in Issued
          /\ handlers[h].op = "register" => handlers[h].arg \in Emails
          /\ Holding(h) => /\ handlers[h].was \in RoomRow
                           /\ IF handlers[h].op = "rename" THEN handlers[h].arg = "renamed"
                              ELSE handlers[h].arg \in Issued

Typed == PastTyped /\ DbTyped /\ HandlersTyped

-----------------------------------------------------------------------------

\* Where the handler of a request starts.
Starts == {"insert", "find", "load", "verify", "access", "get"}

\* A request that begins leaves a handler in a state of the type.
LEMMA BeginTyped ==
    ASSUME Typed, NEW h \in Handlers,
           NEW op \in Requests, NEW at \in Starts, NEW u \in Users, NEW r \in past.used,
           NEW arg \in Issued \cup {0} \cup Emails, Begin(h, op, at, u, r, arg),
           op = "joinRoom" => arg \in Issued, op = "register" => arg \in Emails
    PROVE  Typed'
PROOF
<1> DEFINE new == [op |-> op, at |-> at, user |-> u, room |-> r, arg |-> arg,
                   was |-> NoRow, save |-> {}, step |-> 1]
<1>1. /\ past' = [past EXCEPT !.requests = @ + 1]
      /\ UNCHANGED <<db, work>>
      /\ past.uuid' = past.uuid
      /\ handlers' = [handlers EXCEPT ![h] = new] /\ op \in work
  BY DEF Begin, Typed, PastTyped
<1>2. Issued' = Issued
  BY <1>1 DEF Issued
<1>3. PastTyped'
  BY <1>1, <1>2 DEF Typed, PastTyped
<1>4. DbTyped'
  <2>1. RoomRow' = RoomRow /\ MemberRow' = MemberRow /\ ItemRow' = ItemRow /\ past.used' = past.used
    BY <1>1, <1>2 DEF RoomRow, MemberRow, ItemRow, Typed, PastTyped
  <2> QED
    BY <1>1, <2>1 DEF Typed, DbTyped
<1>5. HandlersTyped'
  <2>1. Busy' = Busy /\ RoomRow' = RoomRow
    BY <1>1, <1>2 DEF Busy, RoomRow
  <2>2. new \in Busy /\ new.room \in past.used'
    BY <1>1 DEF Busy, Stages, Starts, Typed, PastTyped
  <2>3. ~(new.at \in {"reload", "insertRow", "update"})
    BY DEF Starts
  <2>4. handlers' \in [Handlers -> Busy \cup {Idle}]
    BY <1>1, <2>2 DEF Typed, HandlersTyped
  <2>5. \A g \in Handlers : handlers'[g] = IF g = h THEN new ELSE handlers[g]
    BY <1>1 DEF Typed, HandlersTyped
  <2>6. new.op = op /\ new.arg = arg
    OBVIOUS
  <2> HIDE DEF new
  <2> QED
    BY <1>1, <1>2, <2>1, <2>2, <2>3, <2>4, <2>5, <2>6 DEF Typed, PastTyped, HandlersTyped, Holding
<1> QED
  BY <1>3, <1>4, <1>5 DEF Typed

\* Every request starts a handler and changes nothing else.
LEMMA RequestTyped ==
    ASSUME Typed, NEW h \in Handlers, Request(h)
    PROVE  Typed'
PROOF
<1>1. /\ past.used \subseteq Rooms /\ past.links \subseteq Issued /\ Existing \in past.used
      /\ db.comments \subseteq ItemRow /\ db.snapshots \subseteq ItemRow
  BY DEF Typed, PastTyped, DbTyped
<1>2. Owner \in Users
  BY RoomsAssumption
<1>3. CASE CreateRequest(h)
  <2>1. PICK u \in Users : Begin(h, "createRoom", "insert", u, Existing, 0)
    BY <1>3 DEF CreateRequest
  <2> QED
    BY <1>1, <1>2, <2>1, BeginTyped DEF Requests, Starts
<1>4. CASE JoinRequest(h)
  <2>1. PICK u \in Users, token \in past.links : Begin(h, "joinRoom", "find", u, Existing, token)
    BY <1>4 DEF JoinRequest
  <2> QED
    BY <1>1, <1>2, <2>1, BeginTyped DEF Requests, Starts
<1>5. CASE RenameRequest(h)
  <2>1. PICK u \in Users, r \in past.used : Begin(h, "rename", "load", u, r, 0)
    BY <1>5 DEF RenameRequest
  <2> QED
    BY <1>1, <1>2, <2>1, BeginTyped DEF Requests, Starts
<1>6. CASE RegenerateRequest(h)
  <2>1. PICK u \in Users, r \in past.used : Begin(h, "regenerate", "load", u, r, 0)
    BY <1>6 DEF RegenerateRequest
  <2> QED
    BY <1>1, <1>2, <2>1, BeginTyped DEF Requests, Starts
<1>7. CASE DeleteRequest(h)
  <2>1. PICK u \in Users, r \in past.used : Begin(h, "deleteRoom", "verify", u, r, 0)
    BY <1>7 DEF DeleteRequest
  <2> QED
    BY <1>1, <1>2, <2>1, BeginTyped DEF Requests, Starts
<1>8. CASE CommentRequest(h)
  <2>1. PICK u \in Users, r \in past.used : Begin(h, "createComment", "access", u, r, 0)
    BY <1>8 DEF CommentRequest
  <2> QED
    BY <1>1, <1>2, <2>1, BeginTyped DEF Requests, Starts
<1>9. CASE SnapshotRequest(h)
  <2>1. PICK u \in Users, r \in past.used : Begin(h, "createSnapshot", "access", u, r, 0)
    BY <1>9 DEF SnapshotRequest
  <2> QED
    BY <1>1, <1>2, <2>1, BeginTyped DEF Requests, Starts
<1>10. CASE DeleteCommentRequest(h)
  <2>1. PICK u \in Users, c \in db.comments : Begin(h, "deleteComment", "find", u, c.room, c.id)
    BY <1>10 DEF DeleteCommentRequest
  <2>2. c.room \in past.used /\ c.id \in Issued
    BY <1>1, <2>1 DEF ItemRow
  <2> QED
    BY <2>1, <2>2, BeginTyped DEF Requests, Starts
<1>11. CASE DeleteSnapshotRequest(h)
  <2>1. PICK u \in Users, s \in db.snapshots : Begin(h, "deleteSnapshot", "find", u, s.room, s.id)
    BY <1>11 DEF DeleteSnapshotRequest
  <2>2. s.room \in past.used /\ s.id \in Issued
    BY <1>1, <2>1 DEF ItemRow
  <2> QED
    BY <2>1, <2>2, BeginTyped DEF Requests, Starts
<1>12. CASE RegisterRequest(h)
  <2>1. PICK u \in Users, e \in Emails : Begin(h, "register", "find", u, Existing, e)
    BY <1>12 DEF RegisterRequest
  <2> QED
    BY <1>1, <1>2, <2>1, BeginTyped DEF Requests, Starts
<1>13. CASE OpenRequest(h)
  <2>1. PICK u \in Users, r \in past.used : Begin(h, "open", "access", u, r, 0)
    BY <1>13 DEF OpenRequest
  <2> QED
    BY <1>1, <1>2, <2>1, BeginTyped DEF Requests, Starts
<1>14. CASE EditRequest(h)
  <2>1. PICK r \in past.used : Begin(h, "edit", "get", Owner, r, 0)
    BY <1>14 DEF EditRequest
  <2> QED
    BY <1>1, <1>2, <2>1, BeginTyped DEF Requests, Starts
<1>15. CASE FlushRequest(h)
  <2>1. PICK r \in past.used : Begin(h, "flush", "get", Owner, r, 0)
    BY <1>15 DEF FlushRequest
  <2> QED
    BY <1>1, <1>2, <2>1, BeginTyped DEF Requests, Starts
<1>16. CASE SaveRequest(h)
  <2>1. PICK u \in Users, r \in past.used : Begin(h, "save", "access", u, r, 0)
    BY <1>16 DEF SaveRequest
  <2> QED
    BY <1>1, <1>2, <2>1, BeginTyped DEF Requests, Starts
<1> QED
  BY <1>3, <1>4, <1>5, <1>6, <1>7, <1>8, <1>9, <1>10, <1>11, <1>12, <1>13, <1>14, <1>15, <1>16 DEF Request

-----------------------------------------------------------------------------
(* The pieces of which the steps of a handler are made.                    *)

\* Nothing that was issued is taken back.
Grows == /\ PastTyped'
         /\ past.uuid' \in {past.uuid, past.uuid + 1}
         /\ past.used \subseteq past.used'

\* What is a row or a busy handler stays one while identifiers are issued.
LEMMA GrowsTypes ==
    ASSUME Typed, Grows
    PROVE  /\ Issued \subseteq Issued' /\ RoomRow \subseteq RoomRow' /\ ItemRow \subseteq ItemRow'
           /\ Busy \subseteq Busy'
PROOF
<1>1. Issued \subseteq Issued'
  <2>1. past.uuid \in Nat /\ past.uuid' \in Nat /\ past.uuid =< past.uuid'
    BY DEF Grows, PastTyped, Typed
  <2> QED
    BY <2>1 DEF Issued
<1>2. RoomRow \subseteq RoomRow'
  BY <1>1 DEF RoomRow
<1>3. ItemRow \subseteq ItemRow'
  BY <1>1 DEF ItemRow, Grows
<1>4. Busy \subseteq Busy'
  BY <1>1, <1>2 DEF Busy
<1> QED
  BY <1>1, <1>2, <1>3, <1>4

\* A handler becomes new.
LEMMA HandlerTyped ==
    ASSUME Typed, Grows, NEW h \in Handlers, NEW new, UNCHANGED work,
           handlers[h] # Idle,
           handlers' = [handlers EXCEPT ![h] = new],
           \/ new = Idle
           \/ /\ new \in Busy' /\ new.op = handlers[h].op /\ new.room \in past.used'
              /\ \/ new.arg = handlers[h].arg
                 \/ new.op \notin {"joinRoom", "register"}
              /\ new.at \in {"reload", "insertRow", "update"} =>
                    /\ new.was \in RoomRow'
                    /\ IF new.op = "rename" THEN new.arg = "renamed" ELSE new.arg \in Issued'
    PROVE  HandlersTyped'
PROOF
<1>1. /\ Issued \subseteq Issued' /\ RoomRow \subseteq RoomRow' /\ Busy \subseteq Busy'
      /\ past.used \subseteq past.used'
  BY GrowsTypes DEF Grows
<1>2. handlers' \in [Handlers -> Busy' \cup {Idle}]
  BY <1>1 DEF Typed, HandlersTyped
<1>3. \A g \in Handlers : handlers'[g] = IF g = h THEN new ELSE handlers[g]
  BY DEF Typed, HandlersTyped
<1>4. handlers[h].op \in work
  BY DEF Typed, HandlersTyped
<1>5. ASSUME NEW g \in Handlers
      PROVE  /\ handlers'[g] # Idle =>
                    handlers'[g].op \in work /\ handlers'[g].room \in past.used'
             /\ handlers'[g].op = "joinRoom" => handlers'[g].arg \in Issued'
             /\ handlers'[g].op = "register" => handlers'[g].arg \in Emails
             /\ Holding(g)' => /\ handlers'[g].was \in RoomRow'
                               /\ IF handlers'[g].op = "rename" THEN handlers'[g].arg = "renamed"
                                  ELSE handlers'[g].arg \in Issued'
  <2>1. CASE g # h
    BY <1>1, <1>3, <2>1 DEF Typed, HandlersTyped, Holding
  <2>2. CASE g = h /\ new = Idle
    BY <1>3, <2>2 DEF Holding, Idle
  <2>3. CASE g = h /\ new # Idle
    BY <1>1, <1>3, <1>4, <2>3 DEF Typed, HandlersTyped, Holding
  <2> QED
    BY <2>1, <2>2, <2>3
<1> QED
  BY <1>2, <1>5 DEF HandlersTyped, Typed

\* A handler that replies is idle.
LEMMA ReplyTyped ==
    ASSUME Typed, Grows, NEW h \in Handlers, UNCHANGED work, handlers[h] # Idle, Reply(h)
    PROVE  HandlersTyped'
BY HandlerTyped DEF Reply

\* A handler goes on to its next query.
LEMMA GoTyped ==
    ASSUME Typed, Grows, NEW h \in Handlers, UNCHANGED work, handlers[h] # Idle,
           NEW at \in Stages \ {"reload", "insertRow", "update"}, Go(h, at)
    PROVE  HandlersTyped'
PROOF
<1> DEFINE new == [handlers[h] EXCEPT !.at = at]
<1>1. handlers[h] \in Busy
  BY DEF Typed, HandlersTyped
<1>2. /\ new \in Busy /\ new.op = handlers[h].op /\ new.arg = handlers[h].arg /\ new.at = at
      /\ new.room = handlers[h].room
  BY <1>1 DEF Busy
<1>3. new \in Busy' /\ new.room \in past.used'
  BY <1>2, GrowsTypes DEF Grows, Typed, HandlersTyped
<1>4. handlers' = [handlers EXCEPT ![h] = new]
  BY DEF Go
<1> HIDE DEF new
<1> QED
  BY <1>2, <1>3, <1>4, HandlerTyped

\* Tables that stay as they are keep their type as the history grows.
LEMMA DbKept ==
    ASSUME Typed, Grows, UNCHANGED db
    PROVE  DbTyped'
PROOF
<1>1. RoomRow \subseteq RoomRow' /\ ItemRow \subseteq ItemRow' /\ Issued \subseteq Issued'
  BY GrowsTypes
<1>2. MemberRow \subseteq MemberRow'
  BY <1>1 DEF MemberRow
<1>3. past.used \subseteq past.used'
  BY DEF Grows
<1> QED
  BY <1>1, <1>2, <1>3 DEF Typed, DbTyped

\* A table of items or of canvases changes.
LEMMA TableTyped ==
    ASSUME Typed, Grows, NEW t \in {"comments", "snapshots", "canvases", "live"}, NEW rows,
           db' = [db EXCEPT ![t] = rows],
           IF t \in {"comments", "snapshots"} THEN rows \subseteq ItemRow' ELSE rows \subseteq Rows
    PROVE  DbTyped'
PROOF
<1>1. RoomRow \subseteq RoomRow' /\ ItemRow \subseteq ItemRow' /\ Issued \subseteq Issued'
  BY GrowsTypes
<1>2. /\ DOMAIN db' = Tables
      /\ \A u \in Tables : db'[u] = IF u = t THEN rows ELSE db[u]
  BY DEF Typed, DbTyped, Tables
<1>3. /\ db.rooms' = db.rooms /\ db.members' = db.members /\ db.users' = db.users
      /\ db.comments' = IF t = "comments" THEN rows ELSE db.comments
      /\ db.snapshots' = IF t = "snapshots" THEN rows ELSE db.snapshots
      /\ db.canvases' = IF t = "canvases" THEN rows ELSE db.canvases
      /\ db.live' = IF t = "live" THEN rows ELSE db.live
  BY <1>2 DEF Tables
<1>4. MemberRow \subseteq MemberRow'
  BY <1>1, <1>3 DEF MemberRow
<1>5. past.used \subseteq past.used'
  BY DEF Grows
<1> QED
  BY <1>1, <1>2, <1>3, <1>4, <1>5 DEF Typed, DbTyped

\* The members change, none to a room that is not there.
LEMMA MembersTyped ==
    ASSUME Typed, Grows, NEW rows, db' = [db EXCEPT !.members = rows],
           rows \subseteq [id : Issued', room : DOMAIN db.rooms, user : Users,
                           role : {"owner", "editor"}]
    PROVE  DbTyped'
PROOF
<1>1. RoomRow \subseteq RoomRow' /\ ItemRow \subseteq ItemRow' /\ Issued \subseteq Issued'
  BY GrowsTypes
<1>2. /\ DOMAIN db' = Tables
      /\ \A u \in Tables : db'[u] = IF u = "members" THEN rows ELSE db[u]
  BY DEF Typed, DbTyped, Tables
<1>3. /\ db.rooms' = db.rooms /\ db.members' = rows /\ db.users' = db.users
      /\ db.comments' = db.comments /\ db.snapshots' = db.snapshots
      /\ db.canvases' = db.canvases /\ db.live' = db.live
  BY <1>2 DEF Tables
<1>4. rows \subseteq MemberRow'
  BY <1>3 DEF MemberRow
<1>5. past.used \subseteq past.used'
  BY DEF Grows
<1> QED
  BY <1>1, <1>2, <1>3, <1>4, <1>5 DEF Typed, DbTyped

\* The rooms change, and every member keeps its room.
LEMMA RoomsTyped ==
    ASSUME Typed, Grows, NEW rows, db' = [db EXCEPT !.rooms = rows],
           DOMAIN rows \subseteq past.used', \A r \in DOMAIN rows : rows[r] \in RoomRow',
           \A m \in db.members : m.room \in DOMAIN rows
    PROVE  DbTyped'
PROOF
<1>1. RoomRow \subseteq RoomRow' /\ ItemRow \subseteq ItemRow' /\ Issued \subseteq Issued'
  BY GrowsTypes
<1>2. /\ DOMAIN db' = Tables
      /\ \A u \in Tables : db'[u] = IF u = "rooms" THEN rows ELSE db[u]
  BY DEF Typed, DbTyped, Tables
<1>3. /\ db.rooms' = rows /\ db.members' = db.members /\ db.users' = db.users
      /\ db.comments' = db.comments /\ db.snapshots' = db.snapshots
      /\ db.canvases' = db.canvases /\ db.live' = db.live
  BY <1>2 DEF Tables
<1>4. db.members \subseteq MemberRow'
  BY <1>1, <1>3 DEF MemberRow, Typed, DbTyped
<1>5. past.used \subseteq past.used'
  BY DEF Grows
<1> QED
  BY <1>1, <1>2, <1>3, <1>4, <1>5 DEF Typed, DbTyped

\* A step that leaves the history alone loses none of it.
LEMMA PastKept ==
    ASSUME Typed, UNCHANGED past
    PROVE  Grows
BY DEF Typed, Grows, PastTyped, Issued

\* An id is issued.
LEMMA PastIssues ==
    ASSUME Typed, past' = [past EXCEPT !.uuid = @ + 1]
    PROVE  Grows /\ past.uuid \in Issued'
PROOF
<1>1. past.uuid \in Nat \ {0} /\ past.uuid' = past.uuid + 1
  BY DEF Typed, PastTyped
<1>2. Issued \subseteq Issued' /\ past.uuid \in Issued'
  BY <1>1 DEF Issued
<1> QED
  BY <1>1, <1>2 DEF Typed, Grows, PastTyped

-----------------------------------------------------------------------------
(* The steps of the handlers.                                              *)


\* An id is issued to a new room.
LEMMA PastRoom ==
    ASSUME Typed, NEW r \in Rooms, past' = [past EXCEPT !.used = @ \cup {r}, !.uuid = @ + 1]
    PROVE  Grows
PROOF
<1>1. past.uuid \in Nat \ {0} /\ past.uuid' = past.uuid + 1
  BY DEF Typed, PastTyped
<1>2. Issued \subseteq Issued'
  BY <1>1 DEF Issued
<1>3. past.used \cup {r} \in SUBSET Rooms
  BY DEF Typed, PastTyped
<1>4. PastTyped'
  BY <1>1, <1>2, <1>3 DEF Typed, PastTyped
<1>5. past.used \subseteq past.used'
  BY DEF Typed, PastTyped
<1> QED
  BY <1>1, <1>4, <1>5 DEF Grows

\* getRoom changes its handler only.
LEMMA AccessTyped ==
    ASSUME Typed, NEW h \in Handlers, Access(h)
    PROVE  Typed'
PROOF
<1>1. Grows /\ handlers[h] # Idle
  BY PastKept DEF Access, Idle
<1>2. Go(h, "admitted") \/ Reply(h)
  BY DEF Access
<1>3. HandlersTyped'
  BY <1>1, <1>2, GoTyped, ReplyTyped DEF Access, Stages
<1>4. DbTyped'
  BY <1>1, DbKept DEF Access
<1> QED
  BY <1>1, <1>3, <1>4 DEF Typed, Grows

\* createRoom inserts the row of the new room.
LEMMA CreateRoomTyped ==
    ASSUME Typed, NEW h \in Handlers, CreateRoom(h)
    PROVE  Typed'
PROOF
<1>1. handlers[h] # Idle /\ handlers[h] \in Busy /\ handlers[h].user \in Users
  BY DEF CreateRoom, Running, Idle, Typed, HandlersTyped, Busy
<1>2. PICK r \in Rooms \ past.used :
          /\ db' = [db EXCEPT !.rooms = WithRow(@, r, Room(handlers[h].user, past.uuid, "new"))]
          /\ CreateRoomNext(h, r)
  BY DEF CreateRoom
<1>3. past' = [past EXCEPT !.used = @ \cup {r}, !.uuid = @ + 1] /\ UNCHANGED work
  BY <1>2 DEF CreateRoomNext, CreateRoom
<1>4. /\ past.uuid \in Nat \ {0} /\ past.uuid' = past.uuid + 1
      /\ past.used' = past.used \cup {r} /\ past.used \subseteq past.used'
  BY <1>3 DEF Typed, PastTyped
<1>5. Issued \subseteq Issued' /\ past.uuid \in Issued'
  BY <1>4 DEF Issued
<1>6. Grows
  BY <1>2, <1>3, PastRoom
<1>7. HandlersTyped'
  <2> DEFINE new == [handlers[h] EXCEPT !.at = "member", !.room = r]
  <2>1. new \in Busy /\ new.op = handlers[h].op /\ new.arg = handlers[h].arg /\ new.at = "member"
        /\ new.room = r
    BY <1>1, <1>2 DEF Busy, Stages
  <2>2. new \in Busy' /\ new.room \in past.used'
    BY <1>4, <2>1, <1>6, GrowsTypes
  <2>3. handlers' = [handlers EXCEPT ![h] = new]
    BY <1>2 DEF CreateRoomNext
  <2> HIDE DEF new
  <2> QED
    BY <1>1, <1>3, <1>6, <2>1, <2>2, <2>3, HandlerTyped
<1>8. DbTyped'
  <2> DEFINE row == Room(handlers[h].user, past.uuid, "new")
             rows == WithRow(db.rooms, r, row)
  <2>1. row \in RoomRow'
    BY <1>1, <1>5 DEF Room, RoomRow
  <2>2. /\ DOMAIN rows = DOMAIN db.rooms \cup {r} /\ rows[r] = row
        /\ \A x \in DOMAIN db.rooms \ {r} : rows[x] = db.rooms[x]
    BY DEF WithRow
  <2>3. db' = [db EXCEPT !.rooms = rows]
    BY <1>2
  <2>4. /\ DOMAIN rows \subseteq past.used' /\ \A x \in DOMAIN rows : rows[x] \in RoomRow'
        /\ \A m \in db.members : m.room \in DOMAIN rows
    BY <2>1, <2>2, <1>4, <1>6, GrowsTypes DEF Typed, DbTyped, MemberRow
  <2> HIDE DEF rows
  <2> QED
    BY <1>6, <2>3, <2>4, RoomsTyped
<1> QED
  BY <1>6, <1>7, <1>8 DEF Typed, Grows

\* An inserted membership references a room there is.
LEMMA InsertMemberTyped ==
    ASSUME Typed, Grows, past.uuid \in Issued', NEW room, NEW user \in Users,
           NEW role \in {"owner", "editor"}, InsertMember(past.uuid, room, user, role)
    PROVE  DbTyped'
PROOF
<1> DEFINE rows == IF HasRoom(room)
                   THEN db.members \cup {Member(past.uuid, room, user, role)} ELSE db.members
<1>1. db' = [db EXCEPT !.members = rows]
  BY DEF InsertMember
<1>2. Issued \subseteq Issued'
  BY GrowsTypes
<1>3. rows \subseteq [id : Issued', room : DOMAIN db.rooms, user : Users,
                      role : {"owner", "editor"}]
  BY <1>2 DEF HasRoom, Member, Typed, DbTyped, MemberRow
<1> HIDE DEF rows
<1> QED
  BY <1>1, <1>3, MembersTyped

\* createRoom inserts the owner's membership.
LEMMA CreateMemberTyped ==
    ASSUME Typed, NEW h \in Handlers, CreateMember(h)
    PROVE  Typed'
PROOF
<1>1. /\ handlers[h] # Idle /\ handlers[h].user \in Users /\ handlers[h].room \in Rooms
  BY DEF CreateMember, Running, Idle, Typed, HandlersTyped, Busy
<1>2. /\ past' = [past EXCEPT !.uuid = @ + 1, !.created = IF HasRoom(handlers[h].room)
                                 THEN @ \cup {handlers[h].room} ELSE @]
      /\ Reply(h) /\ UNCHANGED work
      /\ InsertMember(past.uuid, handlers[h].room, handlers[h].user, "owner")
  BY DEF CreateMember
<1>3. past.uuid \in Nat \ {0} /\ past.uuid' = past.uuid + 1
  BY <1>2 DEF Typed, PastTyped
<1>4. Issued \subseteq Issued' /\ past.uuid \in Issued'
  BY <1>3 DEF Issued
<1>5. Grows
  <2> DEFINE made == IF HasRoom(handlers[h].room) THEN past.created \cup {handlers[h].room}
                     ELSE past.created
  <2>1. made \in SUBSET Rooms
    BY <1>1 DEF Typed, PastTyped
  <2>2. past' = [past EXCEPT !.uuid = @ + 1, !.created = made]
    BY <1>2
  <2> HIDE DEF made
  <2> QED
    BY <1>3, <1>4, <2>1, <2>2 DEF Typed, Grows, PastTyped
<1>6. HandlersTyped' /\ DbTyped'
  BY <1>1, <1>2, <1>4, <1>5, ReplyTyped, InsertMemberTyped
<1> QED
  BY <1>5, <1>6 DEF Typed, Grows

\* The three steps of joinRoom.
LEMMA JoinTyped ==
    ASSUME Typed, NEW h \in Handlers, JoinFind(h) \/ JoinLookup(h) \/ JoinInsert(h)
    PROVE  Typed'
PROOF
<1>1. /\ handlers[h] # Idle /\ handlers[h] \in Busy /\ handlers[h].user \in Users
  BY DEF JoinFind, JoinLookup, JoinInsert, Running, Idle, Typed, HandlersTyped, Busy
<1>2. CASE JoinFind(h)
  <2>1. Grows /\ UNCHANGED <<db, work>>
    BY <1>2, PastKept DEF JoinFind
  <2>2. CASE Reply(h)
    BY <1>1, <2>1, <2>2, ReplyTyped, DbKept DEF Typed, Grows
  <2>3. CASE \E r \in DOMAIN db.rooms :
                 handlers' = [handlers EXCEPT ![h].at = "lookup", ![h].room = r]
    <3>1. PICK r \in DOMAIN db.rooms :
                 handlers' = [handlers EXCEPT ![h].at = "lookup", ![h].room = r]
      BY <2>3
    <3> DEFINE new == [handlers[h] EXCEPT !.at = "lookup", !.room = r]
    <3>2. r \in Rooms
      BY <3>1 DEF Typed, DbTyped, PastTyped
    <3>3. new \in Busy /\ new.op = handlers[h].op /\ new.arg = handlers[h].arg
          /\ new.at = "lookup" /\ new.room = r
      BY <1>1, <3>2 DEF Busy, Stages
    <3>4. new \in Busy' /\ new.room \in past.used'
      BY <3>1, <3>3, <2>1, GrowsTypes DEF Grows, Typed, DbTyped
    <3>5. handlers' = [handlers EXCEPT ![h] = new]
      BY <3>1
    <3> HIDE DEF new
    <3>6. HandlersTyped'
      BY <1>1, <2>1, <3>3, <3>4, <3>5, HandlerTyped
    <3> QED
      BY <2>1, <3>6, DbKept DEF Typed, Grows
  <2> QED
    BY <1>2, <2>2, <2>3 DEF JoinFind
<1>3. CASE JoinLookup(h)
  <2>1. Grows /\ UNCHANGED <<db, work>>
    <3>1. \/ UNCHANGED past
          \/ \E b \in BOOLEAN : past' = [past EXCEPT !.doubled = b]
      BY <1>3 DEF JoinLookup, Typed, PastTyped, Admitting
    <3>2. ASSUME NEW b \in BOOLEAN, past' = [past EXCEPT !.doubled = b]
          PROVE  Grows
      BY <3>2 DEF Typed, PastTyped, Grows, Issued
    <3> QED
      BY <1>3, <3>1, <3>2, PastKept DEF JoinLookup
  <2>2. Go(h, "insert") \/ Reply(h)
    BY <1>3 DEF JoinLookup
  <2> QED
    BY <1>1, <2>1, <2>2, GoTyped, ReplyTyped, DbKept DEF Typed, Grows, Stages
<1>4. CASE JoinInsert(h)
  <2>1. Grows /\ past.uuid \in Issued' /\ UNCHANGED work /\ Reply(h)
    BY <1>4, PastIssues DEF JoinInsert
  <2>2. InsertMember(past.uuid, handlers[h].room, handlers[h].user, "editor")
    BY <1>4 DEF JoinInsert
  <2> QED
    BY <1>1, <2>1, <2>2, ReplyTyped, InsertMemberTyped DEF Typed, Grows
<1> QED
  BY <1>2, <1>3, <1>4

\* The row that is loaded to be changed is one of the table's.
LEMMA RowLoadTyped ==
    ASSUME Typed, NEW h \in Handlers, RowLoad(h)
    PROVE  Typed'
PROOF
<1> DEFINE n == IF handlers[h].op = "regenerate" THEN past.uuid + 1 ELSE past.uuid
           was == db.rooms[handlers[h].room]
           new == [handlers[h] EXCEPT !.at = "reload", !.was = was, !.arg = Value(h)]
<1>1. /\ handlers[h] # Idle /\ handlers[h] \in Busy /\ handlers[h].op \in {"rename", "regenerate"}
      /\ UNCHANGED <<db, work>>
  BY DEF RowLoad, Changes, Idle, Typed, HandlersTyped
<1>2. past' = [past EXCEPT !.uuid = n]
  BY DEF RowLoad
<1>3. past.uuid \in Nat \ {0} /\ n \in Nat \ {0} /\ n \in {past.uuid, past.uuid + 1}
  BY DEF Typed, PastTyped
<1> HIDE DEF n
<1>4. past.uuid' = n
  BY <1>2 DEF Typed, PastTyped
<1>5. Issued \subseteq Issued'
  BY <1>3, <1>4 DEF Issued
<1>6. Grows
  BY <1>2, <1>3, <1>4, <1>5 DEF Typed, Grows, PastTyped
<1>7. DbTyped'
  BY <1>1, <1>6, DbKept
<1>8. CASE Reply(h)
  BY <1>1, <1>6, <1>7, <1>8, ReplyTyped DEF Typed, Grows
<1>9. CASE HasRoom(handlers[h].room) /\ handlers' = [handlers EXCEPT ![h] = new]
  <2>1. was \in RoomRow
    BY <1>9 DEF HasRoom, Typed, DbTyped
  <2>2. was \in RoomRow'
    BY <1>6, <2>1, GrowsTypes
  <2>3. /\ handlers[h].op = "rename" => Value(h) = "renamed"
        /\ handlers[h].op = "regenerate" => Value(h) \in Issued'
    BY <1>3, <1>4 DEF n, Value, Issued
  <2>4. handlers[h] \in Busy'
    BY <1>1, <1>6, GrowsTypes
  <2> HIDE DEF was
  <2>5. /\ new \in Busy' /\ new.op = handlers[h].op /\ new.at = "reload" /\ new.was = was
        /\ new.arg = Value(h) /\ new.room \in past.used'
    BY <1>1, <1>6, <2>2, <2>3, <2>4 DEF Busy, Stages, Grows, Typed, HandlersTyped
  <2> HIDE DEF new
  <2>6. HandlersTyped'
    BY <1>1, <1>6, <1>9, <2>2, <2>3, <2>5, HandlerTyped
  <2> QED
    BY <1>6, <1>7, <2>6 DEF Typed, Grows
<1> QED
  BY <1>8, <1>9 DEF RowLoad

\* The columns to save are columns of the row.
LEMMA RowReloadTyped ==
    ASSUME Typed, NEW h \in Handlers, RowReload(h)
    PROVE  Typed'
PROOF
<1> DEFINE row == IF HasRoom(handlers[h].room) THEN db.rooms[handlers[h].room] ELSE NoRow
           at == IF row = NoRow THEN "insertRow" ELSE "update"
           save == Differing(row, Wanted(h))
           new == [handlers[h] EXCEPT !.at = at, !.save = save]
           b == past.stale \/ row # handlers[h].was
<1>1. /\ handlers[h] # Idle /\ handlers[h] \in Busy /\ Holding(h) /\ UNCHANGED <<db, work>>
  BY DEF RowReload, Idle, Holding, Typed, HandlersTyped
<1>2. past' = [past EXCEPT !.stale = b] /\ handlers' = [handlers EXCEPT ![h] = new]
  BY DEF RowReload
<1>3. b \in BOOLEAN
  OBVIOUS
<1> HIDE DEF b
<1>4. Grows
  <2>1. past.uuid' = past.uuid
    BY <1>2 DEF Typed, PastTyped
  <2>2. Issued' = Issued
    BY <2>1 DEF Issued
  <2> QED
    BY <1>2, <1>3, <2>1, <2>2 DEF Typed, Grows, PastTyped
<1>5. DbTyped'
  BY <1>1, <1>4, DbKept
<1>6. /\ handlers[h].was \in RoomRow
      /\ IF handlers[h].op = "rename" THEN handlers[h].arg = "renamed"
         ELSE handlers[h].arg \in Issued
  BY <1>1 DEF Typed, HandlersTyped
<1>7. Wanted(h) \in RoomRow
  BY <1>6 DEF Wanted, RoomRow
<1>8. save \in SUBSET Columns
  BY <1>7 DEF Differing, RoomRow, Columns
<1>9. at \in {"insertRow", "update"}
  OBVIOUS
<1> HIDE DEF save, at
<1>10. /\ new \in Busy /\ new.op = handlers[h].op /\ new.at = at /\ new.was = handlers[h].was
       /\ new.arg = handlers[h].arg /\ new.room \in past.used'
  BY <1>1, <1>4, <1>8, <1>9 DEF Busy, Stages, Grows, Typed, HandlersTyped
<1> HIDE DEF new
<1>11. new \in Busy' /\ RoomRow \subseteq RoomRow' /\ Issued \subseteq Issued'
  BY <1>4, <1>10, GrowsTypes
<1>12. HandlersTyped'
  BY <1>1, <1>2, <1>4, <1>6, <1>9, <1>10, <1>11, HandlerTyped
<1> QED
  BY <1>4, <1>5, <1>12 DEF Typed, Grows

\* The row a handler is about to save.
LEMMA WantedTyped ==
    ASSUME Typed, NEW h \in Handlers, Holding(h)
    PROVE  Wanted(h) \in RoomRow /\ DOMAIN Wanted(h) = Columns
PROOF
<1>1. /\ handlers[h].was \in RoomRow
      /\ IF handlers[h].op = "rename" THEN handlers[h].arg = "renamed"
         ELSE handlers[h].arg \in Issued
  BY DEF Typed, HandlersTyped
<1> QED
  BY <1>1 DEF Wanted, RoomRow, Columns

\* A room row put in the table.
LEMMA PutRowTyped ==
    ASSUME Typed, Grows, NEW r, NEW row, r \in past.used', row \in RoomRow',
           db' = [db EXCEPT !.rooms = WithRow(db.rooms, r, row)]
    PROVE  DbTyped'
PROOF
<1> DEFINE rows == WithRow(db.rooms, r, row)
<1>1. db' = [db EXCEPT !.rooms = rows]
  OBVIOUS
<1>2. /\ DOMAIN rows = DOMAIN db.rooms \cup {r} /\ rows[r] = row
      /\ \A x \in DOMAIN db.rooms \ {r} : rows[x] = db.rooms[x]
  BY DEF WithRow
<1>3. RoomRow \subseteq RoomRow'
  BY GrowsTypes
<1>4. /\ DOMAIN rows \subseteq past.used' /\ \A x \in DOMAIN rows : rows[x] \in RoomRow'
      /\ \A m \in db.members : m.room \in DOMAIN rows
  BY <1>2, <1>3 DEF Typed, DbTyped, MemberRow, Grows
<1> HIDE DEF rows
<1> QED
  BY <1>1, <1>4, RoomsTyped

\* The insert or update a save ends with.
LEMMA RowWriteTyped ==
    ASSUME Typed, NEW h \in Handlers, RowWrite(h)
    PROVE  Typed'
PROOF
<1>1. handlers[h] # Idle /\ Holding(h) /\ Reply(h) /\ UNCHANGED work /\ handlers[h].room \in past.used
  BY DEF RowWrite, RowInsert, RowUpdate, Idle, Holding, Typed, HandlersTyped
<1>2. past.uuid' = past.uuid /\ past.used' = past.used
  BY DEF RowWrite, Typed, PastTyped
<1>3. Issued' = Issued /\ RoomRow' = RoomRow
  BY <1>2 DEF Issued, RoomRow
<1>4. Grows
  <2>1. CASE handlers[h].op = "rename"
    BY <2>1, PastKept DEF RowWrite
  <2>2. CASE handlers[h].op # "rename"
    <3>1. handlers[h].was.inviteToken \in Issued /\ handlers[h].arg \in Issued
      BY <1>1, <2>2 DEF Typed, HandlersTyped, RoomRow
    <3>2. past' = [past EXCEPT !.revoked = @ \cup {handlers[h].was.inviteToken},
                               !.links = @ \cup {handlers[h].arg}]
      BY <2>2 DEF RowWrite
    <3> QED
      BY <1>2, <1>3, <3>1, <3>2 DEF Typed, Grows, PastTyped
  <2> QED
    BY <2>1, <2>2
<1>5. Wanted(h) \in RoomRow /\ DOMAIN Wanted(h) = Columns
  BY <1>1, WantedTyped
<1>6. DbTyped'
  <2> DEFINE r == handlers[h].room
  <2>1. CASE RowInsert(h)
    BY <1>1, <1>2, <1>3, <1>4, <1>5, <2>1, PutRowTyped DEF RowInsert, PutRow
  <2>2. CASE RowUpdate(h) /\ ~HasRoom(r)
    BY <1>4, <2>2, DbKept DEF RowUpdate
  <2>3. CASE RowUpdate(h) /\ HasRoom(r)
    <3> DEFINE row == [c \in DOMAIN db.rooms[r] |-> IF c \in handlers[h].save
                                            THEN Wanted(h)[c] ELSE db.rooms[r][c]]
    <3>1. db.rooms[r] \in RoomRow
      BY <2>3 DEF HasRoom, Typed, DbTyped
    <3>2. row \in RoomRow
      BY <1>5, <3>1 DEF RoomRow
    <3>3. db' = [db EXCEPT !.rooms = WithRow(db.rooms, r, row)]
      BY <2>3 DEF RowUpdate, PutRow
    <3> HIDE DEF row
    <3> QED
      BY <1>1, <1>2, <1>3, <1>4, <3>2, <3>3, PutRowTyped
  <2> QED
    BY <2>1, <2>2, <2>3 DEF RowWrite
<1>7. HandlersTyped'
  BY <1>1, <1>4, ReplyTyped
<1> QED
  BY <1>4, <1>6, <1>7 DEF Typed, Grows

\* deleteRoom makes sure that the caller is the owner.
LEMMA DeleteVerifyTyped ==
    ASSUME Typed, NEW h \in Handlers, DeleteVerify(h)
    PROVE  Typed'
PROOF
<1>1. /\ handlers[h] # Idle /\ UNCHANGED <<db, work>> /\ handlers[h].room \in past.used
      /\ Go(h, "find") \/ Reply(h)
  BY DEF DeleteVerify, Running, Idle, Typed, HandlersTyped
<1>2. \/ UNCHANGED past
      \/ past' = [past EXCEPT !.closing = @ \cup {handlers[h].room}]
  BY DEF DeleteVerify
<1>3. CASE past' = [past EXCEPT !.closing = @ \cup {handlers[h].room}]
  <2>1. past.uuid' = past.uuid
    BY <1>3 DEF Typed, PastTyped
  <2>2. Issued' = Issued
    BY <2>1 DEF Issued
  <2>3. Grows
    BY <1>1, <1>3, <2>1, <2>2 DEF Typed, Grows, PastTyped
  <2> QED
    BY <1>1, <2>3, GoTyped, ReplyTyped, DbKept DEF Typed, Grows, Stages
<1>4. CASE UNCHANGED past
  BY <1>1, <1>4, PastKept, GoTyped, ReplyTyped, DbKept DEF Typed, Grows, Stages
<1> QED
  BY <1>2, <1>3, <1>4

\* deleteRoom loads the room again.
LEMMA DeleteFindTyped ==
    ASSUME Typed, NEW h \in Handlers, DeleteFind(h)
    PROVE  Typed'
PROOF
<1> DEFINE r == handlers[h].room
<1>1. /\ handlers[h] # Idle /\ UNCHANGED <<past, work>>
      /\ Go(h, "delete") \/ Reply(h)
  BY DEF DeleteFind, Running, Idle
<1>2. Grows
  BY <1>1, PastKept
<1>3. HandlersTyped'
  BY <1>1, <1>2, GoTyped, ReplyTyped DEF Stages
<1>4. CASE UNCHANGED db
  BY <1>2, <1>3, <1>4, DbKept DEF Typed, Grows
<1>5. CASE db' = [db EXCEPT !.comments = NotLate(@, r), !.snapshots = NotLate(@, r),
                            !.canvases = NotLate(@, r), !.live = NotLate(@, r)]
  <2>1. /\ DOMAIN db' = Tables /\ db.rooms' = db.rooms /\ db.members' = db.members
        /\ db.users' = db.users
        /\ db.comments' = NotLate(db.comments, r) /\ db.snapshots' = NotLate(db.snapshots, r)
        /\ db.canvases' = NotLate(db.canvases, r) /\ db.live' = NotLate(db.live, r)
    BY <1>5 DEF Typed, DbTyped, Tables
  <2>2. ASSUME NEW rows \in SUBSET ItemRow
        PROVE  NotLate(rows, r) \subseteq ItemRow
    BY <2>2 DEF NotLate, ItemRow
  <2>3. ASSUME NEW rows \in SUBSET Rows
        PROVE  NotLate(rows, r) \subseteq Rows
    BY <2>3 DEF NotLate, Rows
  <2>4. ItemRow' = ItemRow /\ RoomRow' = RoomRow /\ MemberRow' = MemberRow
    BY <1>1, <2>1 DEF ItemRow, RoomRow, MemberRow, Issued
  <2>5. DbTyped'
    BY <1>1, <2>1, <2>2, <2>3, <2>4 DEF Typed, DbTyped
  <2> QED
    BY <1>2, <1>3, <2>5 DEF Typed, Grows
<1> QED
  BY <1>4, <1>5 DEF DeleteFind

\* Each of the six deletions of deleteRoom.
LEMMA DeleteStepTyped ==
    ASSUME Typed, NEW h \in Handlers, DeleteStep(h)
    PROVE  Typed'
PROOF
<1> DEFINE r == handlers[h].room
           n == handlers[h].step
<1>1. /\ handlers[h] # Idle /\ handlers[h] \in Busy /\ r \in past.used /\ UNCHANGED work
      /\ n \in 1..6 /\ handlers[h].at = "delete"
  BY DEF DeleteStep, Running, Idle, Typed, HandlersTyped, Busy
<1>2. Grows
  <2>1. CASE UNCHANGED past
    BY <2>1, PastKept
  <2>2. CASE past' = [past EXCEPT !.deleted = @ \cup {r}]
    <3>1. past.uuid' = past.uuid
      BY <2>2 DEF Typed, PastTyped
    <3>2. Issued' = Issued
      BY <3>1 DEF Issued
    <3> QED
      BY <1>1, <2>2, <3>1, <3>2 DEF Typed, Grows, PastTyped
  <2> QED
    BY <2>1, <2>2 DEF DeleteStep
<1>3. HandlersTyped'
  <2>1. CASE Reply(h)
    BY <1>1, <1>2, <2>1, ReplyTyped
  <2>2. CASE n # 6 /\ handlers' = [handlers EXCEPT ![h].step = n + 1]
    <3> DEFINE new == [handlers[h] EXCEPT !.step = n + 1]
    <3>1. n + 1 \in 1..6
      BY <1>1, <2>2
    <3>2. /\ new \in Busy /\ new.op = handlers[h].op /\ new.at = "delete"
          /\ new.arg = handlers[h].arg /\ new.room = r
      BY <1>1, <3>1 DEF Busy
    <3>3. new \in Busy' /\ new.room \in past.used'
      BY <1>1, <1>2, <3>2, GrowsTypes DEF Grows
    <3>4. handlers' = [handlers EXCEPT ![h] = new]
      BY <2>2
    <3> HIDE DEF new
    <3> QED
      BY <1>1, <1>2, <3>2, <3>3, <3>4, HandlerTyped
  <2>3. Len(DeletionOrder) = 6
    BY DEF DeletionOrder
  <2> QED
    BY <2>1, <2>2, <2>3 DEF DeleteStep
<1>4. DbTyped'
  <2>1. CASE UNCHANGED db
    BY <1>2, <2>1, DbKept
  <2>2. CASE In(db.members, r) = {} /\ db' = [db EXCEPT !.rooms = [q \in DOMAIN @ \ {r} |-> @[q]]]
    <3> DEFINE rows == [q \in DOMAIN db.rooms \ {r} |-> db.rooms[q]]
    <3>1. db' = [db EXCEPT !.rooms = rows]
      BY <2>2
    <3>2. /\ DOMAIN rows \subseteq past.used' /\ \A x \in DOMAIN rows : rows[x] \in RoomRow'
          /\ \A m \in db.members : m.room \in DOMAIN rows
      BY <1>2, <2>2, GrowsTypes DEF Typed, DbTyped, MemberRow, Grows, In
    <3> HIDE DEF rows
    <3> QED
      BY <1>2, <3>1, <3>2, RoomsTyped
  <2>3. ASSUME NEW t \in {"comments", "snapshots", "canvases", "live"},
               db' = [db EXCEPT ![t] = @ \ In(@, r)]
        PROVE  DbTyped'
    <3> DEFINE rows == db[t] \ In(db[t], r)
    <3>1. db' = [db EXCEPT ![t] = rows]
      BY <2>3
    <3>2. IF t \in {"comments", "snapshots"} THEN rows \subseteq ItemRow' ELSE rows \subseteq Rows
      BY <1>2, GrowsTypes DEF Typed, DbTyped
    <3> HIDE DEF rows
    <3> QED
      BY <1>2, <3>1, <3>2, TableTyped
  <2>4. CASE db' = [db EXCEPT !["members"] = @ \ In(@, r)]
    <3> DEFINE rows == db.members \ In(db.members, r)
    <3>1. db' = [db EXCEPT !.members = rows]
      BY <2>4
    <3>2. rows \subseteq [id : Issued', room : DOMAIN db.rooms, user : Users,
                          role : {"owner", "editor"}]
      BY <1>2, GrowsTypes DEF Typed, DbTyped, MemberRow
    <3> HIDE DEF rows
    <3> QED
      BY <1>2, <3>1, <3>2, MembersTyped
  <2>5. /\ n = 1 => DeletionOrder[n] = "comments"
        /\ n = 2 => DeletionOrder[n] = "snapshots"
        /\ n = 3 => DeletionOrder[n] = "canvases"
        /\ n = 4 => DeletionOrder[n] = "members"
        /\ n = 5 => DeletionOrder[n] = "room"
        /\ n = 6 => DeletionOrder[n] = "live"
    BY DEF DeletionOrder
  <2>6. n = 1 \/ n = 2 \/ n = 3 \/ n = 4 \/ n = 5 \/ n = 6
    BY <1>1
  <2>7. CASE DeletionOrder[n] = "room"
    BY <2>1, <2>2, <2>7 DEF DeleteStep
  <2>8. CASE DeletionOrder[n] # "room"
    <3>1. db' = [db EXCEPT ![DeletionOrder[n]] = @ \ In(@, r)]
      BY <2>8 DEF DeleteStep
    <3>2. CASE DeletionOrder[n] = "members"
      BY <2>4, <3>1, <3>2
    <3>3. CASE DeletionOrder[n] \in {"comments", "snapshots", "canvases", "live"}
      BY <2>3, <3>1, <3>3
    <3> QED
      BY <2>5, <2>6, <2>8, <3>2, <3>3
  <2> QED
    BY <2>7, <2>8
<1> QED
  BY <1>2, <1>3, <1>4 DEF Typed, Grows

\* A comment or snapshot inserted by a member who was let in.
LEMMA InsertTyped ==
    ASSUME Typed, NEW h \in Handlers, CreateComment(h) \/ CreateSnapshot(h)
    PROVE  Typed'
PROOF
<1>1. PICK t \in {"comments", "snapshots"} :
          /\ db' = [db EXCEPT ![t] = @ \cup {Item(past.uuid, handlers[h].room, handlers[h].user,
                                                  Late(handlers[h].room))}]
          /\ past' = [past EXCEPT !.uuid = @ + 1] /\ Reply(h) /\ UNCHANGED work
          /\ handlers[h] # Idle
  BY DEF CreateComment, CreateSnapshot, Insert, Running, Idle
<1>2. Grows /\ past.uuid \in Issued'
  BY <1>1, PastIssues
<1>3. HandlersTyped'
  BY <1>1, <1>2, ReplyTyped
<1> DEFINE item == Item(past.uuid, handlers[h].room, handlers[h].user, Late(handlers[h].room))
           rows == db[t] \cup {item}
<1>4. item \in ItemRow'
  <2>1. handlers[h].room \in past.used' /\ handlers[h].user \in Users
    BY <1>1, <1>2 DEF Grows, Typed, HandlersTyped, Busy
  <2>2. Late(handlers[h].room) \in BOOLEAN
    BY DEF Late
  <2> QED
    BY <1>2, <2>1, <2>2 DEF Item, ItemRow
<1>5. rows \subseteq ItemRow'
  BY <1>2, <1>4, GrowsTypes DEF Typed, DbTyped
<1>6. db' = [db EXCEPT ![t] = rows]
  BY <1>1
<1> HIDE DEF rows
<1>7. DbTyped'
  BY <1>2, <1>5, <1>6, TableTyped
<1> QED
  BY <1>2, <1>3, <1>7 DEF Typed, Grows

\* The steps that only look something up.
LEMMA FindTyped ==
    ASSUME Typed, NEW h \in Handlers, CommentFind(h) \/ SnapshotFind(h) \/ CanvasGet(h) \/ RegisterFind(h)
    PROVE  Typed'
PROOF
<1>1. /\ handlers[h] # Idle /\ UNCHANGED <<db, past, work>>
      /\ Go(h, "admitted") \/ Go(h, "access") \/ Go(h, "insert") \/ Reply(h)
  BY DEF CommentFind, SnapshotFind, CanvasGet, RegisterFind, Running, Idle
<1> QED
  BY <1>1, PastKept, GoTyped, ReplyTyped, DbKept DEF Typed, Grows, Stages

\* A comment or snapshot deleted.
LEMMA DeleteItemTyped ==
    ASSUME Typed, NEW h \in Handlers, DeleteComment(h) \/ DeleteSnapshot(h)
    PROVE  Typed'
PROOF
<1>1. PICK t \in {"comments", "snapshots"} :
          /\ db' = [db EXCEPT ![t] = {x \in @ : x.id # handlers[h].arg}]
          /\ Reply(h) /\ UNCHANGED <<past, work>> /\ handlers[h] # Idle
  BY DEF DeleteComment, DeleteSnapshot, Delete, Running, Idle
<1>2. Grows /\ HandlersTyped'
  BY <1>1, PastKept, ReplyTyped
<1> DEFINE rows == {x \in db[t] : x.id # handlers[h].arg}
<1>3. rows \subseteq ItemRow'
  BY <1>2, GrowsTypes DEF Typed, DbTyped
<1>4. db' = [db EXCEPT ![t] = rows]
  BY <1>1
<1> HIDE DEF rows
<1>5. DbTyped'
  BY <1>2, <1>3, <1>4, TableTyped
<1> QED
  BY <1>2, <1>5 DEF Typed, Grows

\* The live canvas read and written, and the row saved from it.
LEMMA CanvasTyped ==
    ASSUME Typed, NEW h \in Handlers, CanvasSet(h) \/ CanvasSave(h)
    PROVE  Typed'
PROOF
<1> DEFINE r == handlers[h].room
<1>1. PICK t \in {"live", "canvases"} :
          /\ db' = [db EXCEPT ![t] = IF In(@, r) # {} THEN @ ELSE @ \cup {CanvasOf(r, Late(r))}]
          /\ Reply(h) /\ UNCHANGED <<past, work>> /\ handlers[h] # Idle
  BY DEF CanvasSet, CanvasSave, CanvasPut, Idle
<1>2. Grows /\ HandlersTyped'
  BY <1>1, PastKept, ReplyTyped
<1> DEFINE rows == IF In(db[t], r) # {} THEN db[t] ELSE db[t] \cup {CanvasOf(r, Late(r))}
<1>3. CanvasOf(r, Late(r)) \in Rows
  BY <1>1 DEF CanvasOf, Rows, Late, Typed, HandlersTyped, PastTyped
<1>4. rows \subseteq Rows
  BY <1>3 DEF Typed, DbTyped
<1>5. db' = [db EXCEPT ![t] = rows]
  BY <1>1
<1> HIDE DEF rows
<1>6. DbTyped'
  BY <1>2, <1>4, <1>5, TableTyped
<1> QED
  BY <1>2, <1>6 DEF Typed, Grows

\* An account inserted.
LEMMA RegisterInsertTyped ==
    ASSUME Typed, NEW h \in Handlers, RegisterInsert(h)
    PROVE  Typed'
PROOF
<1> DEFINE e == handlers[h].arg
           u == handlers[h].user
<1>1. /\ handlers[h] # Idle /\ UNCHANGED work /\ Reply(h) /\ e \in Emails /\ u \in Users
  BY DEF RegisterInsert, Running, Idle, Typed, HandlersTyped, Busy
<1>2. CASE UNCHANGED <<db, past>>
  BY <1>1, <1>2, PastKept, ReplyTyped, DbKept DEF Typed, Grows
<1>3. CASE /\ db' = [db EXCEPT !.users = WithRow(@, e, u)]
           /\ past' = [past EXCEPT !.registered = @ \cup {<<e, u>>}]
  <2>1. past.uuid' = past.uuid /\ past.used' = past.used
    BY <1>3 DEF Typed, PastTyped
  <2>2. Issued' = Issued
    BY <2>1 DEF Issued
  <2>3. Grows
    BY <1>1, <1>3, <2>1, <2>2 DEF Typed, Grows, PastTyped
  <2>4. /\ DOMAIN db' = Tables /\ db.rooms' = db.rooms /\ db.members' = db.members
        /\ db.users' = WithRow(db.users, e, u)
        /\ db.comments' = db.comments /\ db.snapshots' = db.snapshots
        /\ db.canvases' = db.canvases /\ db.live' = db.live
    BY <1>3 DEF Typed, DbTyped, Tables
  <2>5. ItemRow' = ItemRow /\ RoomRow' = RoomRow /\ MemberRow' = MemberRow
    BY <2>1, <2>2, <2>4 DEF ItemRow, RoomRow, MemberRow
  <2>6. DOMAIN db.users' \subseteq Emails /\ \A x \in DOMAIN db.users' : db.users'[x] \in Users
    BY <1>1, <2>4 DEF WithRow, Typed, DbTyped
  <2>7. DbTyped'
    BY <2>1, <2>4, <2>5, <2>6 DEF Typed, DbTyped
  <2> QED
    BY <1>1, <2>3, <2>7, ReplyTyped DEF Typed, Grows
<1> QED
  BY <1>2, <1>3 DEF RegisterInsert

\* Every step of a handler keeps the types.
LEMMA StepTyped ==
    ASSUME Typed, NEW h \in Handlers, Step(h)
    PROVE  Typed'
BY AccessTyped, CreateRoomTyped, CreateMemberTyped, JoinTyped, RowLoadTyped, RowReloadTyped,
   RowWriteTyped, DeleteVerifyTyped, DeleteFindTyped, DeleteStepTyped, InsertTyped, FindTyped,
   DeleteItemTyped, CanvasTyped, RegisterInsertTyped DEF Step

\* A handler that fails is idle.
LEMMA FailTyped ==
    ASSUME Typed, NEW h \in Handlers, Fail(h)
    PROVE  Typed'
BY PastKept, ReplyTyped, DbKept DEF Fail, Typed, Grows

\* A link that is passed on was issued.
LEMMA ShareTyped ==
    ASSUME Typed, NEW u \in Users, NEW r \in Rooms, Share(u, r)
    PROVE  Typed'
PROOF
<1>1. Link(u, r) \subseteq Issued
  BY DEF Link, HasRoom, Typed, DbTyped, RoomRow
<1>2. past' = [past EXCEPT !.links = @ \cup Link(u, r)] /\ UNCHANGED <<db, handlers, work>>
  BY DEF Share
<1>3. past.uuid' = past.uuid /\ past.used' = past.used
  BY <1>2 DEF Typed, PastTyped
<1>4. /\ Issued' = Issued /\ RoomRow' = RoomRow /\ Busy' = Busy
      /\ \A h \in Handlers : Holding(h)' = Holding(h)
  BY <1>2, <1>3 DEF Issued, RoomRow, Busy, Holding
<1>5. Grows
  BY <1>1, <1>2, <1>3, <1>4 DEF Typed, Grows, PastTyped
<1>6. HandlersTyped'
  BY <1>2, <1>3, <1>4 DEF Typed, HandlersTyped
<1> QED
  BY <1>2, <1>5, <1>6, DbKept DEF Typed, Grows

\* The tables of a server that has one room.
LEMMA InitTyped ==
    ASSUME Init
    PROVE  Typed
PROOF
<1>1. PICK guests \in SUBSET (Users \ {Owner}) :
          db = [rooms     |-> [r \in {Existing} |-> Room(Owner, 1, "old")],
                members   |-> {Member(2, Existing, Owner, "owner")} \cup
                              {Member(3, Existing, u, "editor") : u \in guests},
                comments  |-> {Item(4, Existing, Owner, FALSE)},
                snapshots |-> {Item(5, Existing, Owner, FALSE)},
                canvases  |-> {CanvasOf(Existing, FALSE)},
                live      |-> {CanvasOf(Existing, FALSE)},
                users     |-> <<>>]
  BY DEF Init
<1>2. /\ past.uuid = 6 /\ past.used = {Existing} /\ Issued = 1..5 /\ Owner \in Users
      /\ Existing \in Rooms
  BY RoomsAssumption DEF Init, Issued
<1>3. PastTyped
  BY <1>2 DEF Init, PastTyped
<1>4. DbTyped
  <2>1. DOMAIN db = Tables
    BY <1>1 DEF Tables
  <2>2. DOMAIN db.rooms \subseteq past.used /\ \A r \in DOMAIN db.rooms : db.rooms[r] \in RoomRow
    BY <1>1, <1>2 DEF Room, RoomRow
  <2>3. db.members \subseteq MemberRow
    BY <1>1, <1>2 DEF Member, MemberRow
  <2>4. db.comments \subseteq ItemRow /\ db.snapshots \subseteq ItemRow
    BY <1>1, <1>2 DEF Item, ItemRow
  <2>5. db.canvases \subseteq Rows /\ db.live \subseteq Rows
    BY <1>1, <1>2 DEF CanvasOf, Rows
  <2>6. DOMAIN db.users = {}
    BY <1>1
  <2> QED
    BY <2>1, <2>2, <2>3, <2>4, <2>5, <2>6 DEF DbTyped
<1>5. HandlersTyped
  BY WorkloadsAssumption DEF Init, HandlersTyped, Holding, Idle
<1> QED
  BY <1>3, <1>4, <1>5 DEF Typed

\* The types hold throughout.
LEMMA TypedInvariant == Spec => []Typed
PROOF
<1>1. Init => Typed
  BY InitTyped
<1>2. Typed /\ [Next]_vars => Typed'
  <2> SUFFICES ASSUME Typed, [Next]_vars
               PROVE  Typed'
    OBVIOUS
  <2>1. CASE UNCHANGED vars
    BY <2>1, PastKept, DbKept DEF vars, Typed, Grows, HandlersTyped, Holding, Busy, RoomRow, Issued
  <2>2. CASE Next
    BY <2>2, RequestTyped, StepTyped, FailTyped, ShareTyped DEF Next
  <2> QED
    BY <2>1, <2>2
<1> QED
  BY <1>1, <1>2, PTL DEF Spec

\* The tables hold rows of their types and every member is a member of a room
\* that there is: memberships are inserted under a foreign key, and the deletes
\* of deleteRoom take them before the room (rooms.service.ts:208-213).
THEOREM TypeCorrect == Spec => []TypeOK
PROOF
<1>1. Typed => TypeOK
  <2> SUFFICES ASSUME Typed
               PROVE  TypeOK
    OBVIOUS
  <2>1. Issued \subseteq 1..past.uuid /\ past.used \subseteq Rooms
    BY DEF Typed, PastTyped, Issued
  <2>2. \A r \in DOMAIN db.rooms :
            db.rooms[r] \in [ownerId : Users, inviteToken : 1..past.uuid,
                             name : {"old", "new", "renamed"}]
    BY <2>1 DEF Typed, DbTyped, RoomRow
  <2>3. db.members \subseteq [id : 1..past.uuid, room : DOMAIN db.rooms, user : Users,
                              role : {"owner", "editor"}]
    BY <2>1 DEF Typed, DbTyped, MemberRow
  <2>4. db.comments \subseteq Items /\ db.snapshots \subseteq Items
    BY <2>1 DEF Typed, DbTyped, ItemRow, Items
  <2> QED
    BY <2>2, <2>3, <2>4 DEF TypeOK, Typed, DbTyped, HandlersTyped
<1> QED
  BY <1>1, TypedInvariant, PTL

-----------------------------------------------------------------------------
(* Accounts.                                                               *)

\* A delete takes rows of one table, none of them a user.
LEMMA DeleteStepTables ==
    ASSUME Typed, NEW h \in Handlers, DeleteStep(h)
    PROVE  /\ db.users' = db.users
           /\ handlers[h].step # 5 => db.rooms' = db.rooms
           /\ handlers[h].step = 5 =>
                 \/ UNCHANGED db
                 \/ db' = [db EXCEPT !.rooms = [q \in DOMAIN @ \ {handlers[h].room} |-> @[q]]]
           /\ handlers[h].step # 5 =>
                 db' = [db EXCEPT ![DeletionOrder[handlers[h].step]] = @ \ In(@, handlers[h].room)]
PROOF
<1> DEFINE r == handlers[h].room
           n == handlers[h].step
<1>1. n \in 1..6
  BY DEF DeleteStep, Running, Idle, Typed, HandlersTyped, Busy
<1>2. /\ n = 1 => DeletionOrder[n] = "comments"
      /\ n = 2 => DeletionOrder[n] = "snapshots"
      /\ n = 3 => DeletionOrder[n] = "canvases"
      /\ n = 4 => DeletionOrder[n] = "members"
      /\ n = 5 => DeletionOrder[n] = "room"
      /\ n = 6 => DeletionOrder[n] = "live"
  BY DEF DeletionOrder
<1>3. n = 1 \/ n = 2 \/ n = 3 \/ n = 4 \/ n = 5 \/ n = 6
  BY <1>1
<1>4. CASE n = 5
  <2>1. \/ UNCHANGED db
        \/ db' = [db EXCEPT !.rooms = [q \in DOMAIN @ \ {r} |-> @[q]]]
    BY <1>2, <1>4 DEF DeleteStep
  <2> QED
    BY <1>4, <2>1 DEF Typed, DbTyped, Tables
<1>5. CASE n # 5
  <2>1. DeletionOrder[n] \in Tables \ {"rooms", "users"} /\ DeletionOrder[n] # "room"
    BY <1>2, <1>3, <1>5 DEF Tables
  <2>2. db' = [db EXCEPT ![DeletionOrder[n]] = @ \ In(@, r)]
    BY <2>1 DEF DeleteStep
  <2> QED
    BY <1>5, <2>1, <2>2 DEF Typed, DbTyped, Tables
<1> QED
  BY <1>4, <1>5

\* Only RegisterInsert changes accounts.
LEMMA AccountsKept ==
    ASSUME Typed, NEW h \in Handlers, Step(h), ~RegisterInsert(h)
    PROVE  db.users' = db.users /\ past.registered' = past.registered
PROOF
<1> USE DEF Typed, DbTyped, PastTyped, Tables
<1>1. CASE \/ Access(h) \/ JoinFind(h) \/ JoinLookup(h) \/ RowLoad(h) \/ RowReload(h)
           \/ DeleteVerify(h) \/ CommentFind(h) \/ SnapshotFind(h) \/ CanvasGet(h)
           \/ RegisterFind(h)
  BY <1>1 DEF Access, JoinFind, JoinLookup, RowLoad, RowReload, DeleteVerify, CommentFind,
              SnapshotFind, CanvasGet, RegisterFind
<1>2. CASE CreateRoom(h)
  BY <1>2 DEF CreateRoom, CreateRoomNext
<1>3. CASE CreateMember(h) \/ JoinInsert(h)
  BY <1>3 DEF CreateMember, JoinInsert, InsertMember
<1>4. CASE RowWrite(h)
  BY <1>4 DEF RowWrite, RowInsert, RowUpdate, PutRow
<1>5. CASE DeleteFind(h)
  BY <1>5 DEF DeleteFind
<1>6. CASE DeleteStep(h)
  BY <1>6, DeleteStepTables DEF DeleteStep
<1>7. CASE CreateComment(h) \/ CreateSnapshot(h)
  BY <1>7 DEF CreateComment, CreateSnapshot, Insert
<1>8. CASE DeleteComment(h) \/ DeleteSnapshot(h)
  BY <1>8 DEF DeleteComment, DeleteSnapshot, Delete
<1>9. CASE CanvasSet(h) \/ CanvasSave(h)
  BY <1>9 DEF CanvasSet, CanvasSave, CanvasPut
<1> QED
  BY <1>1, <1>2, <1>3, <1>4, <1>5, <1>6, <1>7, <1>8, <1>9 DEF Step

\* A request changes its own handler, and no table.
LEMMA RequestKept ==
    ASSUME Typed, NEW h \in Handlers, Request(h)
    PROVE  /\ UNCHANGED db
           /\ past' = [past EXCEPT !.requests = @ + 1]
           /\ \A g \in Handlers \ {h} : handlers'[g] = handlers[g]
           /\ handlers'[h].at \in Starts /\ handlers'[h].step = 1 /\ handlers[h] = Idle
PROOF
<1>1. CASE CreateRequest(h) \/ JoinRequest(h)
  BY <1>1 DEF CreateRequest, JoinRequest, Starts,
              Begin, Typed, HandlersTyped
<1>2. CASE RenameRequest(h) \/ RegenerateRequest(h) \/ DeleteRequest(h)
  BY <1>2 DEF RenameRequest, RegenerateRequest, DeleteRequest, Starts,
              Begin, Typed, HandlersTyped
<1>3. CASE CommentRequest(h) \/ SnapshotRequest(h)
  BY <1>3 DEF CommentRequest, SnapshotRequest, Starts,
              Begin, Typed, HandlersTyped
<1>4. CASE DeleteCommentRequest(h) \/ DeleteSnapshotRequest(h) \/ RegisterRequest(h)
  BY <1>4 DEF DeleteCommentRequest, DeleteSnapshotRequest, RegisterRequest, Starts,
              Begin, Typed, HandlersTyped
<1>5. CASE OpenRequest(h) \/ EditRequest(h) \/ FlushRequest(h) \/ SaveRequest(h)
  BY <1>5 DEF OpenRequest, EditRequest, FlushRequest, SaveRequest, Starts,
              Begin, Typed, HandlersTyped
<1> QED
  BY <1>1, <1>2, <1>3, <1>4, <1>5 DEF Request

\* A registration that was confirmed is never overwritten by another of the same
\* email, whatever the overlap: auth.service.ts checks before it inserts, and
\* the unique column of users decides when two checks passed.
THEOREM RegisteredCanLogInHolds == Spec => []RegisteredCanLogIn
PROOF
<1>1. Init => RegisteredCanLogIn
  BY DEF Init, RegisteredCanLogIn
<1>2. Typed /\ RegisteredCanLogIn /\ [Next]_vars => RegisteredCanLogIn'
  <2> SUFFICES ASSUME Typed, RegisteredCanLogIn, [Next]_vars
               PROVE  RegisteredCanLogIn'
    OBVIOUS
  <2>1. ASSUME db.users' = db.users, past.registered' = past.registered
        PROVE  RegisteredCanLogIn'
    BY <2>1 DEF RegisteredCanLogIn, Login
  <2>2. CASE UNCHANGED vars
    BY <2>1, <2>2 DEF vars
  <2>3. ASSUME NEW h \in Handlers, Request(h) \/ Fail(h)
        PROVE  RegisteredCanLogIn'
    BY <2>1, <2>3, RequestKept DEF Fail, Typed, PastTyped
  <2>4. ASSUME NEW h \in Handlers, Step(h), ~RegisterInsert(h)
        PROVE  RegisteredCanLogIn'
    BY <2>1, <2>4, AccountsKept
  <2>5. ASSUME NEW h \in Handlers, RegisterInsert(h)
        PROVE  RegisteredCanLogIn'
    <3> DEFINE e == handlers[h].arg
               u == handlers[h].user
    <3>1. CASE UNCHANGED <<db, past>>
      BY <2>1, <3>1
    <3>2. CASE /\ e \notin DOMAIN db.users
               /\ db' = [db EXCEPT !.users = WithRow(@, e, u)]
               /\ past' = [past EXCEPT !.registered = @ \cup {<<e, u>>}]
      <4>1. /\ db.users' = WithRow(db.users, e, u)
            /\ past.registered' = past.registered \cup {<<e, u>>}
        BY <3>2 DEF Typed, DbTyped, PastTyped, Tables
      <4>2. ASSUME NEW p \in past.registered
            PROVE  p[1] \in DOMAIN db.users' /\ db.users'[p[1]] = p[2]
        BY <3>2, <4>1 DEF RegisteredCanLogIn, Login, WithRow
      <4>3. e \in DOMAIN db.users' /\ db.users'[e] = u
        BY <4>1 DEF WithRow
      <4> QED
        BY <4>1, <4>2, <4>3 DEF RegisteredCanLogIn, Login
    <3> QED
      BY <2>5, <3>1, <3>2 DEF RegisterInsert, Unique
  <2>6. ASSUME NEW u \in Users, NEW r \in Rooms, Share(u, r)
        PROVE  RegisteredCanLogIn'
    BY <2>1, <2>6 DEF Share, Typed, PastTyped
  <2> QED
    BY <2>2, <2>3, <2>4, <2>5, <2>6 DEF Next
<1> QED
  BY <1>1, <1>2, TypedInvariant, PTL DEF Spec

-----------------------------------------------------------------------------
(* What a deleted room leaves behind.                                      *)

Left(table, r) == \A x \in table : x.room = r => x.late

\* A deletion has left nothing in the tables it is done with but what was
\* inserted behind it.
Swept(h) ==
    handlers[h].at = "delete" =>
        /\ handlers[h].step > 1 => Left(db.comments, handlers[h].room)
        /\ handlers[h].step > 2 => Left(db.snapshots, handlers[h].room)
        /\ handlers[h].step > 3 => Left(db.canvases, handlers[h].room)

LateInv ==
    /\ \A r \in past.used \ DOMAIN db.rooms :
          Left(db.comments, r) /\ Left(db.snapshots, r) /\ Left(db.canvases, r)
    /\ \A h \in Handlers : Swept(h)
    /\ \A h \in Handlers :
          handlers[h] # Idle /\ handlers[h].at # "delete" => handlers[h].step = 1

\* A table in which every row is old, or late, or of a room nobody is deleting.
Behaves(new, old) ==
    \A x \in new : x \in old \/ x.late \/ (HasRoom(x.room) /\ ~Deleting(x.room))

\* A handler that is not deleting is done, or goes on and does not delete.
Moves(h, new) ==
    \/ new = Idle
    \/ /\ handlers[h] # Idle /\ handlers[h].at # "delete"
       /\ new.at # "delete" /\ new.step = handlers[h].step

\* A step that starts no deletion half done and inserts what is late or has a room.
LEMMA LateKept ==
    ASSUME Typed, LateInv, NEW h \in Handlers,
           \A g \in Handlers \ {h} : handlers'[g] = handlers[g],
           Moves(h, handlers'[h]),
           past.used' \ DOMAIN db.rooms' \subseteq past.used \ DOMAIN db.rooms,
           Behaves(db.comments', db.comments), Behaves(db.snapshots', db.snapshots),
           Behaves(db.canvases', db.canvases)
    PROVE  LateInv'
PROOF
<1>1. ASSUME NEW r \in past.used' \ DOMAIN db.rooms'
      PROVE  Left(db.comments', r) /\ Left(db.snapshots', r) /\ Left(db.canvases', r)
  BY <1>1 DEF LateInv, Left, Behaves, HasRoom
<1>2. ASSUME NEW g \in Handlers
      PROVE  Swept(g)'
  <2>1. CASE g = h
    BY <2>1 DEF Moves, Swept, Idle
  <2>2. CASE g # h
    <3>1. handlers'[g] = handlers[g] /\ Swept(g)
      BY <2>2 DEF LateInv
    <3>2. handlers[g].at = "delete" => Deleting(handlers[g].room)
      BY DEF Deleting
    <3> QED
      BY <3>1, <3>2 DEF Swept, Left, Behaves
  <2> QED
    BY <2>1, <2>2
<1>3. ASSUME NEW g \in Handlers, handlers'[g] # Idle, handlers'[g].at # "delete"
      PROVE  handlers'[g].step = 1
  BY <1>3 DEF LateInv, Moves
<1> QED
  BY <1>1, <1>2, <1>3 DEF LateInv, Left

\* A reply changes its own handler only.
LEMMA ReplyMoves ==
    ASSUME Typed, NEW h \in Handlers, Reply(h)
    PROVE  (\A g \in Handlers \ {h} : handlers'[g] = handlers[g]) /\ Moves(h, handlers'[h])
BY DEF Reply, Moves, Typed, HandlersTyped

\* A handler that goes on outside of a deletion starts none.
LEMMA GoMoves ==
    ASSUME Typed, NEW h \in Handlers, handlers[h] # Idle, handlers[h].at # "delete",
           NEW at, at # "delete", Go(h, at)
    PROVE  (\A g \in Handlers \ {h} : handlers'[g] = handlers[g]) /\ Moves(h, handlers'[h])
BY DEF Go, Moves, Typed, HandlersTyped, Busy

\* A table that only loses rows gains none that has to be late.
LEMMA SameBehaves ==
    ASSUME NEW new, NEW old, new \subseteq old
    PROVE  Behaves(new, old)
BY DEF Behaves

\* The steps that only read, or that write no table of a room's contents.
LEMMA ReadLate ==
    ASSUME Typed, LateInv, NEW h \in Handlers,
           \/ Access(h) \/ CreateRoom(h) \/ CreateMember(h)
           \/ JoinFind(h) \/ JoinLookup(h) \/ JoinInsert(h) \/ RowLoad(h) \/ RowReload(h)
           \/ DeleteVerify(h) \/ CommentFind(h) \/ SnapshotFind(h) \/ CanvasGet(h)
           \/ RegisterFind(h) \/ RegisterInsert(h) \/ RowWrite(h)
    PROVE  LateInv'
PROOF
<1>1. handlers[h] # Idle /\ handlers[h].at # "delete" /\ handlers[h] \in Busy
  BY DEF Access, CreateRoom, CreateMember, JoinFind, JoinLookup, JoinInsert, RowLoad, RowReload,
         DeleteVerify, CommentFind, SnapshotFind, CanvasGet, RegisterFind, RegisterInsert,
         RowWrite, RowInsert, RowUpdate, Running, Idle, Typed, HandlersTyped
<1>2. (\A g \in Handlers \ {h} : handlers'[g] = handlers[g]) /\ Moves(h, handlers'[h])
  <2>1. CASE Reply(h)
    BY <2>1, ReplyMoves
  <2>2. CASE Go(h, "admitted") \/ Go(h, "access") \/ Go(h, "insert") \/ Go(h, "find")
    BY <1>1, <2>2, GoMoves
  <2>3. CASE CreateRoom(h)
    BY <1>1, <2>3 DEF CreateRoom, CreateRoomNext, Moves, Typed, HandlersTyped, Busy
  <2>4. CASE JoinFind(h)
    BY <1>1, <2>1, <2>4 DEF JoinFind, Moves, Typed, HandlersTyped, Busy
  <2>5. CASE RowLoad(h)
    BY <1>1, <2>1, <2>5 DEF RowLoad, Moves, Typed, HandlersTyped, Busy
  <2>6. CASE RowReload(h)
    BY <1>1, <2>6 DEF RowReload, Moves, Typed, HandlersTyped, Busy
  <2> QED
    BY <2>1, <2>2, <2>3, <2>4, <2>5, <2>6 DEF Access, CreateMember, JoinLookup, JoinInsert,
       DeleteVerify, CommentFind, SnapshotFind, CanvasGet, RegisterFind, RegisterInsert, RowWrite
<1>3. /\ db.comments' = db.comments /\ db.snapshots' = db.snapshots /\ db.canvases' = db.canvases
      /\ past.used' \ DOMAIN db.rooms' \subseteq past.used \ DOMAIN db.rooms
  <2> USE DEF Typed, DbTyped, PastTyped, Tables
  <2>1. CASE UNCHANGED db /\ past.used' = past.used
    BY <2>1
  <2>2. CASE CreateRoom(h)
    BY <2>2 DEF CreateRoom, CreateRoomNext, WithRow
  <2>3. CASE CreateMember(h) \/ JoinInsert(h)
    BY <2>3 DEF CreateMember, JoinInsert, InsertMember
  <2>4. CASE RowWrite(h)
    <3>1. past.used' = past.used
      BY <2>4 DEF RowWrite
    <3>2. CASE UNCHANGED db
      BY <3>1, <3>2
    <3>3. ASSUME NEW row, db' = [db EXCEPT !.rooms = WithRow(@, handlers[h].room, row)]
          PROVE  /\ db.comments' = db.comments /\ db.snapshots' = db.snapshots
                 /\ db.canvases' = db.canvases
                 /\ past.used' \ DOMAIN db.rooms' \subseteq past.used \ DOMAIN db.rooms
      BY <3>1, <3>3 DEF WithRow
    <3> QED
      BY <2>4, <3>2, <3>3 DEF RowWrite, RowInsert, RowUpdate, PutRow
  <2>5. CASE RegisterInsert(h)
    BY <2>5 DEF RegisterInsert
  <2>6. CASE RowLoad(h) \/ RowReload(h) \/ DeleteVerify(h) \/ JoinLookup(h)
    BY <2>6 DEF RowLoad, RowReload, DeleteVerify, JoinLookup
  <2> QED
    BY <2>1, <2>2, <2>3, <2>4, <2>5, <2>6 DEF Access, JoinFind, CommentFind, SnapshotFind,
       CanvasGet, RegisterFind
<1> QED
  BY <1>2, <1>3, SameBehaves, LateKept

\* The steps that insert a row of a room's contents, or delete one.
LEMMA WriteLate ==
    ASSUME Typed, LateInv, NEW h \in Handlers,
           \/ CreateComment(h) \/ CreateSnapshot(h) \/ DeleteComment(h) \/ DeleteSnapshot(h)
           \/ CanvasSet(h) \/ CanvasSave(h)
    PROVE  LateInv'
PROOF
<1> DEFINE r == handlers[h].room
<1>1. Reply(h)
  BY DEF CreateComment, CreateSnapshot, DeleteComment, DeleteSnapshot, Insert, Delete, CanvasSet,
         CanvasSave, CanvasPut
<1>2. PICK t \in {"comments", "snapshots", "canvases", "live"} :
          \E rows : db' = [db EXCEPT ![t] = rows] /\ Behaves(rows, db[t])
  <2>1. ASSUME NEW t, NEW item, item.room = r, item.late = Late(r)
        PROVE  Behaves(db[t] \cup {item}, db[t])
    BY <2>1 DEF Behaves, Late
  <2>2. CASE CreateComment(h) \/ CreateSnapshot(h)
    BY <2>1, <2>2 DEF CreateComment, CreateSnapshot, Insert, Item
  <2>3. CASE DeleteComment(h) \/ DeleteSnapshot(h)
    BY <2>3 DEF DeleteComment, DeleteSnapshot, Delete, Behaves
  <2>4. CASE CanvasSet(h) \/ CanvasSave(h)
    BY <2>1, <2>4, SameBehaves DEF CanvasSet, CanvasSave, CanvasPut, CanvasOf
  <2> QED
    BY <2>2, <2>3, <2>4
<1>3. PICK rows : db' = [db EXCEPT ![t] = rows] /\ Behaves(rows, db[t])
  BY <1>2
<1>4. /\ db.rooms' = db.rooms /\ past.used' = past.used
      /\ Behaves(db.comments', db.comments) /\ Behaves(db.snapshots', db.snapshots)
      /\ Behaves(db.canvases', db.canvases)
  <2>1. past.used' = past.used
    BY DEF CreateComment, CreateSnapshot, DeleteComment, DeleteSnapshot, Insert, Delete, CanvasSet,
           CanvasSave, CanvasPut, Typed, PastTyped
  <2>2. /\ db.rooms' = db.rooms
        /\ db.comments' = IF t = "comments" THEN rows ELSE db.comments
        /\ db.snapshots' = IF t = "snapshots" THEN rows ELSE db.snapshots
        /\ db.canvases' = IF t = "canvases" THEN rows ELSE db.canvases
    BY <1>3 DEF Typed, DbTyped, Tables
  <2> QED
    BY <1>3, <2>1, <2>2, SameBehaves
<1> QED
  BY <1>1, <1>4, ReplyMoves, LateKept

\* deleteRoom sets out with its first deletion.
LEMMA FindLate ==
    ASSUME Typed, LateInv, NEW h \in Handlers, DeleteFind(h)
    PROVE  LateInv'
PROOF
<1> DEFINE r == handlers[h].room
<1>1. /\ handlers[h] # Idle /\ handlers[h].at = "find" /\ handlers[h] \in Busy
      /\ past.used' = past.used /\ handlers[h].step = 1
  BY DEF DeleteFind, Running, Idle, Typed, HandlersTyped, LateInv
<1>2. CASE Reply(h) /\ UNCHANGED db
  BY <1>1, <1>2, ReplyMoves, SameBehaves, LateKept
<1>3. CASE Go(h, "delete") /\ Owns(handlers[h].user, r)
  <2>1. /\ \A g \in Handlers \ {h} : handlers'[g] = handlers[g]
        /\ handlers'[h].at = "delete" /\ handlers'[h].step = 1
    BY <1>1, <1>3 DEF Go, Typed, HandlersTyped, Busy
  <2>2. db.rooms' = db.rooms /\ HasRoom(r)
    BY <1>3 DEF DeleteFind, Owns, Typed, DbTyped, Tables
  <2>3. CASE Deleting(r) /\ UNCHANGED db
    BY <1>1, <2>1, <2>3 DEF LateInv, Swept
  <2>4. CASE ~Deleting(r) /\ db' = [db EXCEPT !.comments = NotLate(@, r), !.snapshots = NotLate(@, r),
                                         !.canvases = NotLate(@, r), !.live = NotLate(@, r)]
    <3>1. ASSUME NEW table \in (SUBSET ItemRow) \cup SUBSET Rows, NEW q, q # r, Left(table, q)
          PROVE  Left(NotLate(table, r), q)
      <4>1. \A x \in table : x.room = r => [x EXCEPT !.late = FALSE].room = r
        BY DEF ItemRow, Rows
      <4> QED
        BY <3>1, <4>1 DEF Left, NotLate
    <3>2. /\ db.comments' = NotLate(db.comments, r) /\ db.snapshots' = NotLate(db.snapshots, r)
          /\ db.canvases' = NotLate(db.canvases, r)
      BY <2>4 DEF Typed, DbTyped, Tables
    <3>3. ASSUME NEW q \in past.used' \ DOMAIN db.rooms'
          PROVE  Left(db.comments', q) /\ Left(db.snapshots', q) /\ Left(db.canvases', q)
      <4>1. q # r /\ q \in past.used \ DOMAIN db.rooms
        BY <1>1, <2>2, <3>3 DEF HasRoom
      <4> QED
        BY <3>1, <3>2, <4>1 DEF LateInv, Typed, DbTyped
    <3>4. ASSUME NEW g \in Handlers
          PROVE  Swept(g)'
      <4>1. CASE g = h
        BY <2>1, <4>1 DEF Swept
      <4>2. CASE g # h /\ handlers[g].at = "delete"
        <5>1. handlers[g].room # r /\ Swept(g) /\ handlers'[g] = handlers[g]
          BY <2>1, <2>4, <4>2 DEF Deleting, LateInv
        <5> QED
          BY <3>1, <3>2, <4>2, <5>1 DEF Swept, Typed, DbTyped
      <4> QED
        BY <2>1, <4>1, <4>2 DEF Swept
    <3>5. ASSUME NEW g \in Handlers, handlers'[g] # Idle, handlers'[g].at # "delete"
          PROVE  handlers'[g].step = 1
      BY <2>1, <3>5 DEF LateInv
    <3> QED
      BY <3>3, <3>4, <3>5 DEF LateInv, Left
  <2> QED
    BY <1>3, <2>3, <2>4 DEF DeleteFind
<1> QED
  BY <1>2, <1>3 DEF DeleteFind

\* Each of the six deletions of deleteRoom leaves only what is late.
LEMMA DeleteLate ==
    ASSUME Typed, LateInv, NEW h \in Handlers, DeleteStep(h)
    PROVE  LateInv'
PROOF
<1> DEFINE r == handlers[h].room
           n == handlers[h].step
<1>1. /\ handlers[h] # Idle /\ handlers[h].at = "delete" /\ handlers[h] \in Busy
      /\ past.used' = past.used /\ n \in 1..6 /\ Swept(h)
  BY DEF DeleteStep, Running, Idle, Typed, HandlersTyped, LateInv, Busy, PastTyped
<1>2. /\ \A g \in Handlers \ {h} : handlers'[g] = handlers[g]
      /\ \/ handlers'[h] = Idle
         \/ /\ handlers'[h].at = "delete" /\ handlers'[h].step = n + 1 /\ handlers'[h].room = r
  <2>1. Reply(h) \/ handlers' = [handlers EXCEPT ![h].step = n + 1]
    BY DEF DeleteStep
  <2> QED
    BY <1>1, <2>1 DEF Reply, Typed, HandlersTyped, Busy
<1>3. ASSUME NEW g \in Handlers, handlers'[g] # Idle, handlers'[g].at # "delete"
      PROVE  handlers'[g].step = 1
  BY <1>2, <1>3 DEF LateInv
\* The tables shrink, and the one that is deleted from keeps nothing of the room.
<1>4. /\ db.comments' \subseteq db.comments /\ db.snapshots' \subseteq db.snapshots
      /\ db.canvases' \subseteq db.canvases
      /\ n = 1 => Left(db.comments', r)
      /\ n = 2 => Left(db.snapshots', r)
      /\ n = 3 => Left(db.canvases', r)
  <2>1. CASE n = 5
    <3>1. \/ UNCHANGED db
          \/ db' = [db EXCEPT !.rooms = [q \in DOMAIN @ \ {r} |-> @[q]]]
      BY <2>1, DeleteStepTables
    <3>2. /\ db.comments' = db.comments /\ db.snapshots' = db.snapshots
          /\ db.canvases' = db.canvases
      BY <3>1 DEF Typed, DbTyped, Tables
    <3> QED
      BY <2>1, <3>2
  <2>2. CASE n # 5
    <3>1. db' = [db EXCEPT ![DeletionOrder[n]] = @ \ In(@, r)]
      BY <2>2, DeleteStepTables
    <3>2. /\ n = 1 => DeletionOrder[n] = "comments"
          /\ n = 2 => DeletionOrder[n] = "snapshots"
          /\ n = 3 => DeletionOrder[n] = "canvases"
          /\ n = 4 => DeletionOrder[n] = "members"
          /\ n = 6 => DeletionOrder[n] = "live"
      BY DEF DeletionOrder
    <3>3. n = 1 \/ n = 2 \/ n = 3 \/ n = 4 \/ n = 6
      BY <1>1, <2>2
    <3>4. DeletionOrder[n] \in Tables
      BY <3>2, <3>3 DEF Tables
    <3>5. \A t \in Tables : db'[t] = IF t = DeletionOrder[n] THEN db[t] \ In(db[t], r) ELSE db[t]
      BY <3>1, <3>4 DEF Typed, DbTyped
    <3> QED
      BY <3>2, <3>3, <3>5 DEF Tables, Left, In
  <2> QED
    BY <2>1, <2>2
<1>5. ASSUME NEW q \in past.used' \ DOMAIN db.rooms'
      PROVE  Left(db.comments', q) /\ Left(db.snapshots', q) /\ Left(db.canvases', q)
  <2>1. CASE q \in past.used \ DOMAIN db.rooms
    BY <1>4, <2>1 DEF LateInv, Left
  <2>2. CASE q \in DOMAIN db.rooms
    <3>1. n = 5
      BY <1>5, <2>2, DeleteStepTables
    <3>2. \/ UNCHANGED db
          \/ db' = [db EXCEPT !.rooms = [x \in DOMAIN @ \ {r} |-> @[x]]]
      BY <3>1, DeleteStepTables
    <3>3. q = r
      BY <1>5, <2>2, <3>2 DEF Typed, DbTyped, Tables
    <3> QED
      BY <1>1, <1>4, <3>1, <3>3 DEF Swept, Left
  <2> QED
    BY <1>1, <1>5, <2>1, <2>2
<1>6. ASSUME NEW g \in Handlers
      PROVE  Swept(g)'
  <2>1. CASE g = h /\ handlers'[h] = Idle
    BY <2>1 DEF Swept, Idle
  <2>2. CASE g = h /\ handlers'[h] # Idle
    <3>1. handlers'[h].step = n + 1 /\ handlers'[h].room = r
      BY <1>2, <2>2
    <3>2. /\ n + 1 > 1 => Left(db.comments', r)
          /\ n + 1 > 2 => Left(db.snapshots', r)
          /\ n + 1 > 3 => Left(db.canvases', r)
      BY <1>1, <1>4 DEF Swept, Left
    <3> QED
      BY <2>2, <3>1, <3>2 DEF Swept
  <2>3. CASE g # h
    <3>1. handlers'[g] = handlers[g] /\ Swept(g)
      BY <1>2, <2>3 DEF LateInv
    <3> QED
      BY <1>4, <3>1 DEF Swept, Left
  <2> QED
    BY <2>1, <2>2, <2>3
<1> QED
  BY <1>3, <1>5, <1>6 DEF LateInv, Left

\* Deletions leave nothing but late rows, at every step.
LEMMA LateInvariant == Spec => []LateInv
PROOF
<1>1. Init => LateInv
  BY DEF Init, LateInv, Swept, Idle
<1>2. Typed /\ LateInv /\ [Next]_vars => LateInv'
  <2> SUFFICES ASSUME Typed, LateInv, [Next]_vars
               PROVE  LateInv'
    OBVIOUS
  <2>1. CASE UNCHANGED vars
    BY <2>1 DEF vars, LateInv, Swept, Left
  <2>2. ASSUME NEW h \in Handlers, Request(h)
        PROVE  LateInv'
    <3>1. \A g \in Handlers \ {h} : handlers'[g] = handlers[g]
      BY <2>2, RequestKept
    <3>2. handlers'[h].at # "delete" /\ handlers'[h].step = 1 /\ handlers[h] = Idle
      BY <2>2, RequestKept DEF Starts
    <3>3. UNCHANGED db /\ past.used' = past.used
      BY <2>2, RequestKept DEF Typed, PastTyped
    <3> QED
      BY <3>1, <3>2, <3>3 DEF LateInv, Swept, Left
  <2>3. ASSUME NEW h \in Handlers, Fail(h)
        PROVE  LateInv'
    BY <2>3, ReplyMoves, SameBehaves, LateKept DEF Fail
  <2>4. ASSUME NEW h \in Handlers, Step(h)
        PROVE  LateInv'
    BY <2>4, ReadLate, WriteLate, FindLate, DeleteLate DEF Step
  <2>5. ASSUME NEW u \in Users, NEW r \in Rooms, Share(u, r)
        PROVE  LateInv'
    BY <2>5 DEF Share, LateInv, Swept, Left, Typed, PastTyped
  <2> QED
    BY <2>1, <2>2, <2>3, <2>4, <2>5 DEF Next
<1> QED
  BY <1>1, <1>2, TypedInvariant, PTL DEF Spec

\* A room that is gone, at whatever query its deletion failed and whatever was
\* created meanwhile, leaves only what was inserted behind the deletion: the
\* deletes of rooms.service.ts:209-213 go through the contents before the room.
THEOREM NothingLeftBehindHolds == Spec => []NothingLeftBehind
PROOF
<1>1. LateInv => NothingLeftBehind
  BY DEF LateInv, NothingLeftBehind, Left, In
<1> QED
  BY <1>1, LateInvariant, PTL

-----------------------------------------------------------------------------
(* Invite links.                                                           *)

Token(r) == db.rooms[r].inviteToken

\* A handler that replaces a link: it loaded the room and has not saved it.
Replacing(h) == Holding(h) /\ handlers[h].op # "rename"

\* The link it brings is nobody's yet, and the one it loaded is of no other room.
Fresh(h) ==
    /\ handlers[h].arg \notin past.revoked
    /\ \A r \in DOMAIN db.rooms :
          /\ Token(r) # handlers[h].arg
          /\ Token(r) = handlers[h].was.inviteToken => r = handlers[h].room
    /\ \A g \in Handlers :
          Replacing(g) => /\ handlers[g].was.inviteToken # handlers[h].arg
                          /\ g # h => handlers[g].arg # handlers[h].arg

\* A save writes the column that its request is about, and no other.
Narrow(h) ==
    /\ handlers[h].at # "insertRow"
    /\ handlers[h].at = "update" =>
          handlers[h].save = IF handlers[h].op = "rename" THEN handlers[h].save \cap {"name"}
                             ELSE {"inviteToken"}

LinksHold ==
    /\ \A r, q \in DOMAIN db.rooms : Token(r) = Token(q) => r = q
    /\ \A r \in DOMAIN db.rooms : Token(r) \notin past.revoked
    /\ \A h \in Handlers : Narrow(h) /\ (Replacing(h) => Fresh(h))

LinksInv == ~past.stale => LinksHold

\* The rooms keep their links or go, nothing is revoked, and one handler does
\* something that is not about links.
LEMMA LinksKept ==
    ASSUME Typed, LinksInv, NEW h \in Handlers,
           \A g \in Handlers \ {h} : handlers'[g] = handlers[g],
           ~Holding(h)',
           past.revoked' = past.revoked, past.stale' = past.stale,
           DOMAIN db.rooms' \subseteq DOMAIN db.rooms,
           \A r \in DOMAIN db.rooms' : db.rooms'[r] = db.rooms[r]
    PROVE  LinksInv'
PROOF
<1> SUFFICES ASSUME LinksHold
             PROVE  LinksHold'
  BY DEF LinksInv
<1>1. \A r \in DOMAIN db.rooms' : Token(r)' = Token(r)
  BY DEF Token
<1>2. \A g \in Handlers : Replacing(g)' => g # h /\ Replacing(g)
  BY DEF Replacing, Holding
<1>3. ASSUME NEW g \in Handlers
      PROVE  Narrow(g)' /\ (Replacing(g)' => Fresh(g)')
  <2>1. CASE g = h
    BY <1>2, <2>1 DEF Narrow, Holding
  <2>2. CASE g # h
    <3>1. Narrow(g)'
      BY <2>2 DEF LinksHold, Narrow
    <3>2. ASSUME Replacing(g)'
          PROVE  Fresh(g)'
      <4>1. handlers'[g] = handlers[g] /\ Fresh(g)
        BY <1>2, <2>2, <3>2 DEF LinksHold
      <4> QED
        BY <1>1, <1>2, <4>1 DEF Fresh
    <3> QED
      BY <3>1, <3>2
  <2> QED
    BY <2>1, <2>2
<1> QED
  BY <1>1, <1>3 DEF LinksHold

\* The steps that are not about a room's row change no handler but their own, and
\* no row; a deletion may remove one.
LEMMA OtherSteps ==
    ASSUME Typed, NEW h \in Handlers, Step(h),
           ~CreateRoom(h), ~RowLoad(h), ~RowReload(h), ~RowWrite(h)
    PROVE  /\ \A g \in Handlers \ {h} : handlers'[g] = handlers[g]
           /\ ~Holding(h)'
           /\ past.revoked' = past.revoked /\ past.stale' = past.stale
           /\ DOMAIN db.rooms' \subseteq DOMAIN db.rooms
           /\ \A r \in DOMAIN db.rooms' : db.rooms'[r] = db.rooms[r]
PROOF
<1> USE DEF Typed, DbTyped, PastTyped, Tables
<1>1. /\ \A g \in Handlers \ {h} : handlers'[g] = handlers[g]
      /\ ~Holding(h)'
  <2>1. CASE Reply(h)
    BY <2>1 DEF Reply, Holding, Idle, HandlersTyped
  <2>2. CASE Go(h, "admitted") \/ Go(h, "access") \/ Go(h, "insert") \/ Go(h, "find") \/ Go(h, "delete")
    <3>1. handlers[h] \in Busy \/ handlers[h] = Idle
      BY DEF HandlersTyped
    <3> QED
      BY <2>2, <3>1 DEF Go, Holding, HandlersTyped, Busy, Idle
  <2>3. CASE JoinFind(h)
    <3>1. handlers[h] \in Busy
      BY <2>3 DEF JoinFind, Running, HandlersTyped, Idle
    <3> QED
      BY <2>1, <2>3, <3>1 DEF JoinFind, Holding, HandlersTyped, Busy
  <2>4. CASE DeleteStep(h)
    <3>1. handlers[h] \in Busy /\ handlers[h].at = "delete"
      BY <2>4 DEF DeleteStep, Running, HandlersTyped, Idle
    <3>2. Reply(h) \/ handlers' = [handlers EXCEPT ![h].step = handlers[h].step + 1]
      BY <2>4 DEF DeleteStep
    <3> QED
      BY <2>1, <3>1, <3>2 DEF Holding, HandlersTyped, Busy
  <2> QED
    BY <2>1, <2>2, <2>3, <2>4 DEF Step, Access, CreateMember, JoinLookup, JoinInsert, DeleteVerify,
       DeleteFind, CreateComment, CommentFind, DeleteComment, CreateSnapshot, SnapshotFind,
       DeleteSnapshot, CanvasGet, CanvasSet, CanvasSave, RegisterFind, RegisterInsert, Insert,
       Delete, CanvasPut
<1>2. past.revoked' = past.revoked /\ past.stale' = past.stale
  BY DEF Step, Access, CreateMember, JoinFind, JoinLookup, JoinInsert, DeleteVerify, DeleteFind,
         DeleteStep, CreateComment, CommentFind, DeleteComment, CreateSnapshot, SnapshotFind,
         DeleteSnapshot, CanvasGet, CanvasSet, CanvasSave, RegisterFind, RegisterInsert, Insert,
         Delete, CanvasPut
<1>3. /\ DOMAIN db.rooms' \subseteq DOMAIN db.rooms
      /\ \A r \in DOMAIN db.rooms' : db.rooms'[r] = db.rooms[r]
  <2>1. CASE db.rooms' = db.rooms
    BY <2>1
  <2>2. CASE DeleteStep(h)
    <3>1. CASE handlers[h].step # 5
      BY <2>1, <2>2, <3>1, DeleteStepTables
    <3>2. CASE handlers[h].step = 5
      <4>1. \/ UNCHANGED db
            \/ db' = [db EXCEPT !.rooms = [q \in DOMAIN @ \ {handlers[h].room} |-> @[q]]]
        BY <2>2, <3>2, DeleteStepTables
      <4> QED
        BY <4>1
    <3> QED
      BY <3>1, <3>2
  <2>3. CASE \/ Access(h) \/ CreateMember(h) \/ JoinFind(h) \/ JoinLookup(h) \/ JoinInsert(h)
             \/ DeleteVerify(h) \/ DeleteFind(h) \/ CommentFind(h) \/ SnapshotFind(h)
             \/ CanvasGet(h) \/ RegisterFind(h) \/ RegisterInsert(h)
    BY <2>1, <2>3 DEF Access, CreateMember, JoinFind, JoinLookup, JoinInsert, DeleteVerify,
       DeleteFind, CommentFind, SnapshotFind, CanvasGet, RegisterFind, RegisterInsert, InsertMember
  <2>4. CASE \/ CreateComment(h) \/ DeleteComment(h) \/ CreateSnapshot(h) \/ DeleteSnapshot(h)
             \/ CanvasSet(h) \/ CanvasSave(h)
    BY <2>1, <2>4 DEF CreateComment, DeleteComment, CreateSnapshot, DeleteSnapshot, CanvasSet,
       CanvasSave, Insert, Delete, CanvasPut
  <2> QED
    BY <2>2, <2>3, <2>4 DEF Step
<1> QED
  BY <1>1, <1>2, <1>3

\* Steps that neither load nor write a room row leave the links as they are.
LEMMA OtherLinks ==
    ASSUME Typed, LinksInv, NEW h \in Handlers, Step(h),
           ~CreateRoom(h), ~RowLoad(h), ~RowReload(h), ~RowWrite(h)
    PROVE  LinksInv'
BY OtherSteps, LinksKept

\* A new room has a new link.
LEMMA CreateRoomLinks ==
    ASSUME Typed, LinksInv, NEW h \in Handlers, CreateRoom(h)
    PROVE  LinksInv'
PROOF
<1>1. PICK r \in Rooms \ past.used :
          /\ db' = [db EXCEPT !.rooms = WithRow(@, r, Room(handlers[h].user, past.uuid, "new"))]
          /\ CreateRoomNext(h, r)
  BY DEF CreateRoom
<1>2. /\ past.revoked' = past.revoked /\ past.stale' = past.stale
      /\ \A g \in Handlers \ {h} : handlers'[g] = handlers[g]
      /\ handlers'[h].at = "member"
  <2>1. handlers[h] \in Busy
    BY DEF CreateRoom, Running, Idle, Typed, HandlersTyped
  <2> QED
    BY <1>1, <2>1 DEF CreateRoomNext, Typed, PastTyped, HandlersTyped, Busy
<1>3. /\ DOMAIN db.rooms' = DOMAIN db.rooms \cup {r}
      /\ Token(r)' = past.uuid
      /\ \A q \in DOMAIN db.rooms : q # r /\ Token(q)' = Token(q)
  BY <1>1 DEF Token, WithRow, Room, Typed, DbTyped, Tables
<1>4. past.uuid \notin Issued
  BY DEF Issued, Typed, PastTyped
<1>5. /\ \A q \in DOMAIN db.rooms : Token(q) \in Issued
      /\ past.revoked \subseteq Issued
      /\ \A g \in Handlers : Replacing(g) => /\ handlers[g].arg \in Issued
                                             /\ handlers[g].was.inviteToken \in Issued
  BY DEF Token, Replacing, Typed, DbTyped, PastTyped, HandlersTyped, RoomRow
<1> SUFFICES ASSUME LinksHold
             PROVE  LinksHold'
  BY <1>2 DEF LinksInv
<1>6. \A g \in Handlers : Replacing(g)' => g # h /\ Replacing(g)
  BY <1>2 DEF Replacing, Holding
<1>7. ASSUME NEW g \in Handlers
      PROVE  Narrow(g)' /\ (Replacing(g)' => Fresh(g)')
  <2>1. CASE g = h
    BY <1>2, <1>6, <2>1 DEF Narrow
  <2>2. CASE g # h
    <3>1. Narrow(g)'
      BY <1>2, <2>2 DEF LinksHold, Narrow
    <3>2. ASSUME Replacing(g)'
          PROVE  Fresh(g)'
      <4>1. handlers'[g] = handlers[g] /\ Fresh(g) /\ Replacing(g)
        BY <1>2, <1>6, <2>2, <3>2 DEF LinksHold
      <4> QED
        BY <1>2, <1>3, <1>4, <1>5, <1>6, <4>1 DEF Fresh
    <3> QED
      BY <3>1, <3>2
  <2> QED
    BY <2>1, <2>2
<1> QED
  BY <1>2, <1>3, <1>4, <1>5, <1>7 DEF LinksHold

\* Loading a row copies its link.
LEMMA RowLoadLinks ==
    ASSUME Typed, LinksInv, NEW h \in Handlers, RowLoad(h)
    PROVE  LinksInv'
PROOF
<1> DEFINE r == handlers[h].room
<1>1. /\ UNCHANGED db /\ past.revoked' = past.revoked /\ past.stale' = past.stale
      /\ \A g \in Handlers \ {h} : handlers'[g] = handlers[g]
      /\ handlers[h] \in Busy /\ handlers[h].op \in {"rename", "regenerate"}
  <2>1. handlers[h] \in Busy
    BY DEF RowLoad, Idle, Typed, HandlersTyped
  <2> QED
    BY <2>1 DEF RowLoad, Reply, Changes, Typed, PastTyped, HandlersTyped
<1>2. CASE Reply(h)
  <2>1. ~Holding(h)'
    BY <1>2 DEF Reply, Holding, Idle, Typed, HandlersTyped
  <2> QED
    BY <1>1, <2>1, LinksKept
<1>3. CASE /\ HasRoom(r)
           /\ handlers' = [handlers EXCEPT ![h].at = "reload", ![h].was = db.rooms[r],
                                           ![h].arg = Value(h)]
  <2>1. /\ handlers'[h].at = "reload" /\ handlers'[h].was = db.rooms[r]
        /\ handlers'[h].op = handlers[h].op /\ handlers'[h].room = r
        /\ handlers[h].op = "regenerate" => handlers'[h].arg = past.uuid
    BY <1>1, <1>3 DEF Value, Typed, HandlersTyped, Busy
  <2>2. past.uuid \notin Issued
    BY DEF Issued, Typed, PastTyped
  <2>3. /\ \A q \in DOMAIN db.rooms : Token(q) \in Issued
        /\ past.revoked \subseteq Issued
        /\ \A g \in Handlers : Replacing(g) => /\ handlers[g].arg \in Issued
                                               /\ handlers[g].was.inviteToken \in Issued
    BY DEF Token, Replacing, Typed, DbTyped, PastTyped, HandlersTyped, RoomRow
  <2> SUFFICES ASSUME LinksHold
               PROVE  LinksHold'
    BY <1>1 DEF LinksInv
  <2>4. /\ DOMAIN db.rooms' = DOMAIN db.rooms /\ r \in DOMAIN db.rooms
        /\ \A q \in DOMAIN db.rooms : Token(q)' = Token(q)
        /\ handlers'[h].was.inviteToken = Token(r)
    BY <1>1, <1>3, <2>1 DEF Token, HasRoom
  <2>5. ASSUME NEW g \in Handlers, g # h
        PROVE  Narrow(g)' /\ (Replacing(g)' => Fresh(g)')
    <3>1. handlers'[g] = handlers[g] /\ (Replacing(g)' <=> Replacing(g)) /\ Narrow(g)'
      BY <1>1, <2>5 DEF Replacing, Holding, Narrow, LinksHold
    <3>2. ASSUME Replacing(g)
          PROVE  Fresh(g)'
      <4>1. Fresh(g) /\ handlers[g].arg # past.uuid
        BY <2>2, <2>3, <3>2 DEF LinksHold
      <4>2. ASSUME NEW f \in Handlers, Replacing(f)'
            PROVE  /\ handlers'[f].was.inviteToken # handlers'[g].arg
                   /\ f # g => handlers'[f].arg # handlers'[g].arg
        <5>1. CASE f = h
          BY <1>1, <2>1, <2>4, <3>1, <4>1, <4>2, <5>1 DEF Fresh, Replacing
        <5>2. CASE f # h
          BY <1>1, <3>1, <4>1, <4>2, <5>2 DEF Fresh, Replacing, Holding
        <5> QED
          BY <5>1, <5>2
      <4> QED
        BY <1>1, <2>4, <3>1, <4>1, <4>2 DEF Fresh
    <3> QED
      BY <3>1, <3>2
  <2>6. Narrow(h)'
    BY <2>1 DEF Narrow
  <2>7. ASSUME Replacing(h)'
        PROVE  Fresh(h)'
    <3>1. handlers'[h].arg = past.uuid
      BY <1>1, <2>1, <2>7 DEF Replacing
    <3>2. ASSUME NEW f \in Handlers, Replacing(f)'
          PROVE  /\ handlers'[f].was.inviteToken # past.uuid
                 /\ f # h => handlers'[f].arg # past.uuid
      <4>1. CASE f = h
        BY <2>2, <2>3, <2>4, <4>1
      <4>2. CASE f # h
        <5>1. Replacing(f) /\ handlers'[f] = handlers[f]
          BY <1>1, <3>2, <4>2 DEF Replacing, Holding
        <5> QED
          BY <2>2, <2>3, <5>1
      <4> QED
        BY <4>1, <4>2
    <3>3. \A q \in DOMAIN db.rooms : Token(q) = Token(r) => q = r
      BY <2>4 DEF LinksHold
    <3> QED
      BY <1>1, <2>1, <2>2, <2>3, <2>4, <3>1, <3>2, <3>3 DEF Fresh
  <2> QED
    BY <1>1, <2>4, <2>5, <2>6, <2>7 DEF LinksHold
<1> QED
  BY <1>2, <1>3 DEF RowLoad

\* What a save will write is what the request changed, unless the row is stale.
LEMMA RowReloadLinks ==
    ASSUME Typed, LinksInv, NEW h \in Handlers, RowReload(h)
    PROVE  LinksInv'
PROOF
<1> DEFINE row == IF HasRoom(handlers[h].room) THEN db.rooms[handlers[h].room] ELSE NoRow
<1>1. /\ UNCHANGED db /\ past.revoked' = past.revoked
      /\ \A g \in Handlers \ {h} : handlers'[g] = handlers[g]
      /\ handlers[h] \in Busy /\ Holding(h)
      /\ past.stale' = (past.stale \/ row # handlers[h].was)
  <2>1. handlers[h] \in Busy
    BY DEF RowReload, Idle, Typed, HandlersTyped
  <2> QED
    BY <2>1 DEF RowReload, Holding, Typed, PastTyped, HandlersTyped
<1> SUFFICES ASSUME LinksHold, row = handlers[h].was
             PROVE  LinksHold'
  BY <1>1 DEF LinksInv
<1>2. /\ handlers[h].was \in RoomRow
      /\ IF handlers[h].op = "rename" THEN handlers[h].arg = "renamed"
         ELSE handlers[h].arg \in Issued
  BY <1>1 DEF Typed, HandlersTyped
<1>3. handlers[h].was # NoRow
  <2>1. "name" \in DOMAIN handlers[h].was /\ "name" \notin DOMAIN NoRow
    BY <1>2 DEF RoomRow, NoRow
  <2> QED
    BY <2>1
<1>4. /\ handlers'[h].at = "update" /\ handlers'[h].op = handlers[h].op
      /\ handlers'[h].was = handlers[h].was /\ handlers'[h].arg = handlers[h].arg
      /\ handlers'[h].room = handlers[h].room
      /\ handlers'[h].save = Differing(handlers[h].was, Wanted(h))
  BY <1>1, <1>3 DEF RowReload, Typed, HandlersTyped, Busy
<1>5. Narrow(h)'
  <2>1. CASE handlers[h].op = "rename"
    <3> DEFINE was == handlers[h].was
    <3>1. Wanted(h) = [was EXCEPT !.name = handlers[h].arg]
      BY <2>1 DEF Wanted
    <3>2. \A c \in DOMAIN Wanted(h) : c # "name" => Wanted(h)[c] = was[c]
      BY <3>1
    <3>3. handlers'[h].save \subseteq {"name"}
      BY <1>3, <1>4, <3>2 DEF Differing
    <3> QED
      BY <1>4, <2>1, <3>3 DEF Narrow
  <2>2. CASE handlers[h].op # "rename"
    <3>1. handlers[h].arg # handlers[h].was.inviteToken
      BY <1>1, <2>2 DEF LinksHold, Fresh, Replacing
    <3>2. handlers'[h].save = {"inviteToken"}
      BY <1>2, <1>3, <1>4, <2>2, <3>1 DEF Differing, Wanted, RoomRow
    <3> QED
      BY <1>4, <2>2, <3>2 DEF Narrow
  <2> QED
    BY <2>1, <2>2
<1>6. \A g \in Handlers : /\ Replacing(g)' <=> Replacing(g)
                          /\ handlers'[g].arg = handlers[g].arg
                          /\ handlers'[g].was = handlers[g].was
                          /\ handlers'[g].room = handlers[g].room
  BY <1>1, <1>4 DEF Replacing, Holding
<1>7. \A g \in Handlers \ {h} : Narrow(g)'
  BY <1>1 DEF LinksHold, Narrow
<1>8. ASSUME NEW g \in Handlers, Replacing(g)'
      PROVE  Fresh(g)'
  <2>1. Fresh(g)
    BY <1>6, <1>8 DEF LinksHold
  <2> QED
    BY <1>1, <1>6, <2>1 DEF Fresh, Token
<1>9. \A q \in DOMAIN db.rooms : Token(q)' = Token(q)
  BY <1>1 DEF Token
<1> QED
  BY <1>1, <1>5, <1>7, <1>8, <1>9 DEF LinksHold

\* A save writes its own columns: a renaming restores no link.
LEMMA RowWriteLinks ==
    ASSUME Typed, LinksInv, NEW h \in Handlers, RowWrite(h)
    PROVE  LinksInv'
PROOF
<1> DEFINE r == handlers[h].room
           old == handlers[h].was.inviteToken
           new == handlers[h].arg
<1>1. past.stale' = past.stale /\ Reply(h)
  BY DEF RowWrite, Typed, PastTyped
<1> SUFFICES ASSUME LinksHold
             PROVE  LinksHold'
  BY <1>1 DEF LinksInv
<1>2. /\ \A g \in Handlers \ {h} : handlers'[g] = handlers[g]
      /\ ~Holding(h)'
  BY <1>1 DEF Reply, Holding, Idle, Typed, HandlersTyped
<1>3. RowUpdate(h) /\ Holding(h) /\ handlers[h].at = "update"
  BY DEF RowWrite, RowInsert, RowUpdate, LinksHold, Narrow, Holding
<1>4. CASE handlers[h].op = "rename"
  <2>1. UNCHANGED past
    BY <1>4 DEF RowWrite
  <2>2. /\ DOMAIN db.rooms' = DOMAIN db.rooms
        /\ \A q \in DOMAIN db.rooms : Token(q)' = Token(q)
    <3>1. CASE UNCHANGED db
      BY <3>1 DEF Token
    <3>2. CASE HasRoom(r)
      <4> DEFINE row == [c \in DOMAIN db.rooms[r] |-> IF c \in handlers[h].save
                                              THEN Wanted(h)[c] ELSE db.rooms[r][c]]
      <4>1. db.rooms' = WithRow(db.rooms, r, row)
        BY <1>3, <3>2 DEF RowUpdate, PutRow, Typed, DbTyped, Tables
      <4>2. "inviteToken" \notin handlers[h].save
        BY <1>3, <1>4 DEF LinksHold, Narrow
      <4>3. row.inviteToken = Token(r)
        BY <3>2, <4>2 DEF Token, HasRoom, Typed, DbTyped, RoomRow
      <4> HIDE DEF row
      <4> QED
        BY <3>2, <4>1, <4>3 DEF Token, WithRow, HasRoom
    <3> QED
      BY <1>3, <3>1, <3>2 DEF RowUpdate
  <2>3. \A g \in Handlers : Replacing(g)' => g # h /\ Replacing(g)
    BY <1>2 DEF Replacing, Holding
  <2>4. ASSUME NEW g \in Handlers
        PROVE  Narrow(g)' /\ (Replacing(g)' => Fresh(g)')
    <3>1. Narrow(g)'
      BY <1>2 DEF LinksHold, Narrow, Holding
    <3>2. ASSUME Replacing(g)'
          PROVE  Fresh(g)'
      <4>1. handlers'[g] = handlers[g] /\ Fresh(g)
        BY <1>2, <2>3, <3>2 DEF LinksHold
      <4> QED
        BY <1>2, <2>1, <2>2, <2>3, <4>1 DEF Fresh
    <3> QED
      BY <3>1, <3>2
  <2> QED
    BY <2>1, <2>2, <2>4 DEF LinksHold
<1>5. CASE handlers[h].op # "rename"
  <2>1. Replacing(h) /\ Fresh(h)
    BY <1>3, <1>5 DEF Replacing, LinksHold
  <2>2. past.revoked' = past.revoked \cup {old}
    BY <1>5 DEF RowWrite, Typed, PastTyped
  <2>3. /\ DOMAIN db.rooms' = DOMAIN db.rooms
        /\ \A q \in DOMAIN db.rooms : Token(q)' = IF q = r THEN new ELSE Token(q)
    <3>1. CASE UNCHANGED db /\ ~HasRoom(r)
      BY <3>1 DEF Token, HasRoom
    <3>2. CASE HasRoom(r)
      <4> DEFINE row == [c \in DOMAIN db.rooms[r] |-> IF c \in handlers[h].save
                                              THEN Wanted(h)[c] ELSE db.rooms[r][c]]
      <4>1. db.rooms' = WithRow(db.rooms, r, row)
        BY <1>3, <3>2 DEF RowUpdate, PutRow, Typed, DbTyped, Tables
      <4>2. handlers[h].save = {"inviteToken"} /\ handlers[h].was \in RoomRow
        BY <1>3, <1>5 DEF LinksHold, Narrow, Typed, HandlersTyped
      <4>3. row.inviteToken = new
        BY <1>5, <3>2, <4>2 DEF Wanted, HasRoom, Typed, DbTyped, RoomRow
      <4> HIDE DEF row
      <4> QED
        BY <3>2, <4>1, <4>3 DEF Token, WithRow, HasRoom
    <3> QED
      BY <1>3, <3>1, <3>2 DEF RowUpdate
  <2>4. \A g \in Handlers : Replacing(g)' => g # h /\ Replacing(g) /\ handlers'[g] = handlers[g]
    BY <1>2 DEF Replacing, Holding
  <2>5. ASSUME NEW q \in DOMAIN db.rooms
        PROVE  Token(q)' \notin past.revoked'
    BY <2>1, <2>2, <2>3 DEF LinksHold, Fresh
  <2>6. ASSUME NEW g \in Handlers
        PROVE  Narrow(g)' /\ (Replacing(g)' => Fresh(g)')
    <3>1. Narrow(g)'
      BY <1>2 DEF LinksHold, Narrow, Holding
    <3>2. ASSUME Replacing(g)'
          PROVE  Fresh(g)'
      <4>1. handlers'[g] = handlers[g] /\ Fresh(g) /\ g # h /\ Replacing(g)
        BY <2>4, <3>2 DEF LinksHold
      <4>2. handlers[g].arg # old /\ handlers[g].arg # new /\ handlers[g].was.inviteToken # new
        BY <2>1, <4>1 DEF Fresh
      <4> QED
        BY <2>2, <2>3, <2>4, <4>1, <4>2 DEF Fresh
    <3> QED
      BY <3>1, <3>2
  <2>7. ASSUME NEW q \in DOMAIN db.rooms, NEW p \in DOMAIN db.rooms, Token(q)' = Token(p)'
        PROVE  q = p
    BY <2>1, <2>3, <2>7 DEF LinksHold, Fresh
  <2> QED
    BY <2>3, <2>5, <2>6, <2>7 DEF LinksHold
<1> QED
  BY <1>4, <1>5

\* No room has a revoked link, and no handler holds one that a room has.
LEMMA LinksInvariant == Spec => []LinksInv
PROOF
<1>1. Init => LinksInv
  <2> SUFFICES ASSUME Init
               PROVE  LinksHold
    BY DEF LinksInv
  <2>1. DOMAIN db.rooms = {Existing} /\ past.revoked = {}
    BY DEF Init
  <2>2. \A h \in Handlers : ~Holding(h) /\ Narrow(h)
    BY DEF Init, Holding, Narrow, Idle
  <2> QED
    BY <2>1, <2>2 DEF LinksHold, Replacing
<1>2. Typed /\ LinksInv /\ [Next]_vars => LinksInv'
  <2> SUFFICES ASSUME Typed, LinksInv, [Next]_vars
               PROVE  LinksInv'
    OBVIOUS
  <2>1. ASSUME UNCHANGED <<db, handlers>>, past.revoked' = past.revoked, past.stale' = past.stale
        PROVE  LinksInv'
    BY <2>1 DEF LinksInv, LinksHold, Token, Narrow, Replacing, Holding, Fresh
  <2>2. ASSUME NEW h \in Handlers, Request(h) \/ Fail(h)
        PROVE  LinksInv'
    <3>1. \A g \in Handlers \ {h} : handlers'[g] = handlers[g]
      BY <2>2, RequestKept, ReplyMoves DEF Fail
    <3>2. ~Holding(h)'
      BY <2>2, RequestKept DEF Fail, Reply, Idle, Holding, Starts, Typed, HandlersTyped
    <3>3. UNCHANGED db /\ past.revoked' = past.revoked /\ past.stale' = past.stale
      BY <2>2, RequestKept DEF Fail, Typed, PastTyped
    <3> QED
      BY <3>1, <3>2, <3>3, LinksKept
  <2>3. ASSUME NEW h \in Handlers, Step(h)
        PROVE  LinksInv'
    BY <2>3, OtherLinks, CreateRoomLinks, RowLoadLinks, RowReloadLinks, RowWriteLinks
  <2>4. ASSUME NEW u \in Users, NEW r \in Rooms, Share(u, r)
        PROVE  LinksInv'
    BY <2>1, <2>4 DEF Share, Typed, PastTyped
  <2>5. CASE UNCHANGED vars
    BY <2>1, <2>5 DEF vars
  <2> QED
    BY <2>2, <2>3, <2>4, <2>5 DEF Next
<1> QED
  BY <1>1, <1>2, TypedInvariant, PTL DEF Spec

\* A link that was replaced leads into no room again, in any overlap of renames,
\* regenerations, creations and deletions in which every save finds the row its
\* handler has loaded: a save writes only the column its request is about, and
\* the link a regeneration brings is new (rooms.service.ts:137).
THEOREM RevokedStaysRevokedHolds == Spec => []RevokedStaysRevoked
PROOF
<1>1. LinksInv => RevokedStaysRevoked
  BY DEF LinksInv, LinksHold, RevokedStaysRevoked, Token
<1> QED
  BY <1>1, LinksInvariant, PTL

-----------------------------------------------------------------------------
(* Rooms that were deleted.                                                *)

\* A room that was deleted is gone with its live canvas, and a deletion that has
\* come to the live canvas is done with the room's row.
GoneHold ==
    /\ \A r \in past.deleted : r \in past.used /\ ~HasRoom(r) /\ Left(db.live, r)
    /\ \A h \in Handlers :
          handlers[h].at = "delete" /\ handlers[h].step = 6 => ~HasRoom(handlers[h].room)

GoneInv == ~past.stale => GoneHold

\* No room comes back, and what is added to a live canvas is late, or of a room
\* that there is.
LEMMA GoneKept ==
    ASSUME Typed, GoneInv, NEW h \in Handlers,
           \A g \in Handlers \ {h} : handlers'[g] = handlers[g],
           handlers'[h].at # "delete" \/ handlers'[h].step # 6,
           past.stale => past.stale', past.deleted' = past.deleted, past.used \subseteq past.used',
           DOMAIN db.rooms' \cap past.used \subseteq DOMAIN db.rooms,
           \A x \in db.live' : x \in db.live \/ x.late \/ HasRoom(x.room)
    PROVE  GoneInv'
PROOF
<1> SUFFICES ASSUME ~past.stale'
             PROVE  GoneHold'
  BY DEF GoneInv
<1>1. GoneHold
  BY DEF GoneInv
<1>2. ASSUME NEW r \in past.deleted
      PROVE  r \in past.used' /\ ~HasRoom(r)' /\ Left(db.live', r)
  BY <1>1, <1>2 DEF GoneHold, HasRoom, Left
<1>3. ASSUME NEW g \in Handlers, handlers'[g].at = "delete", handlers'[g].step = 6
      PROVE  ~(handlers'[g].room \in DOMAIN db.rooms')
  <2>1. g # h /\ handlers'[g] = handlers[g]
    BY <1>3
  <2>2. handlers[g].room \in past.used
    BY <1>3, <2>1 DEF Typed, HandlersTyped, Idle
  <2> QED
    BY <1>1, <1>3, <2>1, <2>2 DEF GoneHold, HasRoom
<1> QED
  BY <1>2, <1>3 DEF GoneHold, HasRoom

\* What a step other than a delete does to the room rows and the live canvases.
LEMMA OtherGone ==
    ASSUME Typed, LateInv, LinksInv, GoneInv, NEW h \in Handlers, Step(h), ~DeleteStep(h)
    PROVE  GoneInv'
PROOF
<1> USE DEF Typed, PastTyped, DbTyped, Tables
<1>1. /\ past.stale => past.stale'
      /\ past.deleted' = past.deleted /\ past.used \subseteq past.used'
  <2>1. CASE CreateRoom(h)
    BY <2>1 DEF CreateRoom, CreateRoomNext
  <2>2. CASE RowLoad(h) \/ RowReload(h) \/ RowWrite(h)
    BY <2>2 DEF RowLoad, RowReload, RowWrite
  <2> QED
    BY <2>1, <2>2 DEF Step, Access, CreateMember, JoinFind, JoinLookup, JoinInsert, DeleteVerify,
       DeleteFind, CreateComment, CommentFind, DeleteComment, CreateSnapshot, SnapshotFind,
       DeleteSnapshot, CanvasGet, CanvasSet, CanvasSave, RegisterFind, RegisterInsert, Insert,
       Delete, CanvasPut
<1>2. /\ handlers[h] \in Busy /\ handlers[h].at # "delete"
      /\ handlers[h].step = 1
  <2>1. handlers[h].at \notin {"idle", "delete"}
    <3>1. CASE CreateRoom(h) \/ CreateMember(h) \/ JoinFind(h) \/ JoinLookup(h) \/ JoinInsert(h)
      BY <3>1 DEF CreateRoom, CreateMember, JoinFind, JoinLookup, JoinInsert, Running
    <3>2. CASE RowLoad(h) \/ RowReload(h) \/ RowWrite(h)
      BY <3>2 DEF RowLoad, RowReload, RowWrite, RowInsert, RowUpdate
    <3>3. CASE DeleteVerify(h) \/ DeleteFind(h) \/ RegisterFind(h) \/ RegisterInsert(h)
      BY <3>3 DEF DeleteVerify, DeleteFind, RegisterFind, RegisterInsert, Running
    <3>4. CASE CreateComment(h) \/ CommentFind(h) \/ DeleteComment(h)
      BY <3>4 DEF CreateComment, CommentFind, DeleteComment, Insert, Delete, Running
    <3>5. CASE CreateSnapshot(h) \/ SnapshotFind(h) \/ DeleteSnapshot(h)
      BY <3>5 DEF CreateSnapshot, SnapshotFind, DeleteSnapshot, Insert, Delete, Running
    <3>6. CASE Access(h) \/ CanvasGet(h) \/ CanvasSet(h) \/ CanvasSave(h)
      BY <3>6 DEF Access, CanvasGet, CanvasSet, CanvasSave, CanvasPut
    <3> QED
      BY <3>1, <3>2, <3>3, <3>4, <3>5, <3>6 DEF Step
  <2> QED
    BY <2>1 DEF HandlersTyped, LateInv, Idle
<1>3. /\ \A g \in Handlers \ {h} : handlers'[g] = handlers[g]
      /\ handlers'[h].at # "delete" \/ handlers'[h].step # 6
  <2>1. ASSUME NEW new, handlers' = [handlers EXCEPT ![h] = new], new = Idle \/ new.step = 1
        PROVE  <1>3!:
    BY <2>1 DEF HandlersTyped, Idle
  <2>2. CASE Reply(h)
    BY <2>1, <2>2 DEF Reply
  <2>3. ASSUME NEW at, Go(h, at)
        PROVE  <1>3!:
    BY <1>2, <2>1, <2>3 DEF Go, Busy
  <2>4. CASE CreateRoom(h)
    BY <1>2, <2>4 DEF CreateRoom, CreateRoomNext, Busy, HandlersTyped
  <2>5. CASE JoinFind(h)
    BY <1>2, <2>2, <2>5 DEF JoinFind, Busy, HandlersTyped
  <2>6. CASE RowLoad(h) \/ RowReload(h)
    BY <1>2, <2>2, <2>6 DEF RowLoad, RowReload, Busy, HandlersTyped
  <2> QED
    BY <2>2, <2>3, <2>4, <2>5, <2>6 DEF Step, Access, CreateMember, JoinLookup, JoinInsert,
       RowWrite, DeleteVerify, DeleteFind, CreateComment, CommentFind, DeleteComment,
       CreateSnapshot, SnapshotFind, DeleteSnapshot, CanvasGet, CanvasSet, CanvasSave,
       RegisterFind, RegisterInsert, Insert, Delete, CanvasPut
<1>4. CASE past.stale'
  BY <1>4 DEF GoneInv
<1>5. CASE ~past.stale'
  <2>1. DOMAIN db.rooms' \cap past.used \subseteq DOMAIN db.rooms
    <3>1. CASE CreateRoom(h)
      BY <3>1 DEF CreateRoom, WithRow
    <3>2. CASE RowLoad(h) \/ RowReload(h)
      BY <3>2 DEF RowLoad, RowReload
    <3>3. CASE RowWrite(h)
      <4>1. ~RowInsert(h)
        BY <1>1, <1>5 DEF LinksInv, LinksHold, Narrow, RowInsert
      <4> QED
        BY <3>3, <4>1 DEF RowWrite, RowUpdate, PutRow, WithRow, HasRoom
    <3> QED
      BY <3>1, <3>2, <3>3, OtherSteps
  <2>2. \A x \in db.live' : x \in db.live \/ x.late \/ HasRoom(x.room)
    <3>1. CASE DeleteFind(h)
      <4>1. CASE UNCHANGED db
        BY <4>1
      <4>2. CASE /\ HasRoom(handlers[h].room)
                 /\ db' = [db EXCEPT !.comments = NotLate(@, handlers[h].room),
                                     !.snapshots = NotLate(@, handlers[h].room),
                                     !.canvases = NotLate(@, handlers[h].room),
                                     !.live = NotLate(@, handlers[h].room)]
        <5>1. db.live' = NotLate(db.live, handlers[h].room)
          BY <4>2
        <5>2. ASSUME NEW x \in db.live'
              PROVE  x \in db.live \/ HasRoom(x.room)
          <6>1. PICK y \in db.live : x = IF y.room = handlers[h].room
                                         THEN [y EXCEPT !.late = FALSE] ELSE y
            BY <5>1 DEF NotLate
          <6>2. y \in [room : Rooms, late : BOOLEAN]
            BY DEF Rows
          <6> QED
            BY <4>2, <6>1, <6>2
        <5> QED
          BY <5>2
      <4> QED
        BY <3>1, <4>1, <4>2 DEF DeleteFind, Owns
    <3>2. CASE CanvasSet(h)
      <4>1. db.live' \subseteq db.live \cup {CanvasOf(handlers[h].room, Late(handlers[h].room))}
        BY <3>2 DEF CanvasSet, CanvasPut
      <4>2. HasRoom(handlers[h].room) \/ Late(handlers[h].room)
        BY DEF Late
      <4>3. ASSUME NEW x, x = CanvasOf(handlers[h].room, Late(handlers[h].room))
            PROVE  x.late \/ HasRoom(x.room)
        <5>1. x.room = handlers[h].room /\ x.late = Late(handlers[h].room)
          BY <4>3 DEF CanvasOf
        <5> QED
          BY <4>2, <5>1
      <4> QED
        BY <4>1, <4>3
    <3>3. CASE CanvasSave(h) \/ CreateComment(h) \/ CreateSnapshot(h) \/ DeleteComment(h)
               \/ DeleteSnapshot(h)
      BY <3>3 DEF CanvasSave, CanvasPut, CreateComment, CreateSnapshot, DeleteComment,
                  DeleteSnapshot, Insert, Delete
    <3>4. CASE CreateRoom(h) \/ CreateMember(h) \/ JoinInsert(h) \/ RegisterInsert(h) \/ RowWrite(h)
      BY <3>4 DEF CreateRoom, CreateMember, JoinInsert, InsertMember, RegisterInsert, RowWrite,
                  RowInsert, RowUpdate, PutRow
    <3> QED
      BY <3>1, <3>2, <3>3, <3>4 DEF Step, Access, JoinFind, JoinLookup, RowLoad, RowReload,
         DeleteVerify, CommentFind, SnapshotFind, CanvasGet, RegisterFind
  <2> QED
    BY <1>1, <1>3, <2>1, <2>2, GoneKept
<1> QED
  BY <1>4, <1>5

\* The six deletions leave a deleted room gone.
LEMMA DeleteGone ==
    ASSUME Typed, GoneInv, NEW h \in Handlers, DeleteStep(h)
    PROVE  GoneInv'
PROOF
<1> USE DEF Typed, PastTyped, DbTyped, Tables
<1> DEFINE r == handlers[h].room
           n == handlers[h].step
<1>1. /\ handlers[h] \in Busy /\ handlers[h].at = "delete" /\ n \in 1..6 /\ r \in past.used
  BY DEF DeleteStep, Running, HandlersTyped, Idle, Busy
<1>2. /\ \A g \in Handlers \ {h} : handlers'[g] = handlers[g]
      /\ \/ handlers'[h] = Idle
         \/ /\ handlers'[h].at = "delete" /\ handlers'[h].step = n + 1 /\ handlers'[h].room = r
  <2>1. Reply(h) \/ handlers' = [handlers EXCEPT ![h].step = n + 1]
    BY DEF DeleteStep
  <2> QED
    BY <1>1, <2>1 DEF Reply, HandlersTyped, Busy
<1>3. /\ past.stale' = past.stale /\ past.used' = past.used
      /\ past.deleted' = IF n = 6 THEN past.deleted \cup {r} ELSE past.deleted
  BY DEF DeleteStep, DeletionOrder
<1>4. DOMAIN db.rooms' \subseteq DOMAIN db.rooms
  BY OtherSteps DEF Step, DeleteStep, CreateRoom, RowLoad, RowReload, RowWrite, RowInsert,
     RowUpdate, Running
<1>5. /\ db.live' \subseteq db.live
      /\ n = 6 => Left(db.live', r)
  <2>1. CASE n = 5
    <3>1. \/ UNCHANGED db
          \/ db' = [db EXCEPT !.rooms = [q \in DOMAIN @ \ {r} |-> @[q]]]
      BY <2>1, DeleteStepTables
    <3>2. db.live' = db.live
      BY <3>1
    <3> QED
      BY <2>1, <3>2
  <2>2. CASE n # 5
    <3>1. db' = [db EXCEPT ![DeletionOrder[n]] = @ \ In(@, r)]
      BY <2>2, DeleteStepTables
    <3>2. DeletionOrder[n] \in Tables /\ (n = 6 => DeletionOrder[n] = "live")
      <4>1. n = 1 \/ n = 2 \/ n = 3 \/ n = 4 \/ n = 6
        BY <1>1, <2>2
      <4> QED
        BY <2>2, <4>1 DEF DeletionOrder
    <3>3. \A t \in Tables : db'[t] = IF t = DeletionOrder[n] THEN db[t] \ In(db[t], r) ELSE db[t]
      BY <3>1, <3>2
    <3> QED
      BY <3>2, <3>3 DEF Left, In
  <2> QED
    BY <2>1, <2>2
<1>6. n = 5 /\ handlers'[h] # Idle => r \notin DOMAIN db.rooms'
  <2> SUFFICES ASSUME n = 5, handlers'[h] # Idle
               PROVE  r \notin DOMAIN db.rooms'
    OBVIOUS
  <2>1. ~Reply(h) /\ DeletionOrder[n] = "room"
    BY DEF Reply, HandlersTyped, DeletionOrder
  <2>2. db' = [db EXCEPT !.rooms = [q \in DOMAIN @ \ {r} |-> @[q]]]
    BY <2>1 DEF DeleteStep
  <2> QED
    BY <2>2
<1> SUFFICES ASSUME ~past.stale'
             PROVE  GoneHold'
  BY DEF GoneInv
<1>7. GoneHold
  BY <1>3 DEF GoneInv
<1>8. ASSUME NEW q \in past.deleted'
      PROVE  q \in past.used' /\ q \notin DOMAIN db.rooms' /\ Left(db.live', q)
  <2>1. CASE q \in past.deleted
    BY <1>3, <1>4, <1>5, <1>7, <2>1 DEF GoneHold, HasRoom, Left
  <2>2. CASE n = 6 /\ q = r
    BY <1>1, <1>3, <1>4, <1>5, <1>7, <2>2 DEF GoneHold, HasRoom
  <2> QED
    BY <1>3, <1>8, <2>1, <2>2
<1>9. ASSUME NEW g \in Handlers, handlers'[g].at = "delete", handlers'[g].step = 6
      PROVE  handlers'[g].room \notin DOMAIN db.rooms'
  <2>1. CASE g = h
    BY <1>1, <1>2, <1>6, <1>9, <2>1 DEF Idle
  <2>2. CASE g # h
    BY <1>2, <1>4, <1>7, <1>9, <2>2 DEF GoneHold, HasRoom
  <2> QED
    BY <2>1, <2>2
<1> QED
  BY <1>8, <1>9 DEF GoneHold, HasRoom

\* However requests overlap and wherever they fail, a room that was deleted stays
\* deleted, as long as every save of a room's row finds the row its handler has
\* loaded; its live canvas comes back only late (rooms.service.ts:208-214).
THEOREM DeletedStaysDeletedHolds == Spec => []DeletedStaysDeleted
PROOF
<1>1. Init => GoneInv
  BY DEF Init, GoneInv, GoneHold, Idle
<1>2. Typed /\ LateInv /\ LinksInv /\ GoneInv /\ [Next]_vars => GoneInv'
  <2> SUFFICES ASSUME Typed, LateInv, LinksInv, GoneInv, [Next]_vars
               PROVE  GoneInv'
    OBVIOUS
  <2>1. ASSUME NEW h \in Handlers, Request(h) \/ Fail(h)
        PROVE  GoneInv'
    <3>1. \A g \in Handlers \ {h} : handlers'[g] = handlers[g]
      BY <2>1, RequestKept, ReplyMoves DEF Fail
    <3>2. handlers'[h].at # "delete"
      BY <2>1, RequestKept DEF Fail, Reply, Idle, Starts, Typed, HandlersTyped
    <3>3. UNCHANGED db /\ past.used' = past.used /\ past.stale' = past.stale
          /\ past.deleted' = past.deleted
      BY <2>1, RequestKept DEF Fail, Typed, PastTyped
    <3> QED
      BY <3>1, <3>2, <3>3, GoneKept
  <2>2. ASSUME NEW h \in Handlers, Step(h)
        PROVE  GoneInv'
    BY <2>2, OtherGone, DeleteGone
  <2>3. ASSUME UNCHANGED <<db, handlers>>, past.used' = past.used, past.stale' = past.stale,
               past.deleted' = past.deleted
        PROVE  GoneInv'
    BY <2>3 DEF GoneInv, GoneHold, HasRoom, Left
  <2>4. ASSUME NEW u \in Users, NEW r \in Rooms, Share(u, r)
        PROVE  GoneInv'
    BY <2>3, <2>4 DEF Share, Typed, PastTyped
  <2>5. CASE UNCHANGED vars
    BY <2>3, <2>5 DEF vars
  <2> QED
    BY <2>1, <2>2, <2>4, <2>5 DEF Next
<1>3. GoneInv => DeletedStaysDeleted
  BY DEF GoneInv, GoneHold, DeletedStaysDeleted, Left, In
<1> QED
  BY <1>1, <1>2, <1>3, TypedInvariant, LateInvariant, LinksInvariant, PTL DEF Spec

-----------------------------------------------------------------------------
(* Owners and their memberships.                                           *)

Creating(h) == Running(h, "createRoom", "member")
Admits(h) == Creating(h) \/ Running(h, "joinRoom", "insert")
Closing(h) == handlers[h].op = "deleteRoom" /\ handlers[h].at \in {"find", "delete"}

\* Where a step leaves its handler.
LEMMA StepAt ==
    ASSUME Typed, NEW h \in Handlers, Step(h)
    PROVE  /\ \A g \in Handlers \ {h} : handlers'[g] = handlers[g]
           /\ handlers[h] \in Busy
           /\ Creating(h)' => CreateRoom(h)
           /\ Admits(h)' => CreateRoom(h) \/ JoinLookup(h)
           /\ Closing(h)' => DeleteVerify(h) \/ DeleteFind(h) \/ DeleteStep(h)
PROOF
<1> DEFINE Fine == /\ \A g \in Handlers \ {h} : handlers'[g] = handlers[g]
                   /\ handlers[h] \in Busy
                   /\ ~Creating(h)' /\ ~Admits(h)' /\ ~Closing(h)'
<1> USE DEF Typed, HandlersTyped
<1>1. ASSUME handlers[h] \in Busy, Reply(h)
      PROVE  Fine
  BY <1>1 DEF Reply, Idle, Creating, Admits, Closing, Running
<1>2. ASSUME handlers[h] \in Busy, NEW at, Go(h, at), at \notin {"member", "insert", "find", "delete"}
      PROVE  Fine
  BY <1>2 DEF Go, Busy, Creating, Admits, Closing, Running
<1>3. CASE CreateRoom(h)
  <2>1. handlers[h] \in Busy
    BY <1>3 DEF CreateRoom, Running, Idle
  <2> QED
    BY <1>3, <2>1 DEF CreateRoom, CreateRoomNext, Running, Busy, Closing
<1>4. CASE JoinLookup(h)
  <2>1. handlers[h] \in Busy /\ handlers[h].op = "joinRoom"
    BY <1>4 DEF JoinLookup, Running, Idle
  <2>2. CASE Reply(h)
    BY <1>1, <2>1, <2>2
  <2>3. CASE Go(h, "insert")
    BY <1>4, <2>1, <2>3 DEF Go, Busy, Creating, Closing, Running
  <2> QED
    BY <1>4, <2>2, <2>3 DEF JoinLookup
<1>5. CASE DeleteVerify(h) \/ DeleteFind(h) \/ DeleteStep(h)
  <2>1. handlers[h] \in Busy /\ handlers[h].op = "deleteRoom"
    BY <1>5 DEF DeleteVerify, DeleteFind, DeleteStep, Running, Idle
  <2>2. CASE Reply(h)
    BY <1>1, <2>1, <2>2
  <2>3. CASE Go(h, "find") \/ Go(h, "delete")
    BY <1>5, <2>1, <2>3 DEF Go, Busy, Creating, Admits, Running
  <2>4. CASE DeleteStep(h) /\ handlers' = [handlers EXCEPT ![h].step = handlers[h].step + 1]
    BY <1>5, <2>1, <2>4 DEF Busy, Creating, Admits, Running
  <2> QED
    BY <1>5, <2>2, <2>3, <2>4 DEF DeleteVerify, DeleteFind, DeleteStep
<1>6. CASE JoinFind(h)
  <2>1. handlers[h] \in Busy
    BY <1>6 DEF JoinFind, Running, Idle
  <2>2. CASE Reply(h)
    BY <1>1, <2>1, <2>2
  <2>3. ASSUME NEW r, handlers' = [handlers EXCEPT ![h].at = "lookup", ![h].room = r]
        PROVE  Fine
    BY <2>1, <2>3 DEF Busy, Creating, Admits, Closing, Running
  <2> QED
    BY <1>6, <2>2, <2>3 DEF JoinFind
<1>7. CASE RowLoad(h) \/ RowReload(h) \/ RowWrite(h)
  <2>1. handlers[h] \in Busy
    BY <1>7 DEF RowLoad, RowReload, RowWrite, RowInsert, RowUpdate, Idle
  <2>2. CASE Reply(h)
    BY <1>1, <2>1, <2>2
  <2>3. CASE RowLoad(h) /\ ~Reply(h)
    BY <2>1, <2>3 DEF RowLoad, Busy, Creating, Admits, Closing, Running
  <2>4. CASE RowReload(h)
    BY <2>1, <2>4 DEF RowReload, Busy, Creating, Admits, Closing, Running
  <2> QED
    BY <1>7, <2>2, <2>3, <2>4 DEF RowWrite
<1>8. CASE CreateMember(h) \/ JoinInsert(h) \/ RegisterInsert(h)
  BY <1>1, <1>8 DEF CreateMember, JoinInsert, RegisterInsert, Running, Idle
<1>9. CASE RegisterFind(h)
  <2>1. handlers[h] \in Busy /\ handlers[h].op = "register"
    BY <1>9 DEF RegisterFind, Running, Idle
  <2>2. CASE Go(h, "insert")
    BY <2>1, <2>2 DEF Go, Busy, Creating, Admits, Closing, Running
  <2> QED
    BY <1>1, <1>9, <2>1, <2>2 DEF RegisterFind
<1>10. CASE CreateComment(h) \/ DeleteComment(h) \/ CreateSnapshot(h) \/ DeleteSnapshot(h)
  BY <1>1, <1>10 DEF CreateComment, DeleteComment, CreateSnapshot, DeleteSnapshot, Insert, Delete,
                     Running, Idle
<1>11. CASE CommentFind(h) \/ SnapshotFind(h)
  <2>1. handlers[h] \in Busy
    BY <1>11 DEF CommentFind, SnapshotFind, Running, Idle
  <2> QED
    BY <1>1, <1>2, <1>11, <2>1 DEF CommentFind, SnapshotFind
<1>12. CASE Access(h) \/ CanvasGet(h)
  <2>1. handlers[h] \in Busy
    BY <1>12 DEF Access, CanvasGet, Idle
  <2> QED
    BY <1>1, <1>2, <1>12, <2>1 DEF Access, CanvasGet
<1>13. CASE CanvasSet(h) \/ CanvasSave(h)
  BY <1>1, <1>13 DEF CanvasSet, CanvasSave, CanvasPut, Idle
<1> QED
  BY <1>3, <1>4, <1>5, <1>6, <1>7, <1>8, <1>9, <1>10, <1>11, <1>12, <1>13 DEF Step

\* No request begins in the middle of a deletion.
LEMMA RequestOps ==
    ASSUME Typed, NEW h \in Handlers, Request(h)
    PROVE  ~Closing(h)' /\ ~Admits(h)'
PROOF
<1>1. ASSUME NEW op, NEW at, NEW u, NEW r, NEW arg, Begin(h, op, at, u, r, arg),
             op # "deleteRoom" \/ at = "verify", op # "joinRoom" \/ at = "find", at # "member"
      PROVE  ~Closing(h)' /\ ~Admits(h)'
  BY <1>1 DEF Begin, Closing, Admits, Creating, Running, Typed, HandlersTyped
<1>2. CASE CreateRequest(h) \/ JoinRequest(h)
  BY <1>1, <1>2 DEF CreateRequest, JoinRequest
<1>3. CASE RenameRequest(h) \/ RegenerateRequest(h) \/ DeleteRequest(h)
  BY <1>1, <1>3 DEF RenameRequest, RegenerateRequest, DeleteRequest
<1>4. CASE CommentRequest(h) \/ SnapshotRequest(h)
  BY <1>1, <1>4 DEF CommentRequest, SnapshotRequest
<1>5. CASE DeleteCommentRequest(h) \/ DeleteSnapshotRequest(h) \/ RegisterRequest(h)
  BY <1>1, <1>5 DEF DeleteCommentRequest, DeleteSnapshotRequest, RegisterRequest
<1>6. CASE OpenRequest(h) \/ EditRequest(h) \/ FlushRequest(h) \/ SaveRequest(h)
  BY <1>1, <1>6 DEF OpenRequest, EditRequest, FlushRequest, SaveRequest
<1> QED
  BY <1>2, <1>3, <1>4, <1>5, <1>6 DEF Request

OwnerOf(r) == db.rooms[r].ownerId

\* Whoever creates a room or holds its row knows its owner, who never changes.
OwnersAgree ==
    /\ \A h \in Handlers :
          Holding(h) /\ HasRoom(handlers[h].room) =>
              OwnerOf(handlers[h].room) = handlers[h].was.ownerId
    /\ \A g, h \in Handlers :
          Holding(g) /\ Holding(h) /\ handlers[g].room = handlers[h].room =>
              handlers[g].was.ownerId = handlers[h].was.ownerId
    /\ \A h \in Handlers :
          Creating(h) =>
              /\ HasRoom(handlers[h].room) => OwnerOf(handlers[h].room) = handlers[h].user
              /\ \A g \in Handlers :
                    Holding(g) /\ handlers[g].room = handlers[h].room =>
                        handlers[g].was.ownerId = handlers[h].user

\* Nobody new holds a row or creates a room, and no owner changes.
LEMMA AgreeKept ==
    ASSUME Typed, OwnersAgree, NEW h \in Handlers,
           \A g \in Handlers \ {h} : handlers'[g] = handlers[g],
           ~Holding(h)', ~Creating(h)',
           \A r \in DOMAIN db.rooms' : r \in DOMAIN db.rooms /\ OwnerOf(r)' = OwnerOf(r)
    PROVE  OwnersAgree'
PROOF
<1>1. \A g \in Handlers : Holding(g)' => g # h /\ Holding(g) /\ handlers'[g] = handlers[g]
  BY DEF Holding
<1>2. \A g \in Handlers : Creating(g)' => g # h /\ Creating(g) /\ handlers'[g] = handlers[g]
  BY DEF Creating, Running
<1>3. \A r \in DOMAIN db.rooms' : HasRoom(r) /\ OwnerOf(r)' = OwnerOf(r)
  BY DEF HasRoom
<1> QED
  BY <1>1, <1>2, <1>3 DEF OwnersAgree, HasRoom

\* Every step keeps owners as they were loaded.
LEMMA StepAgree ==
    ASSUME Typed, OwnersAgree, NEW h \in Handlers, Step(h)
    PROVE  OwnersAgree'
PROOF
<1>1. /\ \A g \in Handlers \ {h} : handlers'[g] = handlers[g]
      /\ handlers[h] \in Busy
      /\ Creating(h)' => CreateRoom(h)
  BY StepAt
<1>2. CASE CreateRoom(h)
  <2>1. PICK r \in Rooms \ past.used :
            /\ db' = [db EXCEPT !.rooms = WithRow(@, r, Room(handlers[h].user, past.uuid, "new"))]
            /\ CreateRoomNext(h, r)
    BY <1>2 DEF CreateRoom
  <2>2. /\ handlers'[h].at = "member" /\ handlers'[h].room = r
        /\ handlers'[h].user = handlers[h].user
    BY <1>1, <2>1 DEF CreateRoomNext, Typed, HandlersTyped, Busy
  <2>3. /\ DOMAIN db.rooms' = DOMAIN db.rooms \cup {r}
        /\ OwnerOf(r)' = handlers[h].user
        /\ \A q \in DOMAIN db.rooms : q # r /\ OwnerOf(q)' = OwnerOf(q)
    BY <2>1 DEF OwnerOf, WithRow, Room, Typed, DbTyped, Tables
  <2>4. \A g \in Handlers : Holding(g)' => /\ g # h /\ Holding(g) /\ handlers'[g] = handlers[g]
                                           /\ handlers[g].room # r
    <3>1. \A g \in Handlers : Holding(g)' => g # h /\ Holding(g) /\ handlers'[g] = handlers[g]
      BY <1>1, <2>2 DEF Holding
    <3>2. \A g \in Handlers : Holding(g) => handlers[g].room \in past.used
      BY DEF Holding, Idle, Typed, HandlersTyped
    <3> QED
      BY <3>1, <3>2
  <2>5. \A g \in Handlers \ {h} : Creating(g)' => Creating(g) /\ handlers[g].room # r
    <3>1. \A g \in Handlers : Creating(g) => handlers[g].room \in past.used
      BY DEF Creating, Running, Idle, Typed, HandlersTyped
    <3> QED
      BY <1>1, <3>1 DEF Creating, Running
  <2> QED
    BY <1>1, <2>2, <2>3, <2>4, <2>5 DEF OwnersAgree, HasRoom
<1>3. CASE RowLoad(h)
  <2>1. CASE Reply(h)
    <3>1. ~Holding(h)' /\ db' = db
      BY <1>3, <2>1 DEF RowLoad, Reply, Holding, Idle, Typed, HandlersTyped
    <3>2. ~CreateRoom(h)
      BY <1>3 DEF RowLoad, CreateRoom, Running
    <3> QED
      BY <1>1, <3>1, <3>2, AgreeKept DEF OwnerOf
  <2>2. CASE ~Reply(h)
    <3>1. /\ HasRoom(handlers[h].room)
          /\ handlers'[h].room = handlers[h].room /\ handlers'[h].at = "reload"
          /\ handlers'[h].was.ownerId = OwnerOf(handlers[h].room)
          /\ db' = db
      BY <1>1, <1>3, <2>2 DEF RowLoad, OwnerOf, Typed, HandlersTyped, Busy
    <3>2. /\ \A g \in Handlers \ {h} : Holding(g)' <=> Holding(g)
          /\ \A g \in Handlers \ {h} : Creating(g)' <=> Creating(g)
          /\ ~Creating(h)'
      BY <1>1, <3>1 DEF Holding, Creating, Running
    <3>3. \A g \in Handlers : g # h => handlers'[g] = handlers[g]
      BY <1>1
    <3>4. ASSUME NEW g \in Handlers
          PROVE  (Holding(g) /\ HasRoom(handlers[g].room) =>
                      OwnerOf(handlers[g].room) = handlers[g].was.ownerId)'
      BY <3>1, <3>2, <3>3 DEF OwnersAgree, HasRoom, OwnerOf
    <3>5. ASSUME NEW f \in Handlers, NEW g \in Handlers
          PROVE  (Holding(f) /\ Holding(g) /\ handlers[f].room = handlers[g].room =>
                      handlers[f].was.ownerId = handlers[g].was.ownerId)'
      <4>1. CASE f = h /\ g = h
        BY <4>1
      <4>2. CASE f = h /\ g # h
        BY <3>1, <3>2, <3>3, <4>2 DEF OwnersAgree, HasRoom, OwnerOf
      <4>3. CASE f # h /\ g = h
        BY <3>1, <3>2, <3>3, <4>3 DEF OwnersAgree, HasRoom, OwnerOf
      <4>4. CASE f # h /\ g # h
        BY <3>2, <3>3, <4>4 DEF OwnersAgree
      <4> QED BY <4>1, <4>2, <4>3, <4>4
    <3>6. ASSUME NEW f \in Handlers, Creating(f)'
          PROVE  (/\ HasRoom(handlers[f].room) => OwnerOf(handlers[f].room) = handlers[f].user
                  /\ \A g \in Handlers :
                        Holding(g) /\ handlers[g].room = handlers[f].room =>
                            handlers[g].was.ownerId = handlers[f].user)'
      BY <3>1, <3>2, <3>3, <3>6 DEF OwnersAgree, HasRoom, OwnerOf
    <3> QED
      BY <3>4, <3>5, <3>6 DEF OwnersAgree
  <2> QED
    BY <2>1, <2>2
<1>4. CASE RowReload(h)
  <2>1. /\ Holding(h) /\ Holding(h)' /\ handlers'[h].room = handlers[h].room
        /\ handlers'[h].was = handlers[h].was /\ handlers'[h].at \in {"insertRow", "update"}
        /\ db' = db
    BY <1>1, <1>4 DEF RowReload, Holding, Typed, HandlersTyped, Busy
  <2>2. /\ \A g \in Handlers : Holding(g)' <=> Holding(g)
        /\ \A g \in Handlers : Creating(g)' => g # h /\ Creating(g)
    BY <1>1, <2>1 DEF Holding, Creating, Running
  <2>3. \A g \in Handlers : /\ handlers'[g].room = handlers[g].room
                            /\ handlers'[g].was = handlers[g].was
    BY <1>1, <2>1
  <2> QED
    BY <1>1, <2>1, <2>2, <2>3 DEF OwnersAgree, HasRoom, OwnerOf
<1>5. CASE RowWrite(h)
  <2> DEFINE r == handlers[h].room
             owner == handlers[h].was.ownerId
  <2>1. Holding(h) /\ handlers[h].was \in RoomRow
    BY <1>5 DEF RowWrite, RowInsert, RowUpdate, Holding, Typed, HandlersTyped
  <2>2. ~Holding(h)' /\ ~Creating(h)'
    BY <1>5 DEF RowWrite, Reply, Holding, Creating, Running, Idle, Typed, HandlersTyped
  <2>3. Wanted(h).ownerId = owner /\ "ownerId" \in DOMAIN Wanted(h)
    BY <2>1 DEF Wanted, RoomRow
  <2>4. \A q \in DOMAIN db.rooms' :
            \/ q \in DOMAIN db.rooms /\ db.rooms'[q].ownerId = db.rooms[q].ownerId
            \/ q = r /\ db.rooms'[q].ownerId = owner
    <3>1. CASE UNCHANGED db
      BY <3>1
    <3>2. ASSUME NEW row, db' = [db EXCEPT !.rooms = WithRow(@, r, row)],
                 row.ownerId = owner \/ (r \in DOMAIN db.rooms /\ row.ownerId = OwnerOf(r))
          PROVE  <2>4!:
      <4>1. db.rooms' = WithRow(db.rooms, r, row)
        BY <3>2 DEF Typed, DbTyped, Tables
      <4>2. /\ DOMAIN db.rooms' = DOMAIN db.rooms \cup {r}
            /\ db.rooms'[r] = row
            /\ \A q \in DOMAIN db.rooms : q # r => db.rooms'[q] = db.rooms[q]
        BY <4>1 DEF WithRow
      <4> QED
        BY <3>2, <4>2 DEF OwnerOf
    <3>3. CASE RowInsert(h)
      BY <2>3, <3>2, <3>3 DEF RowInsert, PutRow
    <3>4. CASE RowUpdate(h) /\ HasRoom(r)
      <4> DEFINE row == [c \in DOMAIN db.rooms[r] |-> IF c \in handlers[h].save
                                                      THEN Wanted(h)[c] ELSE db.rooms[r][c]]
      <4>1. db' = [db EXCEPT !.rooms = WithRow(@, r, row)]
        BY <3>4 DEF RowUpdate, PutRow
      <4>2. "ownerId" \in DOMAIN db.rooms[r]
        BY <3>4 DEF HasRoom, Typed, DbTyped, RoomRow
      <4>3. row.ownerId \in {owner, OwnerOf(r)}
        BY <2>3, <4>2 DEF OwnerOf
      <4> HIDE DEF row
      <4> QED
        BY <3>2, <3>4, <4>1, <4>3 DEF HasRoom
    <3> QED
      BY <1>5, <3>1, <3>3, <3>4 DEF RowWrite, RowUpdate
  <2>5. \A g \in Handlers : Holding(g)' => /\ g # h /\ Holding(g) /\ handlers'[g] = handlers[g]
                                           /\ handlers[g].room = r => handlers[g].was.ownerId = owner
    BY <1>1, <2>1, <2>2 DEF OwnersAgree, Holding
  <2>6. \A g \in Handlers : Creating(g)' => /\ g # h /\ Creating(g) /\ handlers'[g] = handlers[g]
                                            /\ handlers[g].room = r => handlers[g].user = owner
    BY <1>1, <2>1, <2>2 DEF OwnersAgree, Creating, Running
  <2>7. ASSUME NEW g \in Handlers
        PROVE  (Holding(g) /\ HasRoom(handlers[g].room) =>
                    OwnerOf(handlers[g].room) = handlers[g].was.ownerId)'
    BY <2>4, <2>5 DEF OwnersAgree, HasRoom, OwnerOf
  <2>8. ASSUME NEW f \in Handlers, NEW g \in Handlers
        PROVE  (Holding(f) /\ Holding(g) /\ handlers[f].room = handlers[g].room =>
                    handlers[f].was.ownerId = handlers[g].was.ownerId)'
    BY <2>5 DEF OwnersAgree
  <2>9. ASSUME NEW f \in Handlers, Creating(f)'
        PROVE  (/\ HasRoom(handlers[f].room) => OwnerOf(handlers[f].room) = handlers[f].user
                /\ \A g \in Handlers :
                      Holding(g) /\ handlers[g].room = handlers[f].room =>
                          handlers[g].was.ownerId = handlers[f].user)'
    BY <2>4, <2>5, <2>6, <2>9 DEF OwnersAgree, HasRoom, OwnerOf
  <2> QED
    BY <2>7, <2>8, <2>9 DEF OwnersAgree
<1>6. CASE ~CreateRoom(h) /\ ~RowLoad(h) /\ ~RowReload(h) /\ ~RowWrite(h)
  BY <1>1, <1>6, OtherSteps, AgreeKept DEF OwnerOf
<1> QED
  BY <1>2, <1>3, <1>4, <1>5, <1>6

\* Whoever is a member as an owner is the owner; a room whose creation was reported
\* and whose deletion nobody has begun is there, with its owner's membership.
OwnersIn ==
    /\ \A m \in db.members : m.role = "owner" => db.rooms[m.room].ownerId = m.user
    /\ \A r \in Settled :
          r \in DOMAIN db.rooms /\ \E m \in db.members : m.room = r /\ m.role = "owner"
    /\ \A h \in Handlers : Closing(h) => handlers[h].room \in past.closing

\* Nothing happens to rooms that are there or to their members.
LEMMA InKept ==
    ASSUME Typed, OwnersIn, NEW h \in Handlers,
           \A g \in Handlers \ {h} : handlers'[g] = handlers[g],
           Closing(h)' => handlers'[h].room \in past.closing',
           db.members' = db.members,
           \A r \in DOMAIN db.rooms :
              r \in DOMAIN db.rooms' /\ db.rooms'[r].ownerId = db.rooms[r].ownerId,
           past.created' = past.created, past.closing \subseteq past.closing'
    PROVE  OwnersIn'
PROOF
<1>1. \A m \in db.members : m.room \in DOMAIN db.rooms
  BY DEF Typed, DbTyped, MemberRow
<1>2. \A m \in db.members' : m.role = "owner" => db.rooms'[m.room].ownerId = m.user
  BY <1>1 DEF OwnersIn
<1>3. \A r \in Settled' :
          r \in DOMAIN db.rooms' /\ \E m \in db.members' : m.room = r /\ m.role = "owner"
  BY DEF OwnersIn, Settled
<1>4. \A g \in Handlers : Closing(g)' => handlers'[g].room \in past.closing'
  BY DEF OwnersIn, Closing
<1> QED
  BY <1>2, <1>3, <1>4 DEF OwnersIn

\* A member is added, an owner only to a room of theirs.
LEMMA InsertIn ==
    ASSUME Typed, OwnersIn, NEW h \in Handlers,
           \A g \in Handlers \ {h} : handlers'[g] = handlers[g], ~Closing(h)',
           NEW id, NEW r, NEW u, NEW role, InsertMember(id, r, u, role),
           role = "owner" => (r \in DOMAIN db.rooms => db.rooms[r].ownerId = u),
           past.closing' = past.closing,
           past.created' = IF role = "owner" /\ r \in DOMAIN db.rooms
                           THEN past.created \cup {r} ELSE past.created
    PROVE  OwnersIn'
PROOF
<1>1. CASE r \notin DOMAIN db.rooms
  <2>1. db.members' = db.members /\ db.rooms' = db.rooms
    BY <1>1 DEF InsertMember, HasRoom, Typed, DbTyped, Tables
  <2> QED
    BY <1>1, <2>1, InKept
<1>2. CASE r \in DOMAIN db.rooms
  <2> DEFINE new == Member(id, r, u, role)
  <2>1. new.room = r /\ new.user = u /\ new.role = role
    BY DEF Member
  <2>2. db.members' = db.members \cup {new} /\ db.rooms' = db.rooms
    BY <1>2 DEF InsertMember, HasRoom, Typed, DbTyped, Tables
  <2> HIDE DEF new
  <2>3. \A m \in db.members' : m.role = "owner" => db.rooms'[m.room].ownerId = m.user
    BY <1>2, <2>1, <2>2 DEF OwnersIn
  <2>4. \A q \in Settled' :
            q \in DOMAIN db.rooms' /\ \E m \in db.members' : m.room = q /\ m.role = "owner"
    BY <1>2, <2>1, <2>2 DEF OwnersIn, Settled
  <2>5. \A g \in Handlers : Closing(g)' => handlers'[g].room \in past.closing'
    BY DEF OwnersIn, Closing
  <2> QED
    BY <2>3, <2>4, <2>5 DEF OwnersIn
<1> QED
  BY <1>1, <1>2

\* A deletion takes rooms and members away, of its own room only.
LEMMA DeleteMembers ==
    ASSUME Typed, NEW h \in Handlers, DeleteStep(h)
    PROVE  /\ db.members' \subseteq db.members
           /\ \A m \in db.members : m.room # handlers[h].room => m \in db.members'
           /\ \A m \in db.members' : m.room \in DOMAIN db.rooms'
           /\ \A q \in DOMAIN db.rooms : q # handlers[h].room => q \in DOMAIN db.rooms'
           /\ \A q \in DOMAIN db.rooms' : db.rooms'[q] = db.rooms[q]
PROOF
<1> USE DEF Typed, PastTyped, DbTyped, Tables
<1> DEFINE r == handlers[h].room
           n == handlers[h].step
<1>1. n \in 1..6
  BY DEF DeleteStep, Running, HandlersTyped, Idle, Busy
<1>2. CASE n = 5
  <2>1. CASE UNCHANGED db
    BY <2>1 DEF MemberRow
  <2>2. CASE db' = [db EXCEPT !.rooms = [q \in DOMAIN @ \ {r} |-> @[q]]] /\ In(db.members, r) = {}
    <3>1. db.members' = db.members /\ db.rooms' = [q \in DOMAIN db.rooms \ {r} |-> db.rooms[q]]
      BY <2>2
    <3>2. \A m \in db.members : m.room # r /\ m.room \in DOMAIN db.rooms
      BY <2>2 DEF In, MemberRow
    <3> QED
      BY <3>1, <3>2
  <2>3. DeletionOrder[n] = "room"
    BY <1>2 DEF DeletionOrder
  <2> QED
    BY <2>1, <2>2, <2>3 DEF DeleteStep
<1>3. CASE n # 5
  <2>1. db' = [db EXCEPT ![DeletionOrder[n]] = @ \ In(@, r)]
    BY <1>3, DeleteStepTables
  <2>2. DeletionOrder[n] \in Tables \ {"rooms"}
    <3>1. n = 1 \/ n = 2 \/ n = 3 \/ n = 4 \/ n = 6
      BY <1>1, <1>3
    <3> QED
      BY <3>1 DEF DeletionOrder
  <2>3. \A t \in Tables : db'[t] = IF t = DeletionOrder[n] THEN db[t] \ In(db[t], r) ELSE db[t]
    BY <2>1, <2>2
  <2>4. db.rooms' = db.rooms /\ (db.members' = db.members \/ db.members' = db.members \ In(db.members, r))
    BY <2>2, <2>3
  <2> QED
    BY <2>4 DEF In, MemberRow
<1> QED
  BY <1>2, <1>3

\* A deletion touches its own room only, which is no longer settled.
LEMMA DeleteIn ==
    ASSUME Typed, OwnersIn, NEW h \in Handlers, DeleteStep(h)
    PROVE  OwnersIn'
PROOF
<1> USE DEF Typed, PastTyped, DbTyped, Tables
<1> DEFINE r == handlers[h].room
           n == handlers[h].step
<1>1. /\ handlers[h] \in Busy /\ n \in 1..6 /\ r \in past.closing
  BY DEF DeleteStep, Running, HandlersTyped, Idle, Busy, OwnersIn, Closing
<1>2. /\ \A g \in Handlers \ {h} : handlers'[g] = handlers[g]
      /\ handlers'[h] = Idle \/ handlers'[h].room = r
  <2>1. Reply(h) \/ handlers' = [handlers EXCEPT ![h].step = n + 1]
    BY DEF DeleteStep
  <2> QED
    BY <1>1, <2>1 DEF Reply, HandlersTyped, Busy
<1>3. past.created' = past.created /\ past.closing' = past.closing
  BY DEF DeleteStep
<1>4. /\ db.members' \subseteq db.members
      /\ \A m \in db.members : m.room # r => m \in db.members'
      /\ \A m \in db.members' : m.room \in DOMAIN db.rooms'
      /\ \A q \in DOMAIN db.rooms : q # r => q \in DOMAIN db.rooms'
      /\ \A q \in DOMAIN db.rooms' : db.rooms'[q] = db.rooms[q]
  BY DeleteMembers
<1>5. \A m \in db.members' : m.role = "owner" => db.rooms'[m.room].ownerId = m.user
  BY <1>4 DEF OwnersIn
<1>6. ASSUME NEW q \in Settled'
      PROVE  q \in DOMAIN db.rooms' /\ \E m \in db.members' : m.room = q /\ m.role = "owner"
  <2>1. q \in Settled /\ q # r
    BY <1>1, <1>3, <1>6 DEF Settled
  <2> QED
    BY <1>4, <2>1 DEF OwnersIn
<1>7. \A g \in Handlers : Closing(g)' => handlers'[g].room \in past.closing'
  BY <1>1, <1>2, <1>3 DEF OwnersIn, Closing, Idle
<1> QED
  BY <1>5, <1>6, <1>7 DEF OwnersIn

\* Every step keeps owners in their rooms.
LEMMA StepIn ==
    ASSUME Typed, OwnersAgree, OwnersIn, NEW h \in Handlers, Step(h)
    PROVE  OwnersIn'
PROOF
<1> USE DEF Typed, PastTyped, DbTyped, Tables
<1>1. /\ \A g \in Handlers \ {h} : handlers'[g] = handlers[g]
      /\ handlers[h] \in Busy
      /\ Closing(h)' => DeleteVerify(h) \/ DeleteFind(h) \/ DeleteStep(h)
  BY StepAt
<1>2. CASE DeleteStep(h)
  BY <1>2, DeleteIn
<1>3. CASE CreateMember(h)
  <2>1. Creating(h)
    BY <1>3 DEF CreateMember, Creating
  <2>2. ~Closing(h)'
    BY <1>3 DEF CreateMember, Reply, Closing, Idle, HandlersTyped
  <2>3. handlers[h].room \in DOMAIN db.rooms =>
            db.rooms[handlers[h].room].ownerId = handlers[h].user
    BY <2>1 DEF OwnersAgree, HasRoom, OwnerOf
  <2>4. /\ past.closing' = past.closing
        /\ past.created' = IF handlers[h].room \in DOMAIN db.rooms
                           THEN past.created \cup {handlers[h].room} ELSE past.created
    BY <1>3 DEF CreateMember, HasRoom
  <2> QED
    BY <1>1, <1>3, <2>2, <2>3, <2>4, InsertIn DEF CreateMember
<1>4. CASE JoinInsert(h)
  <2>1. ~Closing(h)'
    BY <1>4 DEF JoinInsert, Reply, Closing, Idle, HandlersTyped
  <2>2. past.closing' = past.closing /\ past.created' = past.created
    BY <1>4 DEF JoinInsert
  <2> QED
    BY <1>1, <1>4, <2>1, <2>2, InsertIn DEF JoinInsert
<1>5. CASE ~DeleteStep(h) /\ ~CreateMember(h) /\ ~JoinInsert(h)
  <2>1. past.created' = past.created /\ past.closing \subseteq past.closing'
    <3>1. CASE CreateRoom(h)
      BY <3>1 DEF CreateRoom, CreateRoomNext
    <3>2. CASE RowLoad(h) \/ RowReload(h) \/ RowWrite(h)
      BY <3>2 DEF RowLoad, RowReload, RowWrite
    <3> QED
      BY <1>5, <3>1, <3>2 DEF Step, Access, JoinFind, JoinLookup, DeleteVerify, DeleteFind,
         CreateComment, CommentFind, DeleteComment, CreateSnapshot, SnapshotFind, DeleteSnapshot,
         CanvasGet, CanvasSet, CanvasSave, RegisterFind, RegisterInsert, Insert, Delete, CanvasPut
  <2>2. Closing(h)' => handlers'[h].room \in past.closing'
    <3>1. CASE DeleteVerify(h)
      BY <1>1, <3>1 DEF DeleteVerify, Go, Reply, Closing, Idle, HandlersTyped, Busy
    <3>2. CASE DeleteFind(h)
      <4>1. handlers[h].room \in past.closing /\ past.closing' = past.closing
        BY <3>2 DEF DeleteFind, Running, OwnersIn, Closing
      <4> QED
        BY <1>1, <3>2, <4>1 DEF DeleteFind, Go, Reply, Closing, Idle, HandlersTyped, Busy
    <3> QED
      BY <1>1, <1>5, <3>1, <3>2
  <2>3. db.members' = db.members
    <3>1. CASE CreateRoom(h) \/ RowWrite(h) \/ RegisterInsert(h)
      BY <3>1 DEF CreateRoom, RowWrite, RowInsert, RowUpdate, PutRow, RegisterInsert
    <3>2. CASE \/ CreateComment(h) \/ DeleteComment(h) \/ CreateSnapshot(h) \/ DeleteSnapshot(h)
               \/ CanvasSet(h) \/ CanvasSave(h) \/ DeleteFind(h)
      BY <3>2 DEF CreateComment, DeleteComment, CreateSnapshot, DeleteSnapshot, CanvasSet,
         CanvasSave, Insert, Delete, CanvasPut, DeleteFind
    <3> QED
      BY <1>5, <3>1, <3>2 DEF Step, Access, JoinFind, JoinLookup, RowLoad, RowReload, DeleteVerify,
         CommentFind, SnapshotFind, CanvasGet, RegisterFind
  <2>4. \A r \in DOMAIN db.rooms :
            r \in DOMAIN db.rooms' /\ db.rooms'[r].ownerId = db.rooms[r].ownerId
    <3>1. CASE CreateRoom(h)
      <4>1. PICK r \in Rooms \ past.used :
                  db.rooms' = WithRow(db.rooms, r, Room(handlers[h].user, past.uuid, "new"))
        BY <3>1 DEF CreateRoom
      <4> QED
        BY <4>1 DEF WithRow
    <3>2. CASE RowWrite(h)
      <4> DEFINE r == handlers[h].room
      <4>1. Holding(h) /\ handlers[h].was \in RoomRow
        BY <3>2 DEF RowWrite, RowInsert, RowUpdate, Holding, HandlersTyped
      <4>2. Wanted(h).ownerId = handlers[h].was.ownerId /\ "ownerId" \in DOMAIN Wanted(h)
        BY <4>1 DEF Wanted, RoomRow
      <4>3. r \in DOMAIN db.rooms => Wanted(h).ownerId = db.rooms[r].ownerId
        BY <4>1, <4>2 DEF OwnersAgree, HasRoom, OwnerOf
      <4>4. ASSUME NEW row, db' = [db EXCEPT !.rooms = WithRow(@, r, row)],
                   r \in DOMAIN db.rooms => row.ownerId = db.rooms[r].ownerId
            PROVE  <2>4!:
        <5>1. db.rooms' = WithRow(db.rooms, r, row)
          BY <4>4
        <5> QED
          BY <4>4, <5>1 DEF WithRow
      <4>5. CASE RowInsert(h)
        BY <4>3, <4>4, <4>5 DEF RowInsert, PutRow
      <4>6. CASE RowUpdate(h) /\ HasRoom(r)
        <5> DEFINE row == [c \in DOMAIN db.rooms[r] |-> IF c \in handlers[h].save
                                                        THEN Wanted(h)[c] ELSE db.rooms[r][c]]
        <5>1. db' = [db EXCEPT !.rooms = WithRow(@, r, row)]
          BY <4>6 DEF RowUpdate, PutRow
        <5>2. "ownerId" \in DOMAIN db.rooms[r]
          BY <4>6 DEF HasRoom, RoomRow
        <5>3. row.ownerId = db.rooms[r].ownerId
          BY <4>3, <4>6, <5>2 DEF HasRoom
        <5> HIDE DEF row
        <5> QED
          BY <4>4, <5>1, <5>3
      <4> QED
        BY <3>2, <4>5, <4>6 DEF RowWrite, RowUpdate
    <3>3. CASE db.rooms' = db.rooms
      BY <3>3
    <3>4. CASE \/ CreateComment(h) \/ DeleteComment(h) \/ CreateSnapshot(h) \/ DeleteSnapshot(h)
               \/ CanvasSet(h) \/ CanvasSave(h) \/ DeleteFind(h) \/ RegisterInsert(h)
      BY <3>3, <3>4 DEF CreateComment, DeleteComment, CreateSnapshot, DeleteSnapshot, CanvasSet,
         CanvasSave, Insert, Delete, CanvasPut, DeleteFind, RegisterInsert
    <3> QED
      BY <1>5, <3>1, <3>2, <3>3, <3>4 DEF Step, Access, JoinFind, JoinLookup, RowLoad, RowReload,
         DeleteVerify, CommentFind, SnapshotFind, CanvasGet, RegisterFind
  <2> QED
    BY <1>1, <2>1, <2>2, <2>3, <2>4, InKept
<1> QED
  BY <1>2, <1>3, <1>4, <1>5

OwnerInv == OwnersAgree /\ OwnersIn

InitialMembers(guests) ==
    db.members = {Member(2, Existing, Owner, "owner")} \cup
                 {Member(3, Existing, u, "editor") : u \in guests}

\* Some of the users are in the first room as guests.
LEMMA Guests ==
    ASSUME Init
    PROVE  \E guests \in SUBSET (Users \ {Owner}) : InitialMembers(guests)
PROOF
<1>1. ASSUME NEW members
      PROVE  [rooms |-> [r \in {Existing} |-> Room(Owner, 1, "old")], members |-> members,
              comments |-> {Item(4, Existing, Owner, FALSE)},
              snapshots |-> {Item(5, Existing, Owner, FALSE)},
              canvases |-> {CanvasOf(Existing, FALSE)}, live |-> {CanvasOf(Existing, FALSE)},
              users |-> <<>>].members = members
  OBVIOUS
<1> QED
  BY <1>1, Zenon DEF Init, InitialMembers

\* Owners never change, and they are in their rooms.
LEMMA OwnerInvariant == Spec => []OwnerInv
PROOF
<1>1. Init => OwnerInv
  <2> SUFFICES ASSUME Init
               PROVE  OwnerInv
    OBVIOUS
  <2>1. \A h \in Handlers : ~Holding(h) /\ ~Creating(h) /\ ~Closing(h)
    BY DEF Init, Holding, Creating, Closing, Running, Idle
  <2>2. /\ DOMAIN db.rooms = {Existing} /\ db.rooms[Existing].ownerId = Owner
        /\ past.created = {Existing}
    BY DEF Init, Room
  <2>3. PICK guests \in SUBSET (Users \ {Owner}) : InitialMembers(guests)
    BY Guests
  <2>4. /\ \A m \in db.members : m.role = "owner" => m.room = Existing /\ m.user = Owner
        /\ \E m \in db.members : m.room = Existing /\ m.role = "owner"
    <3> DEFINE owner == Member(2, Existing, Owner, "owner")
    <3>1. owner.room = Existing /\ owner.user = Owner /\ owner.role = "owner"
      BY DEF Member
    <3>2. \A u \in guests : Member(3, Existing, u, "editor").role # "owner"
      BY DEF Member
    <3>3. \A m \in db.members : m = owner \/ \E u \in guests : m = Member(3, Existing, u, "editor")
      BY <2>3 DEF InitialMembers
    <3>4. owner \in db.members
      BY <2>3 DEF InitialMembers
    <3> HIDE DEF owner
    <3> QED
      BY <3>1, <3>2, <3>3, <3>4
  <2> QED
    BY <2>1, <2>2, <2>4 DEF OwnerInv, OwnersAgree, OwnersIn, Settled
<1>2. Typed /\ OwnerInv /\ [Next]_vars => OwnerInv'
  <2> SUFFICES ASSUME Typed, OwnerInv, [Next]_vars
               PROVE  OwnerInv'
    OBVIOUS
  <2>1. ASSUME NEW h \in Handlers, Request(h) \/ Fail(h)
        PROVE  OwnerInv'
    <3>1. \A g \in Handlers \ {h} : handlers'[g] = handlers[g]
      BY <2>1, RequestKept, ReplyMoves DEF Fail
    <3>2. ~Holding(h)' /\ ~Creating(h)'
      BY <2>1, RequestKept DEF Fail, Reply, Idle, Holding, Creating, Running, Starts, Typed,
         HandlersTyped
    <3>3. ~Closing(h)'
      <4>1. CASE Request(h)
        BY <4>1, RequestOps DEF Closing
      <4>2. CASE Fail(h)
        BY <4>2 DEF Fail, Reply, Idle, Closing, Typed, HandlersTyped
      <4> QED
        BY <2>1, <4>1, <4>2
    <3>4. UNCHANGED db /\ past.created' = past.created /\ past.closing' = past.closing
      BY <2>1, RequestKept DEF Fail, Typed, PastTyped
    <3>5. OwnersAgree'
      BY <3>1, <3>2, <3>4, AgreeKept DEF OwnerInv, OwnerOf
    <3>6. OwnersIn'
      BY <3>1, <3>3, <3>4, InKept DEF OwnerInv
    <3> QED
      BY <3>5, <3>6 DEF OwnerInv
  <2>2. ASSUME NEW h \in Handlers, Step(h)
        PROVE  OwnerInv'
    BY <2>2, StepAgree, StepIn DEF OwnerInv
  <2>3. ASSUME UNCHANGED <<db, handlers>>, past.created' = past.created,
               past.closing' = past.closing
        PROVE  OwnerInv'
    BY <2>3 DEF OwnerInv, OwnersAgree, OwnersIn, Settled, Holding, Creating, Closing, Running,
       HasRoom, OwnerOf
  <2>4. ASSUME NEW u \in Users, NEW r \in Rooms, Share(u, r)
        PROVE  OwnerInv'
    BY <2>3, <2>4 DEF Share, Typed, PastTyped
  <2>5. CASE UNCHANGED vars
    BY <2>3, <2>5 DEF vars
  <2> QED
    BY <2>1, <2>2, <2>4, <2>5 DEF Next
<1> QED
  BY <1>1, <1>2, TypedInvariant, PTL DEF Spec

\* The dashboard and the access check agree (rooms.service.ts:81), for any number
\* of requests that overlap and fail: owners are members, and every other member
\* is an editor.
THEOREM WhatIsListedOpensHolds == Spec => []WhatIsListedOpens
PROOF
<1>1. Typed /\ OwnerInv => WhatIsListedOpens
  <2> SUFFICES ASSUME Typed, OwnerInv, NEW r \in Settled, NEW u \in Users
               PROVE  r \in getMyRooms(u) \cup getSharedRooms(u) <=> IsMember(u, r)
    BY DEF WhatIsListedOpens
  <2>1. /\ r \in DOMAIN db.rooms
        /\ \A m \in db.members : m.role = "owner" => db.rooms[m.room].ownerId = m.user
    BY DEF OwnerInv, OwnersIn
  <2>2. PICK m \in db.members : m.room = r /\ m.role = "owner"
    BY DEF OwnerInv, OwnersIn
  <2>3. \A n \in db.members : n.role \in {"owner", "editor"}
    BY DEF Typed, DbTyped, MemberRow
  <2>4. r \in getMyRooms(u) <=> db.rooms[r].ownerId = u
    BY <2>1 DEF getMyRooms
  <2>5. r \in getSharedRooms(u) <=>
            \E n \in db.members : n.user = u /\ n.role = "editor" /\ n.room = r
    BY DEF getSharedRooms
  <2> QED
    BY <2>1, <2>2, <2>3, <2>4, <2>5 DEF IsMember
<1> QED
  BY <1>1, TypedInvariant, OwnerInvariant, PTL

-----------------------------------------------------------------------------
(* One membership each.                                                    *)

\* Whoever is about to become a member is not one yet and is about to become one
\* only once, and nobody is a member twice.
MemberHold ==
    /\ \A h \in Handlers : Admits(h) => ~IsMember(handlers[h].user, handlers[h].room)
    /\ \A f \in Handlers, g \in Handlers :
          /\ Admits(f) /\ Admits(g)
          /\ handlers[f].user = handlers[g].user /\ handlers[f].room = handlers[g].room
          => f = g
    /\ \A m \in db.members, n \in db.members : m.user = n.user /\ m.room = n.room => m = n

MemberInv == ~past.doubled => MemberHold

\* Nobody is admitted and no membership added.
LEMMA MemberKept ==
    ASSUME MemberInv, NEW h \in Handlers,
           \A g \in Handlers \ {h} : handlers'[g] = handlers[g], ~Admits(h)',
           db.members' \subseteq db.members, past.doubled => past.doubled'
    PROVE  MemberInv'
PROOF
<1> SUFFICES ASSUME ~past.doubled'
             PROVE  MemberHold'
  BY DEF MemberInv
<1>1. MemberHold
  BY DEF MemberInv
<1>2. \A g \in Handlers : Admits(g)' => g # h /\ Admits(g) /\ handlers'[g] = handlers[g]
  BY DEF Admits, Creating, Running
<1> QED
  BY <1>1, <1>2 DEF MemberHold, IsMember

\* A user who is no member is admitted.
LEMMA AdmitKept ==
    ASSUME MemberInv, NEW h \in Handlers,
           \A g \in Handlers \ {h} : handlers'[g] = handlers[g],
           db.members' = db.members, past.doubled => past.doubled',
           ~past.doubled' => /\ ~IsMember(handlers'[h].user, handlers'[h].room)
                             /\ \A g \in Handlers \ {h} :
                                   /\ Admits(g)
                                   /\ handlers[g].user = handlers'[h].user
                                   => handlers[g].room # handlers'[h].room
    PROVE  MemberInv'
PROOF
<1> SUFFICES ASSUME ~past.doubled'
             PROVE  MemberHold'
  BY DEF MemberInv
<1>1. MemberHold
  BY DEF MemberInv
<1>2. \A g \in Handlers : Admits(g)' /\ g # h => Admits(g) /\ handlers'[g] = handlers[g]
  BY DEF Admits, Creating, Running
<1>3. ASSUME NEW g \in Handlers, Admits(g)'
      PROVE  ~IsMember(handlers[g].user, handlers[g].room)'
  BY <1>1, <1>2, <1>3 DEF MemberHold, IsMember
<1>4. ASSUME NEW f \in Handlers, NEW g \in Handlers, Admits(f)', Admits(g)',
             handlers'[f].user = handlers'[g].user, handlers'[f].room = handlers'[g].room
      PROVE  f = g
  BY <1>1, <1>2, <1>4 DEF MemberHold
<1>5. (\A m \in db.members, n \in db.members : m.user = n.user /\ m.room = n.room => m = n)'
  BY <1>1 DEF MemberHold
<1> QED
  BY <1>3, <1>4, <1>5 DEF MemberHold

\* The membership of a user who was admitted is inserted.
LEMMA InsertKept ==
    ASSUME Typed, MemberInv, NEW h \in Handlers, Admits(h), ~Admits(h)',
           \A g \in Handlers \ {h} : handlers'[g] = handlers[g],
           NEW id, NEW role, InsertMember(id, handlers[h].room, handlers[h].user, role),
           past.doubled => past.doubled'
    PROVE  MemberInv'
PROOF
<1> SUFFICES ASSUME ~past.doubled'
             PROVE  MemberHold'
  BY DEF MemberInv
<1> DEFINE new == Member(id, handlers[h].room, handlers[h].user, role)
<1>1. MemberHold
  BY DEF MemberInv
<1>2. new.user = handlers[h].user /\ new.room = handlers[h].room
  BY DEF Member
<1>3. \A m \in db.members' : m \in db.members \/ m = new
  BY DEF InsertMember, Typed, DbTyped, Tables
<1>4. \A g \in Handlers : Admits(g)' => g # h /\ Admits(g) /\ handlers'[g] = handlers[g]
  BY DEF Admits, Creating, Running
<1>5. \A m \in db.members : m.user # new.user \/ m.room # new.room
  BY <1>1, <1>2 DEF MemberHold, IsMember
<1> HIDE DEF new
<1>6. ASSUME NEW g \in Handlers, Admits(g)'
      PROVE  ~IsMember(handlers[g].user, handlers[g].room)'
  <2>1. ~IsMember(handlers[g].user, handlers[g].room)
    BY <1>1, <1>4, <1>6 DEF MemberHold
  <2>2. new.user # handlers[g].user \/ new.room # handlers[g].room
    BY <1>1, <1>2, <1>4, <1>6 DEF MemberHold
  <2> QED
    BY <1>3, <1>4, <1>6, <2>1, <2>2 DEF IsMember
<1>7. ASSUME NEW f \in Handlers, NEW g \in Handlers, Admits(f)', Admits(g)',
             handlers'[f].user = handlers'[g].user, handlers'[f].room = handlers'[g].room
      PROVE  f = g
  BY <1>1, <1>4, <1>7 DEF MemberHold
<1>8. (\A m \in db.members, n \in db.members : m.user = n.user /\ m.room = n.room => m = n)'
  BY <1>1, <1>3, <1>5 DEF MemberHold
<1> QED
  BY <1>6, <1>7, <1>8 DEF MemberHold

\* Every step keeps memberships single.
LEMMA StepMember ==
    ASSUME Typed, MemberInv, NEW h \in Handlers, Step(h)
    PROVE  MemberInv'
PROOF
<1> USE DEF Typed, PastTyped, DbTyped, Tables
<1>1. /\ \A g \in Handlers \ {h} : handlers'[g] = handlers[g]
      /\ handlers[h] \in Busy
      /\ Admits(h)' => CreateRoom(h) \/ JoinLookup(h)
  BY StepAt
<1>2. CASE CreateMember(h)
  <2>1. ~Admits(h)'
    BY <1>2 DEF CreateMember, Reply, Admits, Creating, Running, Idle, HandlersTyped
  <2>2. Admits(h) /\ (past.doubled => past.doubled')
    BY <1>2 DEF CreateMember, Admits, Creating
  <2> QED
    BY <1>1, <1>2, <2>1, <2>2, InsertKept DEF CreateMember
<1>3. CASE JoinInsert(h)
  <2>1. ~Admits(h)'
    BY <1>3 DEF JoinInsert, Reply, Admits, Creating, Running, Idle, HandlersTyped
  <2>2. Admits(h) /\ (past.doubled => past.doubled')
    BY <1>3 DEF JoinInsert, Admits
  <2> QED
    BY <1>1, <1>3, <2>1, <2>2, InsertKept DEF JoinInsert
<1>4. CASE CreateRoom(h)
  <2>1. PICK r \in Rooms \ past.used :
            /\ db' = [db EXCEPT !.rooms = WithRow(@, r, Room(handlers[h].user, past.uuid, "new"))]
            /\ CreateRoomNext(h, r)
    BY <1>4 DEF CreateRoom
  <2>2. handlers'[h].room = r /\ db.members' = db.members /\ (past.doubled => past.doubled')
    BY <1>1, <2>1 DEF CreateRoomNext, HandlersTyped, Busy
  <2>3. \A m \in db.members : m.room # r
    BY DEF MemberRow
  <2>4. \A g \in Handlers : Admits(g) => handlers[g].room # r
    BY DEF Admits, Creating, Running, HandlersTyped, Idle
  <2> QED
    BY <1>1, <2>2, <2>3, <2>4, AdmitKept DEF IsMember
<1>5. CASE JoinLookup(h)
  <2> DEFINE u == handlers[h].user
             r == handlers[h].room
  <2>1. db.members' = db.members
    BY <1>5 DEF JoinLookup
  <2>2. CASE IsMember(u, r)
    <3>1. ~Admits(h)' /\ (past.doubled => past.doubled')
      BY <1>5, <2>2 DEF JoinLookup, AlreadyMember, Reply, Admits, Creating, Running, Idle,
         HandlersTyped
    <3> QED
      BY <1>1, <2>1, <3>1, MemberKept
  <2>3. CASE ~IsMember(u, r)
    <3>1. /\ Go(h, "insert")
          /\ past' = [past EXCEPT !.doubled = @ \/ Admitting(u, r)]
      BY <1>5, <2>3 DEF JoinLookup, AlreadyMember
    <3>2. handlers'[h].user = u /\ handlers'[h].room = r
      BY <1>1, <3>1 DEF Go, HandlersTyped, Busy
    <3>3. past.doubled' <=> past.doubled \/ Admitting(u, r)
      BY <3>1
    <3>4. ~past.doubled' =>
              \A g \in Handlers \ {h} :
                  Admits(g) /\ handlers[g].user = u => handlers[g].room # r
      BY <3>3 DEF Admitting, Admits, Creating
    <3> QED
      BY <1>1, <2>1, <2>3, <3>2, <3>3, <3>4, AdmitKept
  <2> QED
    BY <2>2, <2>3
<1>6. CASE ~CreateMember(h) /\ ~JoinInsert(h) /\ ~CreateRoom(h) /\ ~JoinLookup(h)
  <2>1. past.doubled => past.doubled'
    BY <1>6 DEF Step, Access, JoinFind, RowLoad, RowReload, RowWrite, DeleteVerify, DeleteFind,
       DeleteStep, CreateComment, CommentFind, DeleteComment, CreateSnapshot, SnapshotFind,
       DeleteSnapshot, CanvasGet, CanvasSet, CanvasSave, RegisterFind, RegisterInsert, Insert,
       Delete, CanvasPut
  <2>2. db.members' \subseteq db.members
    <3>1. CASE DeleteStep(h)
      BY <3>1, DeleteMembers
    <3>2. CASE RowWrite(h) \/ RegisterInsert(h)
      BY <3>2 DEF RowWrite, RowInsert, RowUpdate, PutRow, RegisterInsert
    <3>3. CASE \/ CreateComment(h) \/ DeleteComment(h) \/ CreateSnapshot(h) \/ DeleteSnapshot(h)
               \/ CanvasSet(h) \/ CanvasSave(h) \/ DeleteFind(h)
      BY <3>3 DEF CreateComment, DeleteComment, CreateSnapshot, DeleteSnapshot, CanvasSet,
         CanvasSave, Insert, Delete, CanvasPut, DeleteFind
    <3> QED
      BY <1>6, <3>1, <3>2, <3>3 DEF Step, Access, JoinFind, RowLoad, RowReload, DeleteVerify,
         CommentFind, SnapshotFind, CanvasGet, RegisterFind
  <2> QED
    BY <1>1, <1>6, <2>1, <2>2, MemberKept
<1> QED
  BY <1>2, <1>3, <1>4, <1>5, <1>6

\* Memberships are single throughout, while nobody was admitted twice at once.
LEMMA MemberInvariant == Spec => []MemberInv
PROOF
<1>1. Init => MemberInv
  <2> SUFFICES ASSUME Init
               PROVE  MemberHold
    BY DEF MemberInv
  <2>1. \A h \in Handlers : ~Admits(h)
    BY DEF Init, Admits, Creating, Running, Idle
  <2>2. PICK guests \in SUBSET (Users \ {Owner}) : InitialMembers(guests)
    BY Guests
  <2>3. \A m \in db.members :
            \/ m = Member(2, Existing, Owner, "owner")
            \/ \E u \in guests : m = Member(3, Existing, u, "editor")
    BY <2>2 DEF InitialMembers
  <2>4. \A m \in db.members, n \in db.members : m.user = n.user /\ m.room = n.room => m = n
    BY <2>3 DEF Member
  <2> QED
    BY <2>1, <2>4 DEF MemberHold
<1>2. Typed /\ MemberInv /\ [Next]_vars => MemberInv'
  <2> SUFFICES ASSUME Typed, MemberInv, [Next]_vars
               PROVE  MemberInv'
    OBVIOUS
  <2>1. ASSUME NEW h \in Handlers, Request(h) \/ Fail(h)
        PROVE  MemberInv'
    <3>1. \A g \in Handlers \ {h} : handlers'[g] = handlers[g]
      BY <2>1, RequestKept, ReplyMoves DEF Fail
    <3>2. ~Admits(h)'
      <4>1. CASE Request(h)
        BY <4>1, RequestOps
      <4>2. CASE Fail(h)
        BY <4>2 DEF Fail, Reply, Idle, Admits, Creating, Running, Typed, HandlersTyped
      <4> QED
        BY <2>1, <4>1, <4>2
    <3>3. UNCHANGED db /\ past.doubled' = past.doubled
      BY <2>1, RequestKept DEF Fail, Typed, PastTyped
    <3> QED
      BY <3>1, <3>2, <3>3, MemberKept
  <2>2. ASSUME NEW h \in Handlers, Step(h)
        PROVE  MemberInv'
    BY <2>2, StepMember
  <2>3. ASSUME UNCHANGED <<db, handlers>>, past.doubled' = past.doubled
        PROVE  MemberInv'
    BY <2>3 DEF MemberInv, MemberHold, Admits, Creating, Running, IsMember
  <2>4. ASSUME NEW u \in Users, NEW r \in Rooms, Share(u, r)
        PROVE  MemberInv'
    BY <2>3, <2>4 DEF Share, Typed, PastTyped
  <2>5. CASE UNCHANGED vars
    BY <2>3, <2>5 DEF vars
  <2> QED
    BY <2>1, <2>2, <2>4, <2>5 DEF Next
<1> QED
  BY <1>1, <1>2, TypedInvariant, PTL DEF Spec

\* All access checks go through one table (rooms.service.ts:46), for any number of
\* requests: unless a user was admitted twice at once, a user has one membership
\* in a room, and it says who owns the room.
THEOREM OneMembershipEachHolds == Spec => []OneMembershipEach
PROOF
<1>1. OwnerInv /\ MemberInv => OneMembershipEach
  <2> SUFFICES ASSUME OwnerInv, MemberInv, ~past.doubled, NEW r \in Settled,
                      NEW m \in In(db.members, r), NEW n \in In(db.members, r)
               PROVE  /\ m.user = n.user => m = n
                      /\ m.role = "owner" <=> m.user = db.rooms[r].ownerId
    BY DEF OneMembershipEach
  <2>1. m \in db.members /\ n \in db.members /\ m.room = r /\ n.room = r
    BY DEF In
  <2>2. \A p \in db.members, q \in db.members : p.user = q.user /\ p.room = q.room => p = q
    BY DEF MemberInv, MemberHold
  <2>3. PICK o \in db.members : o.room = r /\ o.role = "owner"
    BY DEF OwnerInv, OwnersIn
  <2>4. \A p \in db.members : p.role = "owner" => db.rooms[p.room].ownerId = p.user
    BY DEF OwnerInv, OwnersIn
  <2> QED
    BY <2>1, <2>2, <2>3, <2>4
<1> QED
  BY <1>1, OwnerInvariant, MemberInvariant, PTL
=============================================================================
