# System Design Collab in TLA+

A verification project for this repository: several users edit one diagram in a
room; a NestJS server keeps a live copy of it in Redis and a durable one in
PostgreSQL, and warns of architectural mistakes; every page keeps a replica. The
modules here model the copies and what moves between them, the rooms and who may
enter them, the sessions in a room, one user's editor, and the warning rules. TLC
checks them on small instances, and TLAPS proves the central invariants for every
size.

Paths below are relative to the repository root.

## 1. Inventory

| Component | State | Operations | What makes it correct |
|---|---|---|---|
| Canvas operations, `server/src/canvas/ot.ts` | none (pure) | the six cases of `applyOperation` | unique ids, no edge without its ends, idempotent, commuting unless one operation decides over the other |
| Canvas sync service, `server/src/canvas/canvas-sync.service.ts` with `redis/redis.service.ts` | `canvas:<room>` keys, `dirtyRooms`, handlers in flight | `applyOperation`, `warmRoom`, `getLiveState`, `restoreState`, `flushRoom`, the 5 s loop | no acknowledged edit is lost, revisions go up, a changed room is marked or being worked on, every change is eventually durable |
| Canvas state service, `server/src/canvas/canvas-state.service.ts` | `canvas_states` rows | `saveCanvasState` (PUT), `persistState`, reads | a row is a canvas that existed, and no older one replaces a newer one |
| Snapshots service, `server/src/snapshots/` | `snapshots` rows | create, list, delete | a snapshot is the live canvas, well formed |
| Canvas gateway, `server/src/canvas/canvas.gateway.ts` | Socket.IO rooms, `socketMeta`, `cursorLastSeen`, debounce timers | join, operation, restore, cursor, disconnect, broadcasts | everyone hears of every change in the server's order |
| Client replica, `client/src/hooks/useCollaboration.ts`, `store/canvasStore.ts`, `components/canvas/Canvas.tsx` | nodes, edges, `serverRevision`, `isApplyingRemote` | local edits, four server messages | once nothing is on its way, it shows the server's canvas |
| Client editor, `components/canvas/Canvas.tsx`, `components/canvas/nodes/BaseNode.tsx` | pending connection, context menu, label being edited, `isApplyingRemote` | connect and choose a type, dismiss, delete, drag, rename | what is half done stays on the page; what is done reaches everybody |
| Client socket, `client/src/services/socketService.ts` | socket, `pendingEmits` | connect, emit, reconnect, leave | nothing done offline is lost or replaced in silence |
| Rooms, `server/src/rooms/` | `rooms`, `room_members` rows | create, join by token, regenerate, rename, delete | one membership per user, a revoked token stays revoked, nothing of a deleted room remains or returns |
| Presence, gateway + Redis hash `room:<room>:users` | active users, cursors | join, disconnect, cursor | the list is the users with a socket in the room; the last one to go flushes it |
| Warning engine, `server/src/warnings/` | none (pure) | 18 rules | rules written apart agree; a rule follows edits as its description says |
| Comments, `server/src/comments/`; snapshots panel | rows, lists on the pages | create, list, delete, broadcast | lists converge; no row survives its room |
| Authentication, `server/src/auth/` | `users` rows, JWTs | register, login | who registered can log in |
| Room page, other pages, API clients | view state | requests | they make the requests above; nothing else of them is modelled |
| Landing page, styles, toasts, node catalogue; bootstrap, configuration, validation | - | - | not modelled (section 6) |

How they interact: a client sends `joinRoom`, `canvasOperation` and
`canvasRestore` over a WebSocket; the gateway calls the sync service, which
reads and writes Redis at each request and PostgreSQL on a cold join, in a
restore and in a flush; the gateway answers the sender and sends the rest of the
room `operationBroadcast` or `canvasRestored`. A disconnect of the last user and
a timer flush Redis to PostgreSQL. Snapshots and the PUT save come over HTTP.
Rooms and comments come over HTTP and broadcast through the gateway, and so does
the analysis of a canvas, half a second after its last edit.

What is hard: no handler holds a lock, and each of them awaits between reading
and writing; the same canvas exists in three places; the dirty marks are in
memory only; messages of overlapping handlers leave in the order in which the
handlers resume; clients apply remote edits unchecked and over their own. No
transaction groups the queries of a request, which may overlap another one of the
same room or fail half way: deleting a room is six deletions. Presence is kept by
user while users have several sockets; a connection can be lost at any moment, and
what was fetched over HTTP meets what was broadcast meanwhile. The list of hazards, each with its line, is in `PROJECT.json`.

## 2. Modules

| Module | Models | Kind |
|---|---|---|
| `Canvas` | the data and `applyOperation`, as total operators on sets | data and algorithm |
| `MCCanvas` | the canvases that operations can reach; properties of the operations | for TLC |
| `LiveCanvas` | what the server promises: one live canvas per room, edited in one step, never evicted before it is durable | abstract specification |
| `CanvasSync` | the two stores and every handler that touches them, one action per await | detailed specification |
| `MCCanvasSync` | instances of it | for TLC |
| `Collaboration` | clients, gateway and the messages between them, over the live canvas of `LiveCanvas` | composition |
| `MCCollaboration` | instances of it | for TLC |
| `Rooms` | rooms, members, links, comments, snapshots, canvases and accounts as rows; one action per query of each request | detailed specification |
| `RoomSession` | the tabs in one room: sockets, presence, cursors, lists, warnings, the deletion of the room | composition of client and gateway |
| `CanvasEditor` | one page's editor with what stays open on it; everybody else is an environment | detailed specification over `Canvas` |
| `WarningEngine` | the 18 rules as sets of nodes | algorithm |
| `CanvasAnalysis` | a canvas that is edited and analyzed; properties of the rules, and the reference definition of a chain | state machine over it |
| `MCRooms`, `MCRoomSession`, `MCCanvasEditor`, `MCWarningEngine` | instances | for TLC |
| `CanvasProofs`, `EditingProofs`, `CanvasSyncProofs`, `CollaborationProofs`, `EditorProofs`, `RoomsProofs`, `SessionProofs`, `WarningProofs` | lemmas and theorems about the modules above | for TLAPS |

### Canvas

Arrays are sets (their order only decides how items are drawn). Positions,
labels and edge types are opaque. React Flow builds the id of an edge from its
ends, so `Ends` is a function of the id: two edges between one pair of nodes
have one id. `Sanitize` stands for `sanitizeText` (sanitize-html without tags):
a function on labels, assumed idempotent because it decodes entities before it
encodes them. `moveNode` and `updateNode` of the code assign into the node they
found although the header says that the original is not changed; each state is
parsed afresh from Redis, so nobody can see the difference.

### CanvasSync

Node runs one handler at a time and switches at each `await`. `task[p]` is one
handler in flight: the await it is in (`pc`), its room, its argument, the canvas
in its hands (`state`), the row its save has read (`base`) and the rooms a flush
still has to do (`todo`). An action is the code from one await to the next.

* **Redis** is one ioredis connection: commands take effect in the order of
  issue and answers come in that order. So a command takes effect in the action
  that issues it, and `redisQ` lists the handlers awaiting an answer, of which
  only the first resumes.
* **PostgreSQL** is a pool: a query runs at any moment after it is issued and its
  answer arrives later still.
* **`repository.save`** of TypeORM is two queries: it reads the row, then inserts
  it, or updates the columns that differ from what it has read (`ReadRow`,
  `Written`). Two first saves collide on the primary key (`Collide`). The
  `findOne` with which `persistState` starts has no effect beyond those two: it
  only decides which object is given to `save`, which reads the row again by its
  id.
* **Failures**: `Fault` rejects the command a handler awaits. Handlers of requests
  answer with an error. The promise of a flush is not awaited by anybody, so its
  rejection ends the process, as in every Node since 15: memory is gone
  (`Restart`). `Crash` is the same at any moment. A query in flight at that moment
  has either run or never will.
* **Expiry** takes the key of a room that is not marked and on which no handler
  works: the hour of its TTL, renewed by each edit, join and restore, outlasts
  both.
* `past` and `torn` are history variables. `past[r]` collects the canvases that
  were live, or saved by a user, in room `r`; `torn` says that some save has
  written over a row that changed after the save had read it.

* **Requests** come at any time and in any order. So does the flush of a
  disconnect: which disconnect counts as the last one is a matter of presence.

Left out: the access checks (`getRoom`) that precede the first modelled await and
`deleteRoom`, which removes rows (both are in `Rooms`); the order in which the
loop visits a `Set` (any order here).

### Collaboration

Per client an ordered channel to the server and one back (a WebSocket each). A
client applies its edit and sends it; the gateway applies it to the live canvas,
acknowledges with a revision and broadcasts the raw operation; the others apply
it with `ApplyRemote`, the code of `onOperationBroadcast`, which checks less than
the server's `applyOperation`. A join and a restore answer later than they take
effect (`answering`); with `Overlap` the server handles other messages meanwhile,
without it one request is finished before the next. An operation is one step, as
`LiveCanvas` promises and as the run `sequential` shows for requests that do not
overlap; what happens when they do is the subject of `CanvasSync`.

`clash` is a history variable: an edit was made that conflicts with an edit of
another user which its author had not seen yet. Two edits conflict when the
order in which they are applied decides the outcome (`OrderMatters`, the relation
`MCCanvas` shows to be the exact exception to commutation), when one deletes a
node the other ties an edge to, or when one of them is a restore.

Left out here: failed operations, and what the next two modules add: reconnects,
cursors and presence (`RoomSession`), and the window in which `isApplyingRemote`
keeps a client from sending its own edits (`CanvasEditor`).

### Rooms

`db` is the tables and the live canvases; a row is what identifies it and its
room. `handlers[h]` is a request in flight: its operation, the query it comes to
next (`at`), its user and room, the row it loaded (`was`) and the columns it will
save (`save`). Each action is one query. `Fail` ends a request between any two
queries, as a failing query, or a crash, does.

* `createRoom` inserts the room, then its owner's membership: two inserts without a
  transaction. The identifiers of rooms are fresh (`past.used`).
* `joinRoom` finds the room by its token, looks for a membership, inserts one. A
  token comes from somebody to whom the share popup showed it (`Share`).
* `rename` and `regenerateInviteToken` load the row, change a field and `save`, which
  reads the row again and updates the columns in which the two differ, or inserts
  the whole row if it is gone (`RowReload`, `RowWrite`).
* `deleteRoom` checks the owner, loads the room and deletes comments, snapshots, the
  durable canvas, the members, the row and the Redis key in that order. A membership
  references its room: an insert without it is refused, and so is deleting a room
  that has members again.
* Comments, snapshots, canvases: the access check, then the insert; a canvas that is
  opened, edited, flushed or saved reads or writes its rows after the check too.
* `register` looks for the email, hashes, inserts; the unique column refuses a second.

`past` is a history variable: what was reported to users (`created`, `deleted`,
`registered`), which links were shown and replaced, which rooms a deletion has
begun on (`closing`), and two excuses. `doubled`: a user was admitted to a room
while a membership of theirs was about to be inserted there. `stale`: a save met a
row that had changed, or gone, since its handler loaded it. A row that is inserted
while its room is being deleted or gone is marked `late`.

### RoomSession

One room. `tab[t]` is a page: the page it is on, its connection, `pendingEmits`,
the lists on it, the edits made in it. A connection of a tab is a socket of its own
with an ordered channel each way; losing it loses what is on it. The gateway's
handlers are split at their awaits: a join (`joins[s]`) checks access, enters the
socket's room, registers in the hash, reads the canvas, lists the users; a leave
(`leaves[s]`) removes the user, counts those who remain, flushes and announces.
`timer` is the debounce of the analysis. The lists of comments and snapshots are
rows, broadcasts yet to be sent (`announce`) and replies yet to arrive
(`fetches`), in any order; a panel that is closed, or left with its page, cancels its
own (`ForgetPanel`, `SnapshotsPanel.tsx:33`). A canvas is the set of edits it holds: whether an edit
is lost is visible in it, what it does is a matter of `Collaboration`.

`past` holds excuses, each named after what happened at once:
`crossed` (a disconnect while another socket of the user is in the room, or its own
join in flight: `canvas.gateway.ts:107`), `expired` (the hash, an hour after the
last join), `unseen leave`, `overtaken` (an analysis between a join's read and its
answer), `lost edit`, `edited while joining`, `edited meanwhile`, `overtaken reply`
and `two fetches` (HTTP against broadcasts), `missed` (a panel that was cut off),
`late entry` and `denied` (a join between a room's broadcast and its end).

### CanvasEditor

One page's `nodes`, `edges`, `isApplyingRemote` with its timers of 0 ms, and what is
open on it: the popup of a new edge, the context menu, the editor of a label. Edges
are a sequence because `handleConnect` takes the last one for the new one. Ids of nodes
come from the clock: `used` holds those that a canvas has or had, and a new one is
another. React
Flow and the DOM are external: a deletion or a drag is a call of `onNodesChange` or
`onEdgesChange`. The others are one environment that edits and restores the
server's canvas and is broadcast. Excuses: `muted` (a deletion or move while
`isApplyingRemote` is set, `useCollaboration.ts:182`), `crossed`, `connected twice`
(the same handles, `Canvas.tsx:171`), `edge doubled` and `end gone` (behind the
popup), `renamed` and `untyped` (the label editor).

### WarningEngine and CanvasAnalysis

A canvas is the type of each node and the edges with their places in the array,
which decide between chains of equal length. Each rule is the set of nodes it warns
about; `analyze` is their union with types and severities. The longest chain is a
recursive function over sets of visited nodes, as the depth-first search visits
them. `CanvasAnalysis` adds and deletes nodes and edges and analyzes each canvas.

What the rules do, read beside what is said of them: infrastructure nodes in the
tail of a chain are warned of `CASCADING_FAILURE`, although `README.md:164-166`
excludes them (only heads are filtered); any unconnected firewall silences
`NO_RATE_LIMITING`, against `README.md:170`, which `UnconnectedNodeClearsNothing`
therefore exempts; the comment of rule 15 says two services and the code takes
three; the comment of `SPOF` (`warning-engine.service.ts:100`) speaks of callers and
the code counts every synchronous edge; edges are counted, not services; a chain is
reported once per head; two queues that feed each other exempt each other from
`NO_DEAD_LETTER_QUEUE`.

## 3. Runs

Passing runs.

| Run | Question | Properties | Instance |
|---|---|---|---|
| `canvas_algebra` | are the operations sound? | `CanvasWellFormed`, `RedeliveryHarmless`, `OthersCommute` | all 349 canvases over 2 nodes, an edge and a loop, 2 edge types, 2 positions, 3 labels of which one is changed by `Sanitize` |
| `sequential` | do two stores behave as one canvas when requests do not overlap? | `KeepsPromise` (refinement of `LiveCanvas`), `UnsavedIsTracked`, `EventuallySaved` | 2 rooms, cold with and without a row; 6 requests: up to 3 edits, a join, a leave, a restore, a snapshot; an expiry |
| `concurrent` | what can the durable row become when handlers overlap and fail? | `TypeOK`, `Integrity`, `DurableWasLive`, `ColumnsWereLive` | 2 handlers, 3 requests of all six kinds, an expiry, a crash, a fault, 4 starting states |
| `liveness` | is every dirty mark served? | `DirtyIsFlushed` | 2 rooms, 2 handlers, 2 edits, a leave, a crash, a fault |
| `warm` | which order survives overlapping handlers? | `RevisionNeverGoesBack`, `AcksInOrder` | 3 handlers, 4 requests in a warm room |
| `converge` | do replicas converge? | `TypeOK`, `UnclashingEditsConverge`, `ReplicasWellFormed`, `ClientRevisionNeverGoesBack` | 2 users, one joining at any moment; 3 edits of 9 kinds, a restore |
| `rooms` | are memberships, links and deletions consistent when requests overlap and fail? | `TypeOK`, `WhatIsListedOpens`, `OneMembershipEach`, `RevokedStaysRevoked`, `DeletedStaysDeleted`, `NothingLeftBehind`, `RegisteredCanLogIn` | 3 handlers, 4 requests, 2 users, 2 rooms, 7 workloads (656 thousand states) |
| `session` | do the pages of a room agree with the server once nothing is on its way? | `TypeOK`, `EveryoneListsEveryone`, `CursorsBelongToUsers`, `WarningsAreCurrent`, `EditsSurviveReconnect`, `ListsAreCurrent`, `NobodyIsStranded` | 3 tabs of 2 users, up to 2 connections each, 15 workloads (655 thousand states) |
| `editor` | does what is half done on a page stay there, and what is done arrive? | `TypeOK`, `PageAgreesWithServer`, `PendingGoesWithItsPopup`, `OnlyTypedLabelsAreSent`, `PopupSparesTypedEdges` | 3 nodes, 2 edges, 3 labels; 2 actions of the user, 2 of the others (567 thousand states) |
| `rules` | do the rules fit together, and how do they follow edits? | `CascadesAreChains`, `RulesAgree`, `UnconnectedNodeClearsNothing`, `AsyncEdgeAddsNoCoupling` | 5 canvases of 4 to 6 nodes near the rules' thresholds, and all that are 2 edits away (17 thousand states) |

`warm` deserves a word: two overlapping edits lose one of them, but they write the
same revision, and because Redis answers in order an older revision is never
written over a newer one nor acknowledged after it. This is why clients can
assign the revision of each message without comparing.

Runs that end in a counterexample, each of a sentence the repository says:

| Run | Property | What happens |
|---|---|---|
| `lost_update` | `KeepsPromise` | two operations read one canvas; the second SET discards the first, both are acknowledged and broadcast (`canvas-sync.service.ts:85`) |
| `revoked_link` | `RevokedLinksAreDead` | a rename loads the room, the owner regenerates the link, the rename saves the whole row it loaded: the old token differs from the row's and is written back (`rooms.service.ts:182`), so the link that was revoked for new joiners lets them in |

The passing runs are told apart from these by named conditions only: `~torn` in
`DurableWasLive` and `Integrity`, `~clash` in the convergence properties, one
handler slot in `sequential`, `Overlap = FALSE` in `converge`, a warm start in
`warm`, and the entries of `past` in the other modules. Remove one and TLC finds the
corresponding trace. What such traces show, besides the two runs above:

* a flush that read the canvas before a restore saves it after the restore did
  (`canvas-sync.service.ts:154`), and takes off the mark an operation set while the
  flush was in flight (`:155`);
* overlapping saves of one row each update the columns that differ from what they
  read: the row keeps an edge of one without the node of the other
  (`canvas-state.service.ts:85`);
* two users who move one node may each end with the other's position
  (`useCollaboration.ts:149`);
* an edit handled while a restore awaits PostgreSQL is broadcast before the restored
  canvas, which then erases it on the other screens (`canvas.gateway.ts:268`);
* closing one of two tabs takes the user off everybody's list
  (`canvas.gateway.ts:107`).

**Bounds.** `Budget` in `CanvasSync` bounds how many requests of each kind, and in all, a
behaviour has, and how many expiries, crashes and faults; `MaxEdits` and
`MaxRestores` do so in `Collaboration`, `MaxOwn` and `MaxRemote` in `CanvasEditor`,
`MaxEdits` in `CanvasAnalysis`. `Rooms` and `RoomSession` take `Workloads`: each
behaviour draws one, which says what may happen in it (`MaxRequests` requests of the
kinds of a set; the number of visits, drops, edits and so on), so that each question
gets the events it needs without all the others. In `rooms` three
handlers let two requests overlap each other and a deletion of their room, and the
fourth request comes after what the three have left. In `session` a
second connection is what reconnecting takes; a third tab of a user already there is
what tells users from sockets. Bounds are small because the interesting conflicts
need two or three actors and at most one event of another kind each; every action
of every module fires in a passing run. When a budget is spent the system rests, so
these configurations do not check deadlock; `canvas_algebra` does. Symmetry is used
on handler slots, in runs without liveness only.

**Fairness.** `Step(p)` is weakly fair for each handler: a store answers or
rejects. `FlushTick` is weakly fair: the timer fires every 5 s and a slot is free
again. Nothing is assumed of users, expiries, faults or crashes. The modules
`Rooms`, `RoomSession`, `CanvasEditor` and `CanvasAnalysis` state no fairness: what
they promise is about the moments when nothing is on its way, and is an invariant.

## 4. Proofs

All theorems hold for every number of rooms, handlers, clients, nodes, edges, labels and
every budget, and for every number of users, tabs, connections, requests and workloads,
under the assumptions named in the modules: `Ends` and `Sanitize` are functions, `Sanitize` is
idempotent, the parameters have their types, what users save and the stores, rooms and
snapshots hold at the beginning is well formed, editing starts from canvases whose
edges have ends, no message is `Nil`, the canvases an editor starts from or is restored to
are well formed, have finitely many edges and, like the nodes others add, labels that are
sanitized already. Some have a hypothesis of their own, given with
them below: each names a circumstance of the code's scheduling, and a run shows what
happens without it.

* `RedeliveryChangesNothing` (`CanvasProofs`): an operation applied twice is an
  operation applied once. One case per kind; the idempotence of `Sanitize` is
  what `updateNode` needs.
* `OperationsCommute` (`CanvasProofs`), the lemma that convergence rests on: two operations
  that do not matter to each other's order (`OrderMatters`) commute on every canvas,
  well formed or not. Moves and updates are maps over the nodes, additions and
  deletions change membership: three lemmas for the combinations of the two sorts.
* `CanvasesStayWellFormed`, `RedeliveryIsHarmless`, `OthersCommuteEverywhere`
  (`EditingProofs`): the three properties `MCCanvas` runs on a small instance, for all
  canvases that editing can produce.
* `TypeCorrect` (`CanvasSyncProofs`): `Spec => []TypeOK`. `TypeOK` is inductive: its
  conjunct `HandlersHold` says what each handler holds at each await, which the
  next action needs. One lemma per group of actions, on top of lemmas about the
  ways a handler starts, goes on, and returns.
* `IntegrityHolds`: `Spec => []Integrity`. Inductive relative to `TypeOK`, but only
  because it covers the hands of the handlers too: a well-formed row is worth
  nothing if a handler holds a malformed canvas it will write. Its step rests on
  `ApplyOperationWellFormed` (`CanvasProofs`) for edits, and for saves on the fact
  that a save whose row has not changed since it was read writes a whole canvas
  (`WriteRowWhole`).
* `DurableWasLiveHolds` and `ColumnsWereLiveHolds` (`CanvasSyncProofs`). Neither is
  inductive. `DurableInv` adds that what each store and each handler holds is in
  the history of its room, and that a row read by a save has its columns from
  there. From this a save, overlapping or not, writes columns of canvases of
  history, and an unbroken one writes such a canvas.
* `RevisionsInOrder` and `AcknowledgementsInOrder` (`CanvasSyncProofs`), hypothesis
  `[]Warm`: the rooms stay in Redis. However handlers overlap, Redis executes commands
  in the order in which it was sent them (`redisQ`), so a handler that has read revision
  n is overtaken only by handlers that write and acknowledge before it: `OrderInv`
  bounds what each queued command will do by what those before it do, down to the
  last acknowledgement. Without `Warm` a room that expires starts again at revision 1.
* `UnsavedIsTrackedInSequence` and `PromiseKeptInSequence` (`CanvasSyncProofs`): while
  handlers of one room do not overlap (`[]OneAtATime`) and nothing fails, crashes or is
  saved by PUT (`Undisturbed`), a live canvas that differs from its row is marked dirty
  or in the hands of a handler that will mark or write it, and `CanvasSync` implements
  `LiveCanvas`: one of the two steps of a handler that change Redis is the abstract
  edit, the others are stutters. `SequentialInv` says of each await that what the
  handler holds is still what is in the stores (`HeldIsCurrent`); that is what overlapping
  takes away, and `lost_update` is the run where it does.
* `CollaborationTypes` (`CollaborationProofs`): `Spec => []TypeOK`, also through
  `ApplyRemote`, which checks less than the server.
* `RevisionsClimb` (`CollaborationProofs`), hypothesis `Sequential` (`~Overlap`): the
  revisions on their way to a client, its own answer included, lie in order between
  the one it has and the server's (`Climbs`). With overlap a restore answers after
  operations that took effect later (canvas.gateway.ts:223-248).
* `ReplicasConverge` and `ReplicasStayWellFormed` (`CollaborationProofs`), hypotheses
  `Sequential` and `PlainLabels` (labels that `sanitizeText` leaves alone: the client shows
  a broadcast label as it was sent, the server keeps the sanitized one). The inductive
  invariant is `ConvInv`. Its heart, `Meet`, says that what a client will show after
  all that is coming to it is what the server will hold after all that is on its way from that
  client: two paths of canvases from the two ends that end in one. A message that is
  handled moves the head of a channel into a state, or one operation past
  the operations queued on the other side, which commute with it (`OperationsCommute`)
  because `Peace` says that what different clients have on the way does not clash. The
  answer to a join or restore is part of what is coming (`Coming`) from the moment it
  takes effect.

* `TypeCorrect` (`RoomsProofs`): the tables, the handlers and the history. `Typed` is
  inductive: what a handler has loaded is a row of its room, its room was used
  before, identifiers and tokens were issued, members refer to rooms that exist.
* `RegisteredCanLogInHolds`: the unique column does the work that the check before the
  insert cannot.
* `NothingLeftBehindHolds`: `LateInv` says, for each deletion in flight, that the tables
  it is done with hold nothing of the room but what is `late` (`Swept`), and that a
  room that was used and has no row has nothing else either. It needs no excuse: a
  deletion that fails half way leaves the room.
* `RevokedStaysRevokedHolds`: `LinksInv` says that tokens of rooms are unique and none of
  them revoked, that a handler about to save writes its own columns only, and that a
  token about to replace another is fresh, all of it unless a save met a row that
  changed (`stale`); `revoked_link` is that case.
* `DeletedStaysDeletedHolds`: `GoneInv`, on top of `LinksInv`: a save
  that inserts a whole row is `stale`, so no other step brings a used room back.
* `WhatIsListedOpensHolds` and `OneMembershipEachHolds`. `OwnersAgree` says that rows
  loaded by different handlers, the row in the table and a room being created have
  one owner (a save may write every column of a row, and still never changes it); `OwnersIn` that
  whoever is a member as an owner is the owner, and that a room whose creation was
  reported and whose deletion has not begun has its owner's membership;
  `MemberInv` that a user about to be inserted is no member and is about to be
  inserted once, unless `doubled`.
* `SessionTypes` (`SessionProofs`): `Spec => []TypeOK` of `RoomSession`. A message is
  typed by the socket it is on, so `SessionInv` says that a tab's sockets are different
  ones and that a socket that is gone comes back in no way. `WireInv`, on top of it: each
  connection joins once, its page waits (`awaiting`) until it is sent the room's state, and a
  socket outside the room hears nothing of it. The six theorems that follow need both.
  They speak of a quiet session, which no step starts from, so none of them is inductive;
  each invariant says, of a channel with anything on it, what the page will show once it
  has heard it all (`WillShow`).
* `NobodyStaysInAGoneRoom`: whoever is on the page is in the room, on the way there, or
  has an order to leave on the way (`StrandedInv`).
* `EveryoneIsWarned`: what a page that has joined will show is the live canvas's warnings,
  or the timer is pending (`Warned`); what a join in flight has read is live, or the timer is
  pending (`Fresh`). An analysis between a join's read and its answer breaks that: the
  excuse.
* `EveryoneIsListed`: the hash holds the users with a socket that has added them
  (`Hashed`), and what a page will list differs from it only by those about to be
  announced, as arriving or departing (`Listed`). Two sockets of a user, one leaving,
  break `Hashed`: the excuse `crossed`.
* `CursorsStayWithUsers`: a cursor shown or on its way is of a user who is in the room or
  whose leave is not announced yet, also on pages that are cut off (`Pointed`).
* `ReconnectsKeepEdits`: an edit made is live or still underway, in `pendingEmits` or on
  a connection (`MadeInv`); what a page that has joined will show is the live canvas and the
  edits it has on the way itself (`Agrees`), for which a join that has read the canvas must
  have read the live one and no edit may be sent before the room's state has arrived
  (`CanvasInv`).
* `ListsStayCurrent`: what a page will list, once it has heard every broadcast and every
  reply, is the rows. `Agree` says it of a channel and of the broadcasts yet to be sent:
  an item they speak of ends as it is in the table, and of the others the page is right
  already. A fetch replaces the list, so `SoundInv` says it of the reply too, if it
  was read, and of the list only while no fetch is on its way (`Sound`). `ItemsInv` is
  why the order of broadcasts does no harm while the room is open: an item is posted once
  (`UsedNow`), and what is announced of it is what the table says, so that a page that lists
  the rows lists them still after all that is on its way (`RowsNow`). The excuses are those of
  `past` that concern the list. Trying to prove it found a fault of the model: a panel
  left with its page kept its fetch, and the panel of the next visit would have taken the
  stale reply; the code cancels it. The workload `PanelLeft` is that case.
* `EditorTypesHold` (`EditorProofs`): `Spec => []TypeOK` of `CanvasEditor`; the part that
  could fail is that an open label editor is that of a node on the page. The list of edges
  is filtered by a recursive function, of which `EntriesAre` proves what the list holds:
  by the least place at which it would not (`NoLeast`).
* `PendingEdgesGo` and `TypedEdgesAreSpared`: `PopupInv` says that a pending edge is that of
  the open popup, and that the edge of an open popup is pending unless the connection was
  drawn twice or arrived from somebody else; so removing it removes no other edge.
* `UntypedLabelsStay`: `IdsInv` says that ids are unique on the page and that a node is
  added once, on the page or on its way (`used`); `LabelInv` that a text nobody typed is
  the node's label until somebody else renames the node or restores the canvas.
* `PageAgrees`: as long as nothing excuses it, what the page shows, put through the
  messages to it, and the server's canvas, put through the operations from it, are one
  canvas (`Meet`), and no message clashes with an operation underway the other way
  (`Peace`). An own edit is then one more at the end of one way, applied at the start of
  the other, where it commutes with all it passes (`MeetUnder`). What the page shows is
  taken without pending edges and with labels sanitized (`Shown`), so that opening and
  dismissing the popup do not count; each of the page's handlers does to it what
  `applyOperation` does to the server's canvas, for which its edges must have unique ids
  (`UniqueEntries`) and both ends. Deleting a node sends several operations: they are a
  way of their own (`MeetUnderAll`). `EditorAssumption` says that nodes others add and
  canvases that are loaded carry labels that `sanitizeText` leaves alone: they come from
  the catalogue or through `ot.ts:61`. A label that a manual save has stored as it was
  typed (`canvas-state.service.ts:60`) is outside of it: page and server then both hold
  it as it is.
* `RulesAgreeHolds`, `UnconnectedNodeClearsNothingHolds`, `AsyncEdgeAddsNoCouplingHolds`
  (`WarningProofs`): for canvases of any size. `AnalysisInv` says that the canvas is
  finite, its edges have ends, and the warnings are those of the canvas; each rule is
  then compared on two canvases of which one extends the other by a node, or by edges
  of a decoupled type.
* `CascadesAreChainsHolds`: the search and the reference definition are recursive
  functions over data. `ChainsExist` and `PathsExist` prove that such functions exist, one
  unvisited node, or one more node of a path, at a time (`NoLeast`: a set of numbers
  without a least one is empty). By the same induction the chain the search
  returns is a walk that meets no node twice, and no walk from there is longer
  (`ChainsAreLongest`), and `Paths[k]` are the walks of k nodes (`PathsAre`). The
  first of the longest tails exists because the edges have places (`PlacesInv`), and a
  walk is no longer than there are nodes (`WalkShort`).

Only model-checked: liveness (`DirtyIsFlushed`, `EventuallySaved`), which is beyond the
prover. Every other property of the passing runs is stated by a theorem.

## 5. Plan

Done: the core (`Canvas`, `LiveCanvas`, `CanvasSync`, `Collaboration`), then `Rooms`,
`RoomSession` (presence, connections, lists, warnings and their debounce),
`CanvasEditor`, `WarningEngine`, and the proofs above. What is left, in order:

1. One specification of operations in flight below `RoomSession`: `CanvasSync` has
   their interleavings and no sockets, `RoomSession` has sockets and takes an
   operation as one step.
2. The dashboard and the invite page: what they show while a room they list is
   deleted or left. Today they are only the requests they make.

## 6. Not modelled, and why

Password hashing, JWTs, sanitize-html, React Flow, Socket.IO, ioredis, TypeORM
and PostgreSQL themselves are libraries: the modules say what the code relies on.
The landing page, styles, toasts, the node catalogue and the layout of pages and
panels are static or transient: nothing else depends on them. Of the pages, what
they request and when is modelled; forms, filters, hovering and the redirect after a
login are not. The token in local storage is part of the page's state as far as it
can become invalid in a session (`RoomSession`). DTO validation, throttling,
configuration, health checks and logging hold no state of the system; the limits of
lists (500 comments, 100 snapshots) are larger than any instance and are left out.
Texts, positions of comments, replies as a tree, and the messages of warnings are
abstracted away. `needsRebase` of `ot.ts` and `incrementRevision` of
`redis.service.ts` are not called. The README's "the server rebases the operation"
describes a debug message in the code (`canvas-sync.service.ts:98`): operations are
applied as they are.
