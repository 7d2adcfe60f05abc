----------------------------- MODULE CanvasSync -----------------------------
(***************************************************************************)
(* The server's two copies of a canvas, the live one in Redis and the      *)
(* durable one in PostgreSQL, and the handlers that read and write them:   *)
(* canvas-sync.service.ts, with the parts of canvas-state.service.ts,      *)
(* snapshots.service.ts, redis.service.ts and canvas.gateway.ts it is      *)
(* reached through.                                                        *)
(*                                                                         *)
(* Node runs one handler at a time and switches at every await, so a       *)
(* handler is a sequence of steps, each ending in a command to Redis or    *)
(* PostgreSQL whose reply resumes it.                                      *)
(*  - Redis: one connection.  A command takes effect in the order of       *)
(*    issue and replies come back in that order: redisQ holds the handlers *)
(*    awaiting a reply, and only its head resumes.                         *)
(*  - PostgreSQL: a pool.  A query issued runs at any later moment, and    *)
(*    its reply resumes the handler later still.                           *)
(* As in Canvas, a variant just before a definition (MarkNothing, RestNone) *)
(* is a slip it could have been written with, for the mutants.             *)
(***************************************************************************)
EXTENDS Canvas, FiniteSets, Sequences

CONSTANTS
    Rooms,
    Procs,          \* slots for handlers in flight: how many can overlap
    Nil,            \* null: no canvas, no room, no argument
    Ops,            \* the operations users send
    Drafts,         \* the canvases users save through PUT
    StartSnapshots, \* the snapshots that exist already
    Starts,         \* [live, durable] pairs a room can start from
    Budget          \* how many requests of each kind and in all, and how many
                    \* expiries, crashes and failed commands, a behaviour has

Requests == {"op", "join", "leave", "restore", "save", "snapshot"}
Kinds == Requests \cup {"request", "expire", "crash", "fault"}

CanvasOrNil == CanvasStateData \cup {Nil}

ASSUME CanvasSyncAssumption ==
    /\ Nil \notin CanvasStateData \cup Content \cup Operation \cup Rooms
    /\ Ops \subseteq Operation
    /\ Drafts \subseteq Content
    /\ StartSnapshots \subseteq Content
    /\ Starts \subseteq [live : CanvasOrNil, durable : CanvasOrNil]
    /\ Budget \in [Kinds -> Nat]

\* What users save and what the stores hold at the beginning is well formed;
\* Integrity says that the server keeps it so.
ASSUME WellFormedAssumption ==
    /\ \A c \in Drafts \cup StartSnapshots : WellFormed(c)
    /\ \A start \in Starts :
          \A s \in {start.live, start.durable} \ {Nil} : WellFormed(s)

VARIABLES
    redis,      \* canvas:<room> keys
    pg,         \* canvas_states rows
    dirtyRooms, \* CanvasSyncService.dirtyRooms
    snapshots,  \* contents of the snapshots rows
    task,       \* what each handler in flight holds and awaits
    redisQ,     \* handlers awaiting a reply of Redis, in order of issue
    budget,     \* what is left of Budget
    past,       \* history: the canvases that were live, or saved, in a room
    torn,       \* history: a row changed between a save's read and its write
    lastAck     \* history: revision of the last operation acknowledged

stores == <<redis, pg, snapshots, past, torn>>
vars == <<redis, pg, dirtyRooms, snapshots, task, redisQ, budget, past, torn, lastAck>>

RedisAwaits == {"op:get", "op:set", "op:expire", "join:get", "join:set",
                "restore:get", "restore:set", "restore:expire",
                "flush:get", "snapshot:get"}
FlushAwaits == {"flush:get", "flush:save", "flush:write", "flush:saved"}
WriteAwaits == {"flush:write", "restore:write", "save:write"}
Awaits == RedisAwaits \cup FlushAwaits \cup WriteAwaits \cup
          {"idle", "join:row", "join:reply", "restore:save", "restore:saved",
           "save:row", "save:save", "snapshot:row", "snapshot:save"}

Task == [pc : Awaits, room : Rooms \cup {Nil}, arg : Ops \cup Content \cup {Nil},
         state : CanvasOrNil, base : CanvasOrNil, todo : SUBSET Rooms]

\* A handler that works on room r with argument a, the canvas s in its hands.
Handler(pc, r, a, s, todo) ==
    [pc |-> pc, room |-> r, arg |-> a, state |-> s, base |-> Nil, todo |-> todo]
Idle == Handler("idle", Nil, Nil, Nil, {})

-----------------------------------------------------------------------------
(* Handlers and the two stores.                                            *)

CanvasOr(s) == IF s = Nil THEN EmptyCanvas ELSE s

Spend(kind) == budget[kind] > 0 /\ budget' = [budget EXCEPT ![kind] = @ - 1]
SpendRequest(kind) ==
    /\ budget[kind] > 0 /\ budget["request"] > 0
    /\ budget' = [budget EXCEPT ![kind] = @ - 1, !["request"] = @ - 1]

\* Handler p awaits at pc and its reply is there.
Resumes(p, pc) ==
    /\ task[p].pc = pc
    /\ pc \in RedisAwaits => redisQ # <<>> /\ Head(redisQ) = p

\* A new handler, whose first command is GET canvas:r.
StartWithGet(p, pc, r, a) ==
    /\ task[p] = Idle
    /\ task' = [task EXCEPT ![p] = Handler(pc, r, a, redis[r], {})]
    /\ redisQ' = Append(redisQ, p)

\* Handler p goes on to await at pc, with s as the canvas in its hands.
Await(p, pc, s) == task' = [task EXCEPT ![p].pc = pc, ![p].state = s]
Return(p) == task' = [task EXCEPT ![p] = Idle]

\* The reply of Redis that resumed p is consumed; ToRedis issues a new command.
Replied == redisQ' = Tail(redisQ)
ToRedis(p) == redisQ' = Append(Tail(redisQ), p)

SetRedis(r, s) ==
    /\ redis' = [redis EXCEPT ![r] = s]
    /\ past' = [past EXCEPT ![r] = @ \cup {s}]

\* repository.save of TypeORM reads the row,
ReadRow(p, pc) == task' = [task EXCEPT ![p].pc = pc, ![p].base = pg[task[p].room]]

\* and then inserts it if there was none, or updates the columns that differ
\* from what it read.
WrittenNodes(row, base, s) ==
    IF base = Nil THEN s ELSE [row EXCEPT !.nodes = s.nodes, !.revision = s.revision]
WrittenNext(row, base, s) ==
    IF base = Nil THEN s ELSE AtRevision(s, row.revision + 1)

Written(row, base, s) ==
    CASE base = Nil -> s
      [] base # Nil /\ row = Nil -> Nil     \* no row left to update
      [] OTHER -> [nodes    |-> IF s.nodes = base.nodes THEN row.nodes ELSE s.nodes,
                   edges    |-> IF s.edges = base.edges THEN row.edges ELSE s.edges,
                   revision |-> IF s.revision = base.revision THEN row.revision
                                ELSE s.revision]

\* The insert meets a row that was not there: its primary key is taken.
Collides(p) == task[p].base = Nil /\ pg[task[p].room] # Nil

WriteRow(p) ==
    LET r == task[p].room IN
    /\ ~Collides(p)
    /\ pg' = [pg EXCEPT ![r] = Written(@, task[p].base, task[p].state)]
    /\ torn' = (torn \/ task[p].base # pg[r])

MarkNothing(r) == dirtyRooms' = dirtyRooms

MarkDirty(r) == dirtyRooms' = dirtyRooms \cup {r}
Unmark(r) == dirtyRooms' = dirtyRooms \ {r}

-----------------------------------------------------------------------------
(* applyOperation: GET, SET, EXPIRE, then the dirty mark and the answer.   *)

OpRequest(p) ==
    /\ SpendRequest("op")
    /\ \E r \in Rooms, op \in Ops : StartWithGet(p, "op:get", r, op)
    /\ UNCHANGED <<stores, dirtyRooms, lastAck>>

\* "Room state not found. Rejoin the room."
OpNotFound(p) ==
    /\ Resumes(p, "op:get")
    /\ task[p].state = Nil
    /\ Return(p)
    /\ Replied
    /\ UNCHANGED <<stores, dirtyRooms, budget, lastAck>>

OpWrite(p) ==
    /\ Resumes(p, "op:get")
    /\ task[p].state # Nil
    /\ LET state == task[p].state
           newState == AtRevision(ApplyOperation(state, task[p].arg),
                                  state.revision + 1)
       IN  /\ SetRedis(task[p].room, newState)
           /\ Await(p, "op:set", newState)
    /\ ToRedis(p)
    /\ UNCHANGED <<pg, snapshots, torn, dirtyRooms, budget, lastAck>>

OpRefreshTTL(p) ==
    /\ Resumes(p, "op:set")
    /\ Await(p, "op:expire", task[p].state)
    /\ ToRedis(p)
    /\ UNCHANGED <<stores, dirtyRooms, budget, lastAck>>

OpDone(p) ==
    /\ Resumes(p, "op:expire")
    /\ MarkDirty(task[p].room)
    /\ lastAck' = [lastAck EXCEPT ![task[p].room] = task[p].state.revision]
    /\ Return(p)
    /\ Replied
    /\ UNCHANGED <<stores, budget>>

OpStep(p) == OpNotFound(p) \/ OpWrite(p) \/ OpRefreshTTL(p) \/ OpDone(p)

-----------------------------------------------------------------------------
(* warmRoom, as handleJoinRoom calls it: GET, and on a miss SELECT and SET. *)

JoinRequest(p) ==
    /\ SpendRequest("join")
    /\ \E r \in Rooms : StartWithGet(p, "join:get", r, Nil)
    /\ UNCHANGED <<stores, dirtyRooms, lastAck>>

WarmHit(p) ==
    /\ Resumes(p, "join:get")
    /\ task[p].state # Nil
    /\ Return(p)
    /\ Replied
    /\ UNCHANGED <<stores, dirtyRooms, budget, lastAck>>

WarmMissAlways(p) ==
    /\ Resumes(p, "join:get")
    /\ Await(p, "join:row", Nil)
    /\ Replied
    /\ UNCHANGED <<stores, dirtyRooms, budget, lastAck>>

WarmMiss(p) ==
    /\ Resumes(p, "join:get")
    /\ task[p].state = Nil
    /\ Await(p, "join:row", Nil)
    /\ Replied
    /\ UNCHANGED <<stores, dirtyRooms, budget, lastAck>>

WarmSelect(p) ==
    /\ Resumes(p, "join:row")
    /\ Await(p, "join:reply", CanvasOr(pg[task[p].room]))
    /\ UNCHANGED <<stores, dirtyRooms, redisQ, budget, lastAck>>

WarmStore(p) ==
    /\ Resumes(p, "join:reply")
    /\ SetRedis(task[p].room, task[p].state)
    /\ Await(p, "join:set", task[p].state)
    /\ redisQ' = Append(redisQ, p)
    /\ UNCHANGED <<pg, snapshots, torn, dirtyRooms, budget, lastAck>>

WarmDone(p) ==
    /\ Resumes(p, "join:set")
    /\ Return(p)
    /\ Replied
    /\ UNCHANGED <<stores, dirtyRooms, budget, lastAck>>

WarmStep(p) == \/ WarmHit(p) \/ WarmMiss(p) \/ WarmSelect(p)
               \/ WarmStore(p) \/ WarmDone(p)

-----------------------------------------------------------------------------
(* flushRoom: GET, save of the row, and the dirty mark comes off.  The     *)
(* last user's disconnect flushes one room, the timer all dirty ones.      *)

LeaveRequest(p) ==
    /\ SpendRequest("leave")
    /\ \E r \in Rooms : StartWithGet(p, "flush:get", r, Nil)
    /\ UNCHANGED <<stores, dirtyRooms, lastAck>>

RestNone(todo, r) == {}

\* What the loop still has to flush once it has taken r.
Rest(todo, r) == todo \ {r}

\* The loop of flushDirtyRooms: the next room of todo, or the end.  q is the
\* queue of Redis once p has consumed what resumed it.
FlushNext(p, todo, q) ==
    IF todo = {}
    THEN /\ Return(p)
         /\ redisQ' = q
    ELSE /\ \E r \in todo :
               task' = [task EXCEPT ![p] =
                            Handler("flush:get", r, Nil, redis[r], Rest(todo, r))]
         /\ redisQ' = Append(q, p)

SeveralDirty == Cardinality(dirtyRooms) > 1

AnyDirty == dirtyRooms # {}

FlushTick(p) ==
    /\ task[p] = Idle
    /\ AnyDirty
    /\ FlushNext(p, dirtyRooms, redisQ)
    /\ dirtyRooms' = {}
    /\ UNCHANGED <<stores, budget, lastAck>>

FlushMiss(p) ==
    /\ Resumes(p, "flush:get")
    /\ task[p].state = Nil
    /\ FlushNext(p, task[p].todo, Tail(redisQ))
    /\ UNCHANGED <<stores, dirtyRooms, budget, lastAck>>

FlushPersist(p) ==
    /\ Resumes(p, "flush:get")
    /\ task[p].state # Nil
    /\ Await(p, "flush:save", task[p].state)
    /\ Replied
    /\ UNCHANGED <<stores, dirtyRooms, budget, lastAck>>

FlushRead(p) ==
    /\ Resumes(p, "flush:save")
    /\ ReadRow(p, "flush:write")
    /\ UNCHANGED <<stores, dirtyRooms, redisQ, budget, lastAck>>

FlushSave(p) ==
    /\ Resumes(p, "flush:write")
    /\ WriteRow(p)
    /\ task' = [task EXCEPT ![p].pc = "flush:saved", ![p].base = Nil]
    /\ UNCHANGED <<redis, snapshots, past, dirtyRooms, redisQ, budget, lastAck>>

FlushDone(p) ==
    /\ Resumes(p, "flush:saved")
    /\ Unmark(task[p].room)
    /\ FlushNext(p, task[p].todo, redisQ)
    /\ UNCHANGED <<stores, budget, lastAck>>

FlushStep(p) == \/ FlushMiss(p) \/ FlushPersist(p) \/ FlushRead(p)
                \/ FlushSave(p) \/ FlushDone(p)

-----------------------------------------------------------------------------
(* restoreState: GET, SET, EXPIRE, save, and the dirty mark comes off.     *)

RestoreRequest(p) ==
    /\ SpendRequest("restore")
    /\ \E r \in Rooms, c \in snapshots : StartWithGet(p, "restore:get", r, c)
    /\ UNCHANGED <<stores, dirtyRooms, lastAck>>

RestoredSame(c, s) == AtRevision(c, CanvasOr(s).revision)
RestoredFirst(c, s) == AtRevision(c, 1)

\* Content c becomes the successor of the live canvas s, if there is one.
Restored(c, s) == AtRevision(c, CanvasOr(s).revision + 1)

RestoreWrite(p) ==
    /\ Resumes(p, "restore:get")
    /\ LET newState == Restored(task[p].arg, task[p].state)
       IN  /\ SetRedis(task[p].room, newState)
           /\ Await(p, "restore:set", newState)
    /\ ToRedis(p)
    /\ UNCHANGED <<pg, snapshots, torn, dirtyRooms, budget, lastAck>>

RestoreRefreshTTL(p) ==
    /\ Resumes(p, "restore:set")
    /\ Await(p, "restore:expire", task[p].state)
    /\ ToRedis(p)
    /\ UNCHANGED <<stores, dirtyRooms, budget, lastAck>>

RestorePersist(p) ==
    /\ Resumes(p, "restore:expire")
    /\ Await(p, "restore:save", task[p].state)
    /\ Replied
    /\ UNCHANGED <<stores, dirtyRooms, budget, lastAck>>

RestoreRead(p) ==
    /\ Resumes(p, "restore:save")
    /\ ReadRow(p, "restore:write")
    /\ UNCHANGED <<stores, dirtyRooms, redisQ, budget, lastAck>>

RestoreSave(p) ==
    /\ Resumes(p, "restore:write")
    /\ WriteRow(p)
    /\ task' = [task EXCEPT ![p].pc = "restore:saved", ![p].base = Nil]
    /\ UNCHANGED <<redis, snapshots, past, dirtyRooms, redisQ, budget, lastAck>>

RestoreDone(p) ==
    /\ Resumes(p, "restore:saved")
    /\ Unmark(task[p].room)
    /\ Return(p)
    /\ UNCHANGED <<stores, redisQ, budget, lastAck>>

RestoreStep(p) == \/ RestoreWrite(p) \/ RestoreRefreshTTL(p) \/ RestorePersist(p)
                  \/ RestoreRead(p) \/ RestoreSave(p) \/ RestoreDone(p)

-----------------------------------------------------------------------------
(* saveCanvasState (PUT): SELECT, then save with the row's revision + 1;   *)
(* Redis is not told.                                                      *)

SaveRequest(p) ==
    /\ SpendRequest("save")
    /\ task[p] = Idle
    /\ \E r \in Rooms, c \in Drafts :
          task' = [task EXCEPT ![p] = Handler("save:row", r, c, Nil, {})]
    /\ UNCHANGED <<stores, dirtyRooms, redisQ, lastAck>>

SaveSelect(p) ==
    /\ Resumes(p, "save:row")
    /\ Await(p, "save:save", AtRevision(task[p].arg,
                                CanvasOr(pg[task[p].room]).revision + 1))
    /\ UNCHANGED <<stores, dirtyRooms, redisQ, budget, lastAck>>

SaveRead(p) ==
    /\ Resumes(p, "save:save")
    /\ ReadRow(p, "save:write")
    /\ UNCHANGED <<stores, dirtyRooms, redisQ, budget, lastAck>>

SaveWrite(p) ==
    /\ Resumes(p, "save:write")
    /\ WriteRow(p)
    /\ past' = [past EXCEPT ![task[p].room] = @ \cup {task[p].state}]
    /\ Return(p)
    /\ UNCHANGED <<redis, snapshots, dirtyRooms, redisQ, budget, lastAck>>

SaveStep(p) == SaveSelect(p) \/ SaveRead(p) \/ SaveWrite(p)

-----------------------------------------------------------------------------
(* createSnapshot: GET, on a miss SELECT, then INSERT of the content.      *)

SnapshotRequest(p) ==
    /\ SpendRequest("snapshot")
    /\ \E r \in Rooms : StartWithGet(p, "snapshot:get", r, Nil)
    /\ UNCHANGED <<stores, dirtyRooms, lastAck>>

SnapshotLive(p) ==
    /\ Resumes(p, "snapshot:get")
    /\ Await(p, IF task[p].state = Nil THEN "snapshot:row" ELSE "snapshot:save",
             task[p].state)
    /\ Replied
    /\ UNCHANGED <<stores, dirtyRooms, budget, lastAck>>

SnapshotCold(p) ==
    /\ Resumes(p, "snapshot:row")
    /\ Await(p, "snapshot:save", CanvasOr(pg[task[p].room]))
    /\ UNCHANGED <<stores, dirtyRooms, redisQ, budget, lastAck>>

SnapshotInsert(p) ==
    /\ Resumes(p, "snapshot:save")
    /\ snapshots' = snapshots \cup {ContentOf(task[p].state)}
    /\ Return(p)
    /\ UNCHANGED <<redis, pg, past, torn, dirtyRooms, redisQ, budget, lastAck>>

SnapshotStep(p) == SnapshotLive(p) \/ SnapshotCold(p) \/ SnapshotInsert(p)

-----------------------------------------------------------------------------
(* The environment: expiry, failed commands, crashes.                      *)

\* A handler holds the room, or will come to it.
InFlight(r) == \E p \in Procs : task[p].room = r \/ r \in task[p].todo

\* A canvas key lives for an hour after the last edit or join, which outlasts
\* every handler and the five seconds a room stays marked.
Expire(r) ==
    /\ Spend("expire")
    /\ redis[r] # Nil
    /\ r \notin dirtyRooms
    /\ ~InFlight(r)
    /\ redis' = [redis EXCEPT ![r] = Nil]
    /\ UNCHANGED <<pg, snapshots, past, torn, dirtyRooms, task, redisQ, lastAck>>

\* The memory of the process is gone; both stores keep what they have.
Restart ==
    /\ dirtyRooms' = {}
    /\ task' = [p \in Procs |-> Idle]
    /\ redisQ' = <<>>
    /\ UNCHANGED <<stores, lastAck>>

Crash == Spend("crash") /\ Restart

\* The command p awaits is rejected.  Nobody awaits the promise of a flush, so
\* its rejection ends the process; every other handler answers with an error.
Rejected(p) ==
    IF task[p].pc \in FlushAwaits
    THEN Restart
    ELSE /\ Return(p)
         /\ redisQ' = IF task[p].pc \in RedisAwaits THEN Tail(redisQ) ELSE redisQ
         /\ UNCHANGED <<stores, dirtyRooms, lastAck>>

\* A store fails.
Fault(p) ==
    /\ Spend("fault")
    /\ task[p] # Idle
    /\ Resumes(p, task[p].pc)
    /\ Rejected(p)

\* Two handlers found no row, and the other has inserted it.
Collide(p) ==
    /\ task[p].pc \in WriteAwaits
    /\ Collides(p)
    /\ Rejected(p)
    /\ UNCHANGED budget

-----------------------------------------------------------------------------

Init ==
    /\ \E start \in [Rooms -> Starts] :
          /\ redis = [r \in Rooms |-> start[r].live]
          /\ pg = [r \in Rooms |-> start[r].durable]
          /\ past = [r \in Rooms |-> {start[r].live, start[r].durable} \ {Nil}]
    /\ dirtyRooms = {}
    /\ snapshots = StartSnapshots
    /\ task = [p \in Procs |-> Idle]
    /\ redisQ = <<>>
    /\ budget = Budget
    /\ torn = FALSE
    /\ lastAck = [r \in Rooms |-> 0]

Request(p) == \/ OpRequest(p) \/ JoinRequest(p) \/ LeaveRequest(p)
              \/ RestoreRequest(p) \/ SaveRequest(p) \/ SnapshotRequest(p)

Step(p) == \/ OpStep(p) \/ WarmStep(p) \/ FlushStep(p)
           \/ RestoreStep(p) \/ SaveStep(p) \/ SnapshotStep(p) \/ Collide(p)

Next ==
    \/ \E p \in Procs : Request(p) \/ FlushTick(p) \/ Step(p) \/ Fault(p)
    \/ \E r \in Rooms : Expire(r)
    \/ Crash

Spec == Init /\ [][Next]_vars

\* Replies arrive and the timer fires; users may stop at any time.
Fairness ==
    /\ \A p \in Procs : WF_vars(Step(p))
    /\ WF_vars(\E p \in Procs : FlushTick(p))

FairSpec == Spec /\ Fairness

-----------------------------------------------------------------------------
(* Properties.                                                             *)

\* What a handler holds depends on what it awaits.
HandlersHold ==
    \A p \in Procs :
        LET t == task[p] IN
        /\ t.pc # "idle" => t.room \in Rooms
        /\ t.pc \in {"op:get", "op:set", "op:expire"} => t.arg \in Ops
        /\ t.pc \in {"restore:get", "save:row"} => t.arg \in Content
        /\ t.pc \in {"op:set", "op:expire", "join:reply", "join:set", "restore:set",
                     "restore:expire", "restore:save", "restore:write",
                     "restore:saved", "flush:save", "flush:write", "flush:saved",
                     "save:save", "save:write", "snapshot:save"} => t.state # Nil

TypeOK ==
    /\ redis \in [Rooms -> CanvasOrNil]
    /\ pg \in [Rooms -> CanvasOrNil]
    /\ dirtyRooms \subseteq Rooms
    /\ snapshots \subseteq Content
    /\ task \in [Procs -> Task]
    /\ redisQ \in Seq(Procs)
    /\ budget \in [Kinds -> Nat]
    /\ past \in [Rooms -> SUBSET CanvasStateData]
    /\ torn \in BOOLEAN
    /\ lastAck \in [Rooms -> Nat]
    /\ HandlersHold

\* The canvas and the content in the hands of a handler.
HoldsWellFormed(t) ==
    /\ t.state # Nil => WellFormed(t.state)
    /\ t.pc \in {"restore:get", "save:row"} => WellFormed(t.arg)

\* Every canvas the server holds has unique ids and no edge without its ends:
\* in Redis, in PostgreSQL, in the snapshots and in the hands of a handler.
\* Edits keep it so (ot.ts:18), and copies between the stores move whole
\* canvases, until a save writes a row that has changed since it read it.
Integrity == ~torn =>
    /\ \A r \in Rooms : redis[r] # Nil => WellFormed(redis[r])
    /\ \A r \in Rooms : pg[r] # Nil => WellFormed(pg[r])
    /\ \A c \in snapshots : WellFormed(c)
    /\ \A p \in Procs : HoldsWellFormed(task[p])

\* The row of a room is a canvas that was live in that room, or that a user
\* saved there (canvas-sync.service.ts:125 "Replaces the canvas state atomically
\* in Redis and PostgreSQL").
RowIsACanvas == \A r \in Rooms : pg[r] # Nil => pg[r] \in past[r]

\* It is, however late a flush and however many handlers overlap, until a save
\* writes a row that has changed since it read it (canvas-state.service.ts:70).
DurableWasLive == ~torn => RowIsACanvas

\* Each column of the row is the column of a canvas of history.
ColumnsFrom(row, history) ==
    /\ \E s \in history : row.nodes = s.nodes
    /\ \E s \in history : row.edges = s.edges
    /\ \E s \in history : row.revision = s.revision

\* And even then nodes, edges and revision each come from such a canvas: the
\* row's revision, in particular, is one the users of the room have seen.
ColumnsWereLive == \A r \in Rooms : pg[r] # Nil => ColumnsFrom(pg[r], past[r])

\* The revision of a live canvas never goes back while the room stays warm,
\* whatever edits, restores and flushes overlap: Redis answers in order
\* (canvas-sync.service.ts:105).
RevisionNeverGoesBack ==
    [][\A r \in Rooms : redis[r] # Nil /\ redis'[r] # Nil
          => redis'[r].revision >= redis[r].revision]_vars

\* Operations are acknowledged, and so broadcast, in the order of their
\* revisions (canvas.gateway.ts:208-223): a client that stores the revision of
\* each message never steps back.
AcksInOrder == [][\A r \in Rooms : lastAck'[r] >= lastAck[r]]_vars

\* The live canvas has content that PostgreSQL lacks.
Unsaved(r) ==
    redis[r] # Nil /\ ContentOf(redis[r]) # ContentOf(CanvasOr(pg[r]))

\* A room with unsaved changes is marked dirty, or a handler on it is still in
\* flight (canvas-sync.service.ts:18 "Track rooms that have unsaved changes").
UnsavedIsTracked == \A r \in Rooms : Unsaved(r) => r \in dirtyRooms \/ InFlight(r)

\* A dirty mark is eventually taken by a flush (canvas-sync.service.ts:160).
DirtyIsFlushed == \A r \in Rooms : r \in dirtyRooms ~> r \notin dirtyRooms

\* Changes eventually reach PostgreSQL and stay there (README:43 "A background
\* flush writes from Redis to PostgreSQL every 5 seconds").
EventuallySaved == \A r \in Rooms : <>[]~Unsaved(r)

\* One request after another, the server is the live canvas of LiveCanvas.
Promise == INSTANCE LiveCanvas WITH live <- redis, durable <- pg
KeepsPromise == Promise!Spec
=============================================================================
